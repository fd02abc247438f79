---------------------- MODULE InvoiceSubmissionProofs ----------------------
(***************************************************************************)
(* InvoiceSubmission for any number of rows, sends and Xero ids, by one    *)
(* invariant, SendInv: a row being sent is marked, so nobody else moves    *)
(* it, so what its send learns from Xero is still true of it when the send *)
(* ends. A row whose mark was written over is exempt from most of it; what *)
(* holds of it still is that it names a bill of its own, and never none    *)
(* again.                                                                  *)
(***************************************************************************)
EXTENDS InvoiceSubmission, TLAPS

-----------------------------------------------------------------------------
(* Types                                                                   *)

\* A send that is under way is of a row.
SendsHaveRows == \A s \in Sends : Live(s) => send[s].row \in Rows

TypeInv == TypeOK /\ SendsHaveRows

\* The claim keeps the types.
LEMMA ClaimTypes ==
  ASSUME TypeInv, NEW s \in Sends, NEW k \in Kinds, NEW r \in Rows, Claim(s, k, r)
  PROVE  row' \in [Rows -> Row] /\ send' \in [Sends -> Send] /\ SendsHaveRows'
<1> USE DEF TypeInv
<1>1. row[r] \in Row
  BY DEF TypeOK
<1>2. [row[r] EXCEPT !.status = "submitting"] \in Row
  BY <1>1 DEF Row, Statuses
<1>3. row' = [row EXCEPT ![r] = [row[r] EXCEPT !.status = "submitting"]]
  BY DEF Claim, TypeOK
<1>4. [at |-> "sending", kind |-> k, row |-> r, version |-> row[r].version,
       target |-> row[r].xeroId, bill |-> NoId] \in Send
  BY <1>1 DEF Send, Row
<1> QED
  BY <1>2, <1>3, <1>4 DEF Claim, TypeOK, SendsHaveRows, Live

\* A send, or the setting aside of a duplicate, keeps the types.
LEMMA SubmitTypes ==
  ASSUME TypeInv, NEW s \in Sends, NEW k \in Kinds, NEW r \in Rows, NEW force \in BOOLEAN,
         SubmitInvoiceToXero(s, k, r, force)
  PROVE  /\ row' \in [Rows -> Row] /\ send' \in [Sends -> Send] /\ SendsHaveRows'
         /\ held' \subseteq Rows
<1> USE DEF TypeInv
<1>1. held' \subseteq Rows
  BY DEF SubmitInvoiceToXero, TypeOK
<1>2. CASE row' = [row EXCEPT ![r].status = "duplicate"] /\ UNCHANGED send
  BY <1>1, <1>2 DEF TypeOK, Row, Statuses, SendsHaveRows, Live
<1>3. CASE Claim(s, k, r)
  BY <1>1, <1>3, ClaimTypes
<1> QED
  BY <1>2, <1>3 DEF SubmitInvoiceToXero

\* The closing update keeps the types: its id comes from Xero or from the row.
LEMMA CloseTypes ==
  ASSUME TypeInv, NEW s \in Sends, NEW status \in Statuses, NEW id, Live(s),
         id \in Ids \cup {NoId} \/ id = KnownId(s), Close(s, status, id)
  PROVE  /\ row' \in [Rows -> Row] /\ send' \in [Sends -> Send] /\ SendsHaveRows'
         /\ held' \subseteq Rows
<1> USE DEF TypeInv
<1>1. Ended \in Send
  BY VersionAssumption DEF Ended, Send, Kinds, Versions
<1>2. row[send[s].row] \in Row
  BY DEF TypeOK, SendsHaveRows
<1>3. id \in Ids \cup {NoId}
  BY <1>2 DEF KnownId, Row
<1>4. row' \in [Rows -> Row]
  BY <1>3 DEF Close, TypeOK, Row
<1>5. send' \in [Sends -> Send] /\ send'[s].at = "idle"
  BY <1>1 DEF Close, TypeOK, Ended
<1>6. held' \subseteq Rows
  BY DEF Close, TypeOK
<1> QED
  BY <1>4, <1>5, <1>6 DEF Close, SendsHaveRows, Live, TypeOK

\* Bills whose answer goes unheard are still bills.
LEMMA UnheardTypes ==
  ASSUME TypeInv, NEW S \in SUBSET Sends
  PROVE  Unheard(S) \subseteq Bill
<1>1. \A b \in bills : [b EXCEPT !.lost = @ \/ \E s \in S : send[s].bill = b.id] \in Bill
  <2> TAKE b \in bills
  <2>1. b \in Bill
    BY DEF TypeOK, TypeInv
  <2> DEFINE l == b.lost \/ \E s \in S : send[s].bill = b.id
  <2>2. l \in BOOLEAN
    BY <2>1 DEF Bill
  <2> HIDE DEF l
  <2>3. [b EXCEPT !.lost = l] \in Bill
    BY <2>1, <2>2 DEF Bill
  <2> QED
    BY <2>3 DEF l
<1> QED
  BY <1>1 DEF Unheard

LEMMA TypeInit == Init => TypeInv
<1> SUFFICES ASSUME Init PROVE TypeInv
  OBVIOUS
<1>1. 0 \in Versions
  BY VersionAssumption DEF Versions
<1> QED
  BY <1>1 DEF Init, TypeInv, TypeOK, Row, Statuses, Send, Ended, Kinds, SendsHaveRows, Live

LEMMA TypeNext == TypeInv /\ [Next]_vars => TypeInv'
<1> SUFFICES ASSUME TypeInv, [Next]_vars PROVE TypeInv'
  OBVIOUS
<1> USE DEF TypeInv
<1>1. ASSUME NEW s \in Sends, NotSent(s) PROVE TypeInv'
  <2>1. PICK status \in {"pending", "error", "posted"} : Close(s, status, KnownId(s))
    BY <1>1 DEF NotSent
  <2>2. /\ row' \in [Rows -> Row] /\ send' \in [Sends -> Send] /\ SendsHaveRows'
        /\ held' \subseteq Rows
    BY <1>1, <2>1, CloseTypes DEF Statuses, NotSent, Live
  <2> QED
    BY <1>1, <2>2 DEF NotSent, TypeOK
<1>2. ASSUME NEW s \in Sends, XeroUpdates(s) PROVE TypeInv'
  <2>1. send[s] \in Send
    BY DEF TypeOK
  <2>2. [send[s] EXCEPT !.at = "answered", !.bill = send[s].target] \in Send
    BY <2>1 DEF Send
  <2>3. send' = [send EXCEPT ![s] = [send[s] EXCEPT !.at = "answered", !.bill = send[s].target]]
    BY <1>2 DEF XeroUpdates, TypeOK
  <2>4. \A b \in bills : [b EXCEPT !.version = send[s].version] \in Bill
    BY <2>1 DEF TypeOK, Bill, Send
  <2>5. bills' \subseteq Bill
    BY <1>2, <2>4 DEF XeroUpdates, TypeOK
  <2>6. send' \in [Sends -> Send]
    BY <2>2, <2>3 DEF TypeOK
  <2>7. SendsHaveRows'
    BY <1>2, <2>3 DEF XeroUpdates, SendsHaveRows, Live, TypeOK
  <2> QED
    <3>1. UNCHANGED <<row, waiting, stuck, booted, active, cutOff, dirty, held, seized>>
      BY <1>2 DEF XeroUpdates
    <3>2. TypeOK'
      BY <2>5, <2>6, <3>1 DEF TypeOK
    <3> QED
      BY <2>7, <3>2
<1>3. ASSUME NEW s \in Sends, XeroCreates(s) PROVE TypeInv'
  <2>1. send[s] \in Send
    BY DEF TypeOK
  <2>2. CASE /\ UNCHANGED bills
             /\ \E b \in Repeated(s) : send' = [send EXCEPT ![s].at = "answered", ![s].bill = b.id]
    <3>1. PICK b \in bills : send' = [send EXCEPT ![s].at = "answered", ![s].bill = b.id]
      BY <2>2 DEF Repeated
    <3>2. b.id \in Ids
      BY DEF TypeOK, Bill
    <3>3. [send[s] EXCEPT !.at = "answered", !.bill = b.id] \in Send
      BY <2>1, <3>2 DEF Send
    <3>4. send' = [send EXCEPT ![s] = [send[s] EXCEPT !.at = "answered", !.bill = b.id]]
      BY <3>1 DEF TypeOK
    <3>5. UNCHANGED <<row, waiting, stuck, booted, active, cutOff, dirty, held, seized>>
      BY <1>3 DEF XeroCreates
    <3>6. send[s].row \in Rows
      BY <1>3 DEF XeroCreates, SendsHaveRows, Live
    <3>7. SendsHaveRows'
      BY <3>4, <3>6 DEF SendsHaveRows, Live, TypeOK
    <3>8. TypeOK'
      BY <2>2, <3>3, <3>4, <3>5 DEF TypeOK
    <3> QED
      BY <3>7, <3>8
  <2>3. CASE \E i \in Ids :
               /\ bills' = bills \cup {[id |-> i, row |-> send[s].row, made |-> send[s].version,
                                version |-> send[s].version, fresh |-> TRUE, lost |-> FALSE]}
               /\ send' = [send EXCEPT ![s].at = "answered", ![s].bill = i]
    <3>1. PICK i \in Ids :
               /\ bills' = bills \cup {[id |-> i, row |-> send[s].row, made |-> send[s].version,
                                version |-> send[s].version, fresh |-> TRUE, lost |-> FALSE]}
               /\ send' = [send EXCEPT ![s].at = "answered", ![s].bill = i]
      BY <2>3
    <3>2. [send[s] EXCEPT !.at = "answered", !.bill = i] \in Send
      BY <2>1 DEF Send
    <3>3. send' = [send EXCEPT ![s] = [send[s] EXCEPT !.at = "answered", !.bill = i]]
      BY <3>1 DEF TypeOK
    <3>4. send[s].row \in Rows
      BY <1>3 DEF XeroCreates, SendsHaveRows, Live
    <3>5. [id |-> i, row |-> send[s].row, made |-> send[s].version,
           version |-> send[s].version, fresh |-> TRUE, lost |-> FALSE] \in Bill
      BY <2>1, <3>4 DEF Bill, Send
    <3>6. bills' \subseteq Bill
      BY <3>1, <3>5 DEF TypeOK
    <3>7. send' \in [Sends -> Send]
      BY <3>2, <3>3 DEF TypeOK
    <3>8. SendsHaveRows'
      BY <3>3, <3>4 DEF SendsHaveRows, Live, TypeOK
    <3> QED
      BY <1>3, <3>6, <3>7, <3>8 DEF XeroCreates, TypeOK
  <2> QED
    BY <1>3, <2>2, <2>3 DEF XeroCreates
<1>4. ASSUME NEW s \in Sends, Answered(s) PROVE TypeInv'
  <2>1. send[s].bill \in Ids \cup {NoId} /\ Live(s)
    BY <1>4 DEF TypeOK, Send, Answered, Live
  <2>2. /\ row' \in [Rows -> Row] /\ send' \in [Sends -> Send] /\ SendsHaveRows'
        /\ held' \subseteq Rows
    BY <1>4, <2>1, CloseTypes DEF Answered, Statuses
  <2> QED
    BY <1>4, <2>2 DEF Answered, TypeOK
<1>5. ASSUME NEW s \in Sends, AnswerLost(s) PROVE TypeInv'
  <2>1. PICK status \in {"error", "posted"} : Close(s, status, KnownId(s))
    BY <1>5 DEF AnswerLost
  <2>2. /\ row' \in [Rows -> Row] /\ send' \in [Sends -> Send] /\ SendsHaveRows'
        /\ held' \subseteq Rows
    BY <1>5, <2>1, CloseTypes DEF AnswerLost, Live, Statuses
  <2>3. bills' \subseteq Bill
    BY <1>5, UnheardTypes DEF AnswerLost
  <2> QED
    BY <1>5, <2>2, <2>3 DEF AnswerLost, TypeOK
<1>6. ASSUME NEW s \in Sends, NEW r \in Rows, AutoTurn(s, r) PROVE TypeInv'
  <2>1. /\ row' \in [Rows -> Row] /\ send' \in [Sends -> Send] /\ SendsHaveRows'
        /\ held' \subseteq Rows
    BY <1>6, SubmitTypes DEF AutoTurn, Kinds, Queues, TypeOK, SendsHaveRows, Live
  <2> QED
    BY <1>6, <2>1 DEF AutoTurn, TypeOK
<1>7. ASSUME NEW s \in Sends, NEW r \in Rows, SubmitNow(s, r) PROVE TypeInv'
  <2>1. /\ row' \in [Rows -> Row] /\ send' \in [Sends -> Send] /\ SendsHaveRows'
        /\ held' \subseteq Rows
    BY <1>7, SubmitTypes, MayForceAssumption DEF SubmitNow, Kinds
  <2> QED
    BY <1>7, <2>1 DEF SubmitNow, TypeOK
<1>8. ASSUME NEW s \in Sends, NEW r \in Rows, BootTurn(s, r) PROVE TypeInv'
  <2>1. /\ row' \in [Rows -> Row] /\ send' \in [Sends -> Send] /\ SendsHaveRows'
        /\ held' \subseteq Rows
    BY <1>8, SubmitTypes DEF BootTurn, Kinds, TypeOK, SendsHaveRows, Live
  <2> QED
    BY <1>8, <2>1 DEF BootTurn, TypeOK
<1>9. ASSUME NEW s \in Sends, NEW r \in Rows, NEW q \in Queues, QueueTurn(s, q, r) PROVE TypeInv'
  <2>1. /\ row' \in [Rows -> Row] /\ send' \in [Sends -> Send] /\ SendsHaveRows'
        /\ held' \subseteq Rows
    BY <1>9, SubmitTypes DEF QueueTurn, Kinds, TypeOK, SendsHaveRows, Live
  <2> QED
    BY <1>9, <2>1 DEF QueueTurn, TypeOK
<1>10. ASSUME NEW r \in Rows, StoreRow(r) PROVE TypeInv'
  BY <1>10 DEF StoreRow, TypeOK, Row, Statuses, Queues, SendsHaveRows, Live
<1>11. ASSUME NEW r \in Rows, HoldTurn(r) PROVE TypeInv'
  <2>1. row' \in [Rows -> Row] /\ held' \subseteq Rows /\ seized' \subseteq Rows
    BY <1>11 DEF HoldTurn, Overwrites, TypeOK, Row, Statuses
  <2>2. waiting' \in [Queues -> SUBSET Rows]
    BY <1>11 DEF HoldTurn, TypeOK
  <2> QED
    BY <1>11, <2>1, <2>2 DEF HoldTurn, TypeOK, SendsHaveRows, Live
<1>12. ASSUME NEW r \in Rows, Edit(r) PROVE TypeInv'
  <2>1. row[r] \in Row /\ row[r].version + 1 \in Versions
    BY <1>12, VersionAssumption DEF Edit, TypeOK, Row, Versions
  <2> QED
    BY <1>12, <2>1 DEF Edit, TypeOK, Row, SendsHaveRows, Live
<1>13. ASSUME NEW r \in Rows, Report(r) PROVE TypeInv'
  BY <1>13 DEF Report, Overwrites, TypeOK, Row, Statuses, SendsHaveRows, Live
<1>14. ASSUME NEW r \in Rows, NEW q \in Queues, QueueSend(q, r) PROVE TypeInv'
  BY <1>14 DEF QueueSend, TypeOK, SendsHaveRows, Live
<1>15. ASSUME NEW r \in Rows, NEW status \in Statuses, SetStatus(r, status) PROVE TypeInv'
  BY <1>15 DEF SetStatus, Overwrites, TypeOK, Row, SendsHaveRows, Live
<1>16. ASSUME NEW gone \in SUBSET Rows, Delete(gone) PROVE TypeInv'
  <2>1. row' \in [Rows -> Row]
    BY <1>16 DEF Delete, TypeOK, Row, Statuses
  <2> QED
    BY <1>16, <2>1 DEF Delete, TypeOK, SendsHaveRows, Live
<1>17. CASE BootScan
  BY <1>17 DEF BootScan, TypeOK, SendsHaveRows, Live
<1>18. CASE SetActive
  BY <1>18 DEF SetActive, TypeOK, SendsHaveRows, Live
<1>19. CASE WindowPasses
  <2>1. \A b \in bills : [b EXCEPT !.fresh = FALSE] \in Bill
    BY DEF TypeOK, Bill
  <2> QED
    BY <1>19, <2>1 DEF WindowPasses, TypeOK, SendsHaveRows, Live
<1>20. CASE Restart
  <2>1. \A r \in Rows : Released(r) \in Row
    BY DEF Released, TypeOK, Row, Statuses
  <2>2. Ended \in Send /\ Ended.at = "idle"
    BY VersionAssumption DEF Ended, Send, Kinds, Versions
  <2>3. bills' \subseteq Bill
    BY <1>20, UnheardTypes DEF Restart
  <2>4. cutOff' \subseteq Rows
    BY <1>20 DEF Restart, TypeOK, SendsHaveRows
  <2>5. row' \in [Rows -> Row] /\ send' \in [Sends -> Send] /\ SendsHaveRows'
    BY <1>20, <2>1, <2>2 DEF Restart, SendsHaveRows, Live
  <2> QED
    BY <1>20, <2>3, <2>4, <2>5 DEF Restart, TypeOK
<1>21. ASSUME NEW r \in Rows, Resolve(r) PROVE TypeInv'
  BY <1>21 DEF Resolve, TypeOK, Row, Statuses, SendsHaveRows, Live
<1>22. CASE UNCHANGED vars
  BY <1>22 DEF vars, TypeOK, SendsHaveRows, Live
<1> QED
  BY <1>1, <1>2, <1>3, <1>4, <1>5, <1>6, <1>7, <1>8, <1>9, <1>10, <1>11, <1>12, <1>13,
     <1>14, <1>15, <1>16, <1>17, <1>18, <1>19, <1>20, <1>21, <1>22
  DEF Next, Progress

\* Every row, send, queue and bill keeps its type: no send is ever of no row,
\* and no row is left in a status the program does not know.
THEOREM SubmissionTypes == Spec => []TypeOK
<1>1. TypeInv => TypeOK
  BY DEF TypeInv
<1> QED
  BY <1>1, TypeInit, TypeNext, PTL DEF Spec

-----------------------------------------------------------------------------
(* The three kinds of step                                                 *)

\* Versions are numbers, so "shows no less" can be carried along.
LEMMA VersionsAreNumbers ==
  ASSUME TypeOK
  PROVE  /\ \A r \in Rows : row[r].version \in Int
         /\ \A s \in Sends : send[s].version \in Int
         /\ \A b \in bills : b.version \in Int /\ b.row \in Rows /\ b.id \in Ids
  BY VersionAssumption DEF TypeOK, Row, Send, Bill, Versions

\* What a person, the chain or the boot does to a row that is not being sent, or
\* is from now on one whose status was written over.
LEMMA RowMoves ==
  ASSUME SendInv, TypeOK', UNCHANGED <<send, bills>>, cutOff' \subseteq cutOff,
         seized \subseteq seized', waiting'["auto"] \cap cutOff' \subseteq waiting["auto"],
         \A r \in Rows : /\ row'[r].xeroId = row[r].xeroId
                         /\ row'[r].version \in {row[r].version, row[r].version + 1},
         \A r \in Rows : row[r].status = "submitting" => row'[r] = row[r] \/ r \in seized',
         \A r \in Rows : row'[r].status = "submitting" => row[r].status = "submitting",
         \A r \in Rows : row'[r].status = "absent" => row[r].status = "absent",
         \A r \in Rows : row'[r].status = "posted" => InXero(r),
         \A r \in Rows : InXero(r) =>
           /\ Exists(r)'
           /\ r \in seized' \/ row'[r].status = "posted"
              \/ (row'[r].status = row[r].status /\ (row[r].status = "pending" /\ r \in held => r \in held'))
              \/ (row'[r].status = "pending" /\ r \in held'),
         \A r \in Rows : row'[r].status = "duplicate" =>
            row[r].status = "duplicate" \/ PostedDuplicate(r),
         \A r \in Rows : InXero(r) /\ r \notin dirty' =>
            r \notin dirty /\ row'[r].version = row[r].version,
         \A r \in cutOff' : r \in seized' \/ row'[r].status \in {row[r].status, "reported"}
  PROVE  SendInv'
<1> USE DEF SendInv
<1>1. /\ \A r \in Rows : row[r].version \in Int /\ row'[r].version \in Int
      /\ \A s \in Sends : send[s].version \in Int
      /\ \A b \in bills : b.version \in Int /\ b.row \in Rows /\ b.id \in Ids
  <2>1. \A r \in Rows : row'[r].version \in Int
    BY VersionAssumption DEF TypeOK, Row, Versions
  <2> QED
    BY <2>1, VersionsAreNumbers
<1>2. \A r \in Rows : InXero(r)' <=> InXero(r)
  BY DEF InXero
<1>3. \A s \in Sends : (Live(s)' <=> Live(s)) /\ send'[s] = send[s]
  BY DEF Live
<1>4. SendsApart' /\ OneBillPerId'
  BY <1>3 DEF SendsApart, OneBillPerId
<1>5. SendsAnswered'
  <2> SUFFICES ASSUME NEW s \in Sends
               PROVE  /\ Live(s) /\ send[s].target # NoId =>
                           \E b \in bills : b.id = send[s].target /\ b.row = send[s].row
                      /\ send[s].at # "answered" => send[s].bill = NoId
                      /\ send[s].at = "answered" =>
                           /\ send[s].target # NoId => send[s].bill = send[s].target
                           /\ \E b \in bills :
                                /\ b.id = send[s].bill /\ b.row = send[s].row
                                /\ b.row \in seized' \/ b.version = send[s].version
    BY <1>3 DEF SendsAnswered
  <2> QED
    BY DEF SendsAnswered
<1>6. SendsMarked'
  <2> SUFFICES ASSUME NEW s \in Sends, Live(s)
               PROVE  /\ send[s].row \in Rows
                      /\ row'[send[s].row].status # "absent"
                      /\ send[s].version <= row'[send[s].row].version
                      /\ send[s].target # NoId => InXero(send[s].row)'
                      /\ send[s].row \notin seized' =>
                           /\ row'[send[s].row].status = "submitting"
                           /\ row'[send[s].row].version = send[s].version
                           /\ row'[send[s].row].xeroId = send[s].target
    BY <1>3 DEF SendsMarked
  <2>1. /\ send[s].row \in Rows /\ row[send[s].row].status # "absent"
        /\ send[s].version <= row[send[s].row].version
        /\ send[s].target # NoId => InXero(send[s].row)
        /\ send[s].row \notin seized =>
             /\ row[send[s].row].status = "submitting"
             /\ row[send[s].row].version = send[s].version
             /\ row[send[s].row].xeroId = send[s].target
    BY DEF SendsMarked
  <2>2. send[s].version <= row'[send[s].row].version
    BY <1>1, <2>1
  <2>3. send[s].row \notin seized' => row'[send[s].row] = row[send[s].row]
    BY <2>1
  <2> QED
    BY <1>2, <2>1, <2>2, <2>3
<1>7. MarkedIsSent'
  BY <1>3 DEF MarkedIsSent
<1>8. PostedIsInXero'
  BY <1>2 DEF PostedIsInXero
<1>9. InXeroIsPosted'
  BY <1>2 DEF InXeroIsPosted
<1>10. InXeroMatches'
  <2> SUFFICES ASSUME NEW r \in Rows, InXero(r)
               PROVE  /\ Exists(r)'
                      /\ \E b \in bills : /\ b.id = row'[r].xeroId /\ b.row = r
                                          /\ r \in dirty' \cup seized' \/ b.version = row'[r].version
    BY <1>2 DEF InXeroMatches
  <2> QED
    BY DEF InXeroMatches
<1>11. BillsAsMade'
  <2>1. \A b \in bills : row'[b.row].xeroId = row[b.row].xeroId
    BY <1>1
  <2>2. \A b \in bills : b.version <= row'[b.row].version
    BY <1>1 DEF BillsAsMade
  <2> QED
    BY <2>1, <2>2 DEF BillsAsMade
<1>12. NoBillLeftBehind'
  BY <1>1, <1>3 DEF NoBillLeftBehind
<1>13. SetAsideHasOriginal'
  BY <1>2 DEF SetAsideHasOriginal, PostedDuplicate, PostedIsInXero
<1>14. CutOffWaits'
  BY DEF CutOffWaits, TypeOK
<1> QED
  BY <1>4, <1>5, <1>6, <1>7, <1>8, <1>9, <1>10, <1>11, <1>12, <1>13, <1>14

\* A turn that comes to nothing, and whatever else leaves the rows alone.
LEMMA RowsStay ==
  ASSUME SendInv, TypeOK', UNCHANGED <<row, send, bills, dirty, held, seized>>,
         cutOff' \subseteq cutOff, waiting'["auto"] \subseteq waiting["auto"]
  PROVE  SendInv'
  BY RowMoves DEF SendInv, InXeroMatches, Exists, PostedIsInXero

\* A claim: unless its status was written over, the row's new send is the only
\* one, and takes along what the row is.
LEMMA ClaimKeeps ==
  ASSUME SendInv, TypeOK', NEW s \in Sends, NEW k \in Kinds, NEW r \in Rows, Exists(r),
         Claim(s, k, r), held' = held \ {r}, UNCHANGED <<bills, dirty, seized>>,
         cutOff' \subseteq cutOff, r \in cutOff' => r \in seized, waiting'["auto"] \subseteq waiting["auto"]
  PROVE  SendInv'
<1> USE DEF SendInv
<1>1. /\ \A q \in Rows : q # r => row'[q] = row[q]
      /\ row'[r] = [row[r] EXCEPT !.status = "submitting"]
  BY DEF Claim, TypeOK
<1>2. /\ row'[r].status = "submitting" /\ row'[r].version = row[r].version
      /\ \A q \in Rows : row'[q].xeroId = row[q].xeroId /\ row'[q].version = row[q].version
  BY <1>1 DEF TypeOK, Row
<1>3. \A t \in Sends : t # s => send'[t] = send[t] /\ (Live(t)' <=> Live(t))
  BY DEF Claim, TypeOK, Live
<1>4. /\ send'[s].at = "sending" /\ send'[s].row = r /\ send'[s].bill = NoId
      /\ send'[s].version = row[r].version /\ send'[s].target = row[r].xeroId
  BY DEF Claim, TypeOK
<1>5. \A t \in Sends : Live(t) /\ send[t].row = r => r \in seized
  BY DEF Claim, SendsMarked
<1>6. ~Live(s) /\ Live(s)' /\ send[s].bill = NoId
  BY <1>4 DEF Claim, Live, SendsAnswered
<1>7. \A q \in Rows : InXero(q)' <=> InXero(q)
  BY <1>2 DEF InXero
<1>8. SendsApart'
  BY <1>3, <1>4, <1>5 DEF SendsApart
<1>9. SendsMarked'
  <2> SUFFICES ASSUME NEW t \in Sends, Live(t)'
               PROVE  /\ send'[t].row \in Rows
                      /\ row'[send'[t].row].status # "absent"
                      /\ send'[t].version <= row'[send'[t].row].version
                      /\ send'[t].target # NoId => InXero(send'[t].row)
                      /\ send'[t].row \notin seized =>
                           /\ row'[send'[t].row].status = "submitting"
                           /\ row'[send'[t].row].version = send'[t].version
                           /\ row'[send'[t].row].xeroId = send'[t].target
    BY <1>2, <1>7 DEF SendsMarked, InXero
  <2>1. CASE t = s
    <3>1. row[r].version \in Int
      BY VersionsAreNumbers
    <3> QED
      BY <1>2, <1>4, <2>1, <3>1 DEF InXero
  <2>2. CASE t # s
    <3>1. send'[t] = send[t] /\ Live(t)
      BY <1>3, <2>2
    <3>2. CASE send[t].row = r
      BY <1>2, <1>5, <3>1, <3>2 DEF SendsMarked
    <3>3. CASE send[t].row # r
      BY <1>1, <3>1, <3>3 DEF SendsMarked
    <3> QED
      BY <3>2, <3>3
  <2> QED
    BY <2>1, <2>2
<1>10. MarkedIsSent'
  BY <1>1, <1>3, <1>4, <1>6 DEF MarkedIsSent
<1>11. SendsAnswered'
  <2> SUFFICES ASSUME NEW t \in Sends
               PROVE  /\ Live(t)' /\ send'[t].target # NoId =>
                           \E b \in bills : b.id = send'[t].target /\ b.row = send'[t].row
                      /\ send'[t].at # "answered" => send'[t].bill = NoId
                      /\ send'[t].at = "answered" =>
                           /\ send'[t].target # NoId => send'[t].bill = send'[t].target
                           /\ \E b \in bills :
                                /\ b.id = send'[t].bill /\ b.row = send'[t].row
                                /\ b.row \in seized \/ b.version = send'[t].version
    BY DEF SendsAnswered
  <2>1. CASE t = s
    BY <1>4, <2>1 DEF InXeroMatches, InXero
  <2>2. CASE t # s
    BY <1>3, <2>2 DEF SendsAnswered
  <2> QED
    BY <2>1, <2>2
<1>12. PostedIsInXero' /\ InXeroIsPosted'
  BY <1>1, <1>2, <1>7 DEF PostedIsInXero, InXeroIsPosted
<1>13. InXeroMatches'
  <2>1. \A q \in Rows : Exists(q) => Exists(q)'
    BY <1>1, <1>2 DEF Exists
  <2> QED
    BY <1>2, <1>7, <2>1 DEF InXeroMatches
<1>14. OneBillPerId' /\ BillsAsMade'
  BY <1>2, VersionsAreNumbers DEF OneBillPerId, BillsAsMade
<1>15. NoBillLeftBehind'
  <2> SUFFICES ASSUME NEW b \in bills
               PROVE  \/ row'[b.row].xeroId = b.id \/ b.lost \/ b.row \in seized
                      \/ \E t \in Sends : send'[t].bill = b.id
    BY DEF NoBillLeftBehind
  <2>1. b.id # NoId /\ b.row \in Rows
    BY IdsAssumption, VersionsAreNumbers
  <2> QED
    BY <1>2, <1>3, <1>6, <2>1 DEF NoBillLeftBehind
<1>16. SetAsideHasOriginal'
  <2>1. \A q \in Rows : row'[q].status = "duplicate" => row[q].status = "duplicate"
    BY <1>1, <1>2
  <2> QED
    BY <1>7, <2>1 DEF SetAsideHasOriginal
<1>17. CutOffWaits'
  BY <1>1, <1>2 DEF CutOffWaits, TypeOK
<1> QED
  BY <1>8, <1>9, <1>10, <1>11, <1>12, <1>13, <1>14, <1>15, <1>16, <1>17

\* A call of submitInvoiceToXero, whether it claims the row or sets it aside.
LEMMA SubmitKeeps ==
  ASSUME SendInv, TypeOK', NEW s \in Sends, NEW k \in Kinds, NEW r \in Rows, NEW force \in BOOLEAN,
         row[r].status \in Submittable, SubmitInvoiceToXero(s, k, r, force),
         UNCHANGED <<bills, dirty, seized>>, cutOff' \subseteq cutOff, r \in cutOff' => r \in seized,
         waiting'["auto"] \subseteq waiting["auto"]
  PROVE  SendInv'
<1>1. held' = held \ {r} /\ Exists(r) /\ row[r].status # "submitting"
  BY DEF SubmitInvoiceToXero, Submittable, Exists
<1>2. CASE Claim(s, k, r)
  BY <1>1, <1>2, ClaimKeeps
<1>3. CASE /\ PostedDuplicate(r) /\ UNCHANGED send
           /\ row' = [row EXCEPT ![r].status = "duplicate"]
  <2> USE DEF SendInv
  <2>1. /\ \A q \in Rows : q # r => row'[q] = row[q]
        /\ row'[r] = [row[r] EXCEPT !.status = "duplicate"]
    BY <1>3 DEF TypeOK
  <2>2. /\ row'[r].status = "duplicate"
        /\ \A q \in Rows : row'[q].xeroId = row[q].xeroId /\ row'[q].version = row[q].version
    BY <2>1 DEF TypeOK, Row
  <2>3. ~InXero(r)
    BY <1>3 DEF PostedDuplicate
  <2>4. \A q \in cutOff' : q \in seized' \/ row'[q].status = row[q].status
    BY <2>1 DEF TypeOK
  <2>5. \A q \in Rows : InXero(q) => q # r /\ Exists(q)' /\ row'[q].status = row[q].status
    BY <2>1, <2>3 DEF InXeroMatches, Exists
  <2>6. \A q \in Rows : row'[q].status = "posted" => InXero(q)
    BY <2>1, <2>2 DEF PostedIsInXero
  <2> QED
    BY <1>1, <1>3, <2>1, <2>2, <2>4, <2>5, <2>6, RowMoves
<1> QED
  BY <1>2, <1>3 DEF SubmitInvoiceToXero

\* What a closing update leaves: the row as told if it is still here, its send
\* ended, the rest alone.
LEMMA Closes ==
  ASSUME SendInv, NEW s \in Sends, Live(s), NEW status, NEW id, Close(s, status, id)
  PROVE  /\ send[s].row \in Rows
         /\ \A q \in Rows : q # send[s].row => row'[q] = row[q]
         /\ Exists(send[s].row) => row'[send[s].row].status = status /\ row'[send[s].row].xeroId = id
         /\ ~Exists(send[s].row) => send[s].row \in seized /\ row'[send[s].row] = row[send[s].row]
         /\ \A q \in Rows : row'[q].version = row[q].version
         /\ \A t \in Sends : t # s => send'[t] = send[t] /\ (Live(t)' <=> Live(t))
         /\ \A t \in Sends : t # s /\ Live(t) /\ send[t].row = send[s].row => send[s].row \in seized
         /\ ~Live(s)' /\ send'[s].bill = NoId /\ send'[s].at = "idle"
         /\ held' = held \ {send[s].row}
<1> USE DEF SendInv
<1>1. send[s].row \in Rows
  BY DEF SendsMarked
<1>2. ~Exists(send[s].row) => send[s].row \in seized /\ row' = row
  BY DEF SendsMarked, Exists, Close
<1>3. Exists(send[s].row) =>
        row' = [row EXCEPT ![send[s].row].status = status, ![send[s].row].xeroId = id]
  BY DEF Close
<1>4. \A q \in Rows : row[q] \in Row
  BY DEF TypeOK
<1>5. \A q \in Rows : q # send[s].row => row'[q] = row[q]
  BY <1>1, <1>2, <1>3 DEF TypeOK
<1>6. Exists(send[s].row) =>
        row'[send[s].row] = [row[send[s].row] EXCEPT !.status = status, !.xeroId = id]
  BY <1>1, <1>3 DEF TypeOK
<1>7. Exists(send[s].row) =>
        /\ row'[send[s].row].status = status /\ row'[send[s].row].xeroId = id
        /\ row'[send[s].row].version = row[send[s].row].version
  BY <1>1, <1>4, <1>6 DEF Row
<1>8. \A t \in Sends : t # s => send'[t] = send[t] /\ (Live(t)' <=> Live(t))
  BY DEF Close, TypeOK, Live
<1>9. send'[s] = Ended
  BY DEF Close, TypeOK
<1>10. \A q \in Rows : row'[q].version = row[q].version
  BY <1>2, <1>5, <1>7
<1>11. \A t \in Sends : t # s /\ Live(t) /\ send[t].row = send[s].row => send[s].row \in seized
  BY DEF SendsApart
<1>12. ~Live(s)' /\ send'[s].bill = NoId /\ send'[s].at = "idle"
  BY <1>9 DEF Live, Ended
<1>13. held' = held \ {send[s].row}
  BY DEF Close
<1> QED
  BY <1>1, <1>2, <1>5, <1>7, <1>8, <1>10, <1>11, <1>12, <1>13

-----------------------------------------------------------------------------
(* Bills that stay what they are                                           *)

SameBill(b, c) == b.id = c.id /\ b.row = c.row /\ b.made = c.made /\ b.version = c.version

\* Xero holds the same bills as before; an answer may have become lost.
BillsStay ==
  /\ \A c \in bills' : \E b \in bills : SameBill(b, c) /\ (b.lost => c.lost)
  /\ \A b \in bills : \E c \in bills' : SameBill(b, c)
  /\ OneBillPerId'

LEMMA UnheardStays ==
  ASSUME TypeOK, OneBillPerId, NEW S \in SUBSET Sends, bills' = Unheard(S)
  PROVE  BillsStay /\ \A c \in bills' : \A s \in S : send[s].bill = c.id => c.lost
<1> DEFINE f(b) == [b EXCEPT !.lost = @ \/ \E s \in S : send[s].bill = b.id]
<1>1. bills' = {f(b) : b \in bills}
  BY DEF Unheard
<1>2. ASSUME NEW b \in bills
      PROVE  /\ SameBill(b, f(b)) /\ (b.lost => f(b).lost)
             /\ \A s \in S : send[s].bill = b.id => f(b).lost
  <2>1. b \in Bill
    BY DEF TypeOK
  <2> DEFINE l == b.lost \/ \E s \in S : send[s].bill = b.id
  <2>2. f(b) = [b EXCEPT !.lost = l]
    BY DEF f
  <2>3. (b.lost => l) /\ \A s \in S : send[s].bill = b.id => l
    OBVIOUS
  <2> HIDE DEF l, f
  <2>4. f(b).lost = l /\ SameBill(b, f(b))
    BY <2>1, <2>2 DEF Bill, SameBill
  <2> QED
    BY <2>3, <2>4
<1> HIDE DEF f
<1>3. \A c \in bills' : \E b \in bills : c = f(b)
  BY <1>1
<1>4. \A b \in bills : f(b) \in bills'
  BY <1>1
<1>5. OneBillPerId'
  BY <1>2, <1>3 DEF OneBillPerId, SameBill
<1> QED
  BY <1>2, <1>3, <1>4, <1>5 DEF BillsStay, SameBill

LEMMA WindowStays ==
  ASSUME SendInv, WindowPasses
  PROVE  BillsStay
<1> USE DEF SendInv
<1> DEFINE f(b) == [b EXCEPT !.fresh = FALSE]
<1>1. bills' = {f(b) : b \in bills}
  BY DEF WindowPasses
<1>2. \A b \in bills : SameBill(b, f(b)) /\ (b.lost => f(b).lost)
  BY DEF TypeOK, Bill, SameBill
<1> HIDE DEF f
<1>3. \A c \in bills' : \E b \in bills : c = f(b)
  BY <1>1
<1>4. \A b \in bills : f(b) \in bills'
  BY <1>1
<1>5. OneBillPerId'
  BY <1>2, <1>3 DEF OneBillPerId, SameBill
<1> QED
  BY <1>2, <1>3, <1>4, <1>5 DEF BillsStay
\* An end without an answer: a correction goes back to posted, anything else to
\* where it was not in Xero. What Xero may have made of it is marked as lost.
LEMMA UnansweredKeeps ==
  ASSUME SendInv, TypeOK', NEW s \in Sends, Live(s), NEW status \in {"pending", "error"},
         Close(s, IF send[s].target # NoId THEN "posted" ELSE status, KnownId(s)),
         BillsStay, \A b \in bills' : send[s].bill = b.id => b.lost,
         UNCHANGED <<cutOff, dirty, seized, waiting>>
  PROVE  SendInv'
<1> USE DEF SendInv
<1> DEFINE r == send[s].row
           end == IF send[s].target # NoId THEN "posted" ELSE status
<1>1. /\ r \in Rows
      /\ \A q \in Rows : q # r => row'[q] = row[q]
      /\ Exists(r) => row'[r].status = end /\ row'[r].xeroId = KnownId(s)
      /\ ~Exists(r) => r \in seized /\ row'[r] = row[r]
      /\ \A q \in Rows : row'[q].version = row[q].version
      /\ \A t \in Sends : t # s => send'[t] = send[t] /\ (Live(t)' <=> Live(t))
      /\ \A t \in Sends : t # s /\ Live(t) /\ send[t].row = r => r \in seized
      /\ ~Live(s)' /\ send'[s].bill = NoId /\ send'[s].at = "idle"
      /\ held' = held \ {r}
  BY Closes
<1>2. \A q \in Rows : row'[q].xeroId = row[q].xeroId
  BY <1>1 DEF KnownId
<1>3. r \notin seized => send[s].target = row[r].xeroId /\ row[r].status = "submitting"
  BY DEF SendsMarked
<1>4. /\ end \in {"posted", "pending", "error"}
      /\ r \notin seized => end = IF InXero(r) THEN "posted" ELSE status
      /\ end = "posted" => InXero(r)
  BY <1>3 DEF InXero, SendsMarked
<1>5. \A q \in Rows : InXero(q)' <=> InXero(q)
  BY <1>2 DEF InXero
<1>6. \A q \in Rows : (Exists(q)' <=> Exists(q)) /\ (row'[q].status = "absent" => row[q].status = "absent")
  BY <1>1, <1>4 DEF Exists
<1> HIDE DEF r, end
<1>7. SendsApart'
  BY <1>1 DEF SendsApart
<1>8. SendsMarked'
  <2> SUFFICES ASSUME NEW t \in Sends, t # s, Live(t)
               PROVE  /\ send[t].row \in Rows
                      /\ row'[send[t].row].status # "absent"
                      /\ send[t].version <= row'[send[t].row].version
                      /\ send[t].target # NoId => row'[send[t].row].xeroId # NoId
                      /\ send[t].row \notin seized =>
                           /\ row'[send[t].row].status = "submitting"
                           /\ row'[send[t].row].version = send[t].version
                           /\ row'[send[t].row].xeroId = send[t].target
    BY <1>1 DEF SendsMarked, InXero
  <2>1. send[t].row \in Rows /\ (send[t].row \notin seized => send[t].row # r)
    BY <1>1 DEF SendsMarked
  <2> QED
    BY <1>1, <1>2, <1>6, <2>1 DEF SendsMarked, InXero
<1>9. MarkedIsSent'
  <2> SUFFICES ASSUME NEW q \in Rows, row'[q].status = "submitting"
               PROVE  \E t \in Sends : Live(t)' /\ send'[t].row = q
    BY DEF MarkedIsSent
  <2>1. q # r /\ row[q].status = "submitting"
    BY <1>1, <1>4 DEF Exists
  <2>2. PICK t \in Sends : Live(t) /\ send[t].row = q
    BY <2>1 DEF MarkedIsSent
  <2> QED
    BY <1>1, <2>1, <2>2 DEF r
<1>10. SendsAnswered'
  <2> SUFFICES ASSUME NEW t \in Sends
               PROVE  /\ Live(t)' /\ send'[t].target # NoId =>
                           \E b \in bills' : b.id = send'[t].target /\ b.row = send'[t].row
                      /\ send'[t].at # "answered" => send'[t].bill = NoId
                      /\ send'[t].at = "answered" =>
                           /\ send'[t].target # NoId => send'[t].bill = send'[t].target
                           /\ \E b \in bills' :
                                /\ b.id = send'[t].bill /\ b.row = send'[t].row
                                /\ b.row \in seized \/ b.version = send'[t].version
    BY DEF SendsAnswered
  <2>1. CASE t = s
    BY <1>1, <2>1
  <2>2. CASE t # s
    BY <1>1, <2>2 DEF SendsAnswered, BillsStay, SameBill
  <2> QED
    BY <2>1, <2>2
<1>11. PostedIsInXero' /\ InXeroIsPosted'
  <2>1. PostedIsInXero'
    BY <1>1, <1>4, <1>5 DEF PostedIsInXero
  <2>2. InXeroIsPosted'
    BY <1>1, <1>3, <1>4, <1>5 DEF InXeroIsPosted, Exists
  <2> QED
    BY <2>1, <2>2
<1>12. InXeroMatches'
  <2> SUFFICES ASSUME NEW q \in Rows, InXero(q)
               PROVE  /\ Exists(q)'
                      /\ \E c \in bills' : /\ c.id = row'[q].xeroId /\ c.row = q
                                           /\ q \in dirty \cup seized \/ c.version = row'[q].version
    BY <1>5 DEF InXeroMatches
  <2> QED
    BY <1>1, <1>2, <1>6 DEF InXeroMatches, BillsStay, SameBill
<1>13. OneBillPerId'
  BY DEF BillsStay
<1>14. BillsAsMade'
  BY <1>1, <1>2 DEF BillsAsMade, BillsStay, SameBill, TypeOK, Bill
<1>15. NoBillLeftBehind'
  <2> SUFFICES ASSUME NEW c \in bills'
               PROVE  \/ row'[c.row].xeroId = c.id \/ c.lost \/ c.row \in seized
                      \/ \E t \in Sends : send'[t].bill = c.id
    BY DEF NoBillLeftBehind
  <2>1. PICK b \in bills : SameBill(b, c) /\ (b.lost => c.lost)
    BY DEF BillsStay
  <2>2. c.row \in Rows
    BY DEF TypeOK, Bill
  <2> QED
    BY <1>1, <1>2, <2>1, <2>2 DEF NoBillLeftBehind, SameBill
<1>16. SetAsideHasOriginal'
  <2>1. \A q \in Rows : row'[q].status = "duplicate" => row[q].status = "duplicate"
    BY <1>1, <1>4
  <2> QED
    BY <1>5, <2>1 DEF SetAsideHasOriginal
<1>17. CutOffWaits'
  BY <1>1, <1>3, <1>6 DEF CutOffWaits, TypeOK
<1> QED
  BY <1>7, <1>8, <1>9, <1>10, <1>11, <1>12, <1>13, <1>14, <1>15, <1>16, <1>17

\* The answer: a row that is still here names the bill that Xero made of it or
\* corrected.
LEMMA AnsweredKeeps ==
  ASSUME SendInv, TypeOK', NEW s \in Sends, Answered(s)
  PROVE  SendInv'
<1> USE DEF SendInv
<1> DEFINE r == send[s].row
           id == send[s].bill
<1>1. /\ r \in Rows
      /\ \A q \in Rows : q # r => row'[q] = row[q]
      /\ Exists(r) => row'[r].status = "posted" /\ row'[r].xeroId = id
      /\ ~Exists(r) => r \in seized /\ row'[r] = row[r]
      /\ \A q \in Rows : row'[q].version = row[q].version
      /\ \A t \in Sends : t # s => send'[t] = send[t] /\ (Live(t)' <=> Live(t))
      /\ \A t \in Sends : t # s /\ Live(t) /\ send[t].row = r => r \in seized
      /\ ~Live(s)' /\ send'[s].bill = NoId /\ send'[s].at = "idle"
      /\ held' = held \ {r}
  BY Closes DEF Answered, Live
<1>2. r \notin seized => /\ send[s].target = row[r].xeroId /\ row[r].status = "submitting"
                         /\ send[s].version = row[r].version
  BY DEF SendsMarked, Answered, Live
<1>3. r \notin seized /\ InXero(r) => row[r].xeroId = id
  BY <1>2 DEF SendsAnswered, Answered, InXero
<1>4. PICK b \in bills : b.id = id /\ b.row = r /\ (r \in seized \/ b.version = row[r].version)
  BY <1>2 DEF SendsAnswered, Answered
<1>5. id # NoId
  BY <1>4, IdsAssumption DEF TypeOK, Bill
<1>6. UNCHANGED <<bills, cutOff, seized, waiting>> /\ dirty' = dirty \ {r}
  BY DEF Answered
<1>7. \A q \in Rows : InXero(q) => InXero(q)' /\ (q \in seized \/ row'[q].xeroId = row[q].xeroId)
  BY <1>1, <1>3, <1>5 DEF InXero
<1>8. \A q \in Rows : q # r => (InXero(q)' <=> InXero(q))
  BY <1>1 DEF InXero
<1>9. \A q \in Rows : (Exists(q)' <=> Exists(q)) /\ (row'[q].status = "absent" => row[q].status = "absent")
  BY <1>1 DEF Exists
<1> HIDE DEF r, id
<1>10. SendsApart'
  BY <1>1, <1>6 DEF SendsApart
<1>11. SendsMarked'
  <2> SUFFICES ASSUME NEW t \in Sends, t # s, Live(t)
               PROVE  /\ send[t].row \in Rows
                      /\ row'[send[t].row].status # "absent"
                      /\ send[t].version <= row'[send[t].row].version
                      /\ send[t].target # NoId => InXero(send[t].row)'
                      /\ send[t].row \notin seized =>
                           /\ row'[send[t].row].status = "submitting"
                           /\ row'[send[t].row].version = send[t].version
                           /\ row'[send[t].row].xeroId = send[t].target
    BY <1>1, <1>6 DEF SendsMarked, InXero
  <2>1. send[t].row \in Rows /\ (send[t].row \notin seized => send[t].row # r)
    BY <1>1 DEF SendsMarked
  <2> QED
    BY <1>1, <1>7, <1>9, <2>1 DEF SendsMarked
<1>12. MarkedIsSent'
  <2> SUFFICES ASSUME NEW q \in Rows, row'[q].status = "submitting"
               PROVE  \E t \in Sends : Live(t)' /\ send'[t].row = q
    BY DEF MarkedIsSent
  <2>1. q # r /\ row[q].status = "submitting"
    BY <1>1 DEF Exists
  <2>2. PICK t \in Sends : Live(t) /\ send[t].row = q
    BY <2>1 DEF MarkedIsSent
  <2> QED
    BY <1>1, <2>1, <2>2 DEF r
<1>13. SendsAnswered'
  <2> SUFFICES ASSUME NEW t \in Sends
               PROVE  /\ Live(t)' /\ send'[t].target # NoId =>
                           \E c \in bills : c.id = send'[t].target /\ c.row = send'[t].row
                      /\ send'[t].at # "answered" => send'[t].bill = NoId
                      /\ send'[t].at = "answered" =>
                           /\ send'[t].target # NoId => send'[t].bill = send'[t].target
                           /\ \E c \in bills :
                                /\ c.id = send'[t].bill /\ c.row = send'[t].row
                                /\ c.row \in seized \/ c.version = send'[t].version
    BY <1>6 DEF SendsAnswered
  <2>1. CASE t = s
    BY <1>1, <2>1
  <2>2. CASE t # s
    BY <1>1, <2>2 DEF SendsAnswered
  <2> QED
    BY <2>1, <2>2
<1>14. PostedIsInXero' /\ InXeroIsPosted'
  <2>1. Exists(r) => row'[r].xeroId # NoId
    BY <1>1, <1>5
  <2>2. PostedIsInXero'
    BY <1>1, <2>1 DEF PostedIsInXero, InXero, Exists
  <2>3. InXeroIsPosted'
    BY <1>1, <1>6, <1>8 DEF InXeroIsPosted, Exists
  <2> QED
    BY <2>2, <2>3
<1>15. InXeroMatches'
  <2> SUFFICES ASSUME NEW q \in Rows, InXero(q)'
               PROVE  /\ Exists(q)'
                      /\ \E c \in bills : /\ c.id = row'[q].xeroId /\ c.row = q
                                          /\ q \in dirty' \cup seized \/ c.version = row'[q].version
    BY <1>6 DEF InXeroMatches
  <2>1. CASE q = r
    <3>1. Exists(r)
      BY <1>1, <2>1 DEF InXeroMatches, InXero
    <3> QED
      BY <1>1, <1>4, <1>9, <2>1, <3>1
  <2>2. CASE q # r
    BY <1>1, <1>6, <1>8, <1>9, <2>2 DEF InXeroMatches
  <2> QED
    BY <2>1, <2>2
<1>16. OneBillPerId'
  BY <1>6 DEF OneBillPerId
<1>17. BillsAsMade'
  <2> SUFFICES ASSUME NEW c \in bills
               PROVE  /\ c.version <= row'[c.row].version
                      /\ row'[c.row].xeroId # c.id /\ c.row \notin seized => c.version = c.made
    BY <1>6 DEF BillsAsMade
  <2>1. c.row \in Rows /\ c.id \in Ids
    BY DEF TypeOK, Bill
  <2>2. row'[c.row].xeroId # c.id /\ c.row \notin seized => row[c.row].xeroId # c.id
    BY <1>7, <2>1, IdsAssumption DEF InXero
  <2> QED
    BY <1>1, <2>1, <2>2 DEF BillsAsMade
<1>18. NoBillLeftBehind'
  <2> SUFFICES ASSUME NEW c \in bills, c.row \notin seized
               PROVE  row'[c.row].xeroId = c.id \/ c.lost \/ \E t \in Sends : send'[t].bill = c.id
    BY <1>6 DEF NoBillLeftBehind
  <2>1. c.row \in Rows /\ c.id \in Ids
    BY DEF TypeOK, Bill
  <2>2. CASE c.id = id
    <3>1. c = b
      BY <1>4, <2>2 DEF OneBillPerId
    <3> QED
      BY <1>1, <1>4, <2>2, <3>1
  <2>3. CASE row[c.row].xeroId = c.id
    BY <1>7, <2>1, <2>3, IdsAssumption DEF InXero
  <2>4. CASE c.id # id /\ row[c.row].xeroId # c.id
    <3>1. c.lost \/ \E t \in Sends : send[t].bill = c.id
      BY <2>4 DEF NoBillLeftBehind
    <3> QED
      BY <1>1, <2>4, <3>1 DEF id
  <2> QED
    BY <2>2, <2>3, <2>4
<1>19. SetAsideHasOriginal'
  <2>1. \A q \in Rows : row'[q].status = "duplicate" => row[q].status = "duplicate"
    BY <1>1
  <2> QED
    BY <1>7, <2>1 DEF SetAsideHasOriginal
<1>20. CutOffWaits'
  BY <1>1, <1>6, <1>9 DEF CutOffWaits, TypeOK
<1> QED
  BY <1>10, <1>11, <1>12, <1>13, <1>14, <1>15, <1>16, <1>17, <1>18, <1>19, <1>20

\* Xero has the document of the send: as the bill i, the only one that changes.
BillsTaken(s, i) ==
  /\ \E c \in bills' : /\ c.id = i /\ c.row = send[s].row
                       /\ c.row \in seized \/ c.version = send[s].version
  /\ \A b \in bills : \E c \in bills' :
       /\ c.id = b.id /\ c.row = b.row
       /\ b.id # i => c.version = b.version
       /\ b.id = i => b.row = send[s].row /\ (b.row \in seized \/ c.version = send[s].version)
  /\ \A c \in bills' : c.id = i \/ \E b \in bills : SameBill(b, c) /\ (b.lost => c.lost)
  /\ OneBillPerId' /\ BillsAsMade'

SendTaken(s, i) ==
  /\ send[s].at = "sending"
  /\ send[s].target # NoId => i = send[s].target
  /\ send' = [send EXCEPT ![s].at = "answered", ![s].bill = i]

\* The row does not know it yet: a creation and a correction leave it alone.
LEMMA AtXeroKeeps ==
  ASSUME SendInv, TypeOK', NEW s \in Sends, NEW i \in Ids, SendTaken(s, i), BillsTaken(s, i),
         UNCHANGED <<row, cutOff, dirty, held, seized, waiting>>
  PROVE  SendInv'
<1> USE DEF SendInv
<1>0. Live(s)
  BY DEF SendTaken, Live
<1>1. /\ \A t \in Sends : t # s => send'[t] = send[t]
      /\ send'[s] = [send[s] EXCEPT !.at = "answered", !.bill = i]
  BY DEF SendTaken, TypeOK
<1>2. /\ send'[s].at = "answered" /\ send'[s].bill = i /\ send'[s].row = send[s].row
      /\ send'[s].version = send[s].version /\ send'[s].target = send[s].target
  BY <1>1 DEF TypeOK, Send
<1>3. \A t \in Sends : (Live(t)' <=> Live(t)) /\ send'[t].row = send[t].row
                       /\ send'[t].version = send[t].version /\ send'[t].target = send[t].target
  BY <1>1, <1>2 DEF SendTaken, Live
<1>4. SendsApart' /\ SendsMarked' /\ MarkedIsSent'
  <2>1. SendsApart'
    BY <1>3 DEF SendsApart
  <2>2. SendsMarked'
    BY <1>3 DEF SendsMarked, InXero
  <2>3. MarkedIsSent'
    BY <1>3 DEF MarkedIsSent
  <2> QED
    BY <2>1, <2>2, <2>3
<1>5. SendsAnswered'
  <2> SUFFICES ASSUME NEW t \in Sends
               PROVE  /\ Live(t)' /\ send'[t].target # NoId =>
                           \E c \in bills' : c.id = send'[t].target /\ c.row = send'[t].row
                      /\ send'[t].at # "answered" => send'[t].bill = NoId
                      /\ send'[t].at = "answered" =>
                           /\ send'[t].target # NoId => send'[t].bill = send'[t].target
                           /\ \E c \in bills' :
                                /\ c.id = send'[t].bill /\ c.row = send'[t].row
                                /\ c.row \in seized \/ c.version = send'[t].version
    BY DEF SendsAnswered
  <2>1. Live(t) /\ send[t].target # NoId =>
          \E c \in bills' : c.id = send[t].target /\ c.row = send[t].row
    <3> SUFFICES ASSUME Live(t), send[t].target # NoId
                 PROVE  \E c \in bills' : c.id = send[t].target /\ c.row = send[t].row
      OBVIOUS
    <3>1. PICK b \in bills : b.id = send[t].target /\ b.row = send[t].row
      BY DEF SendsAnswered
    <3>2. PICK c \in bills' : c.id = b.id /\ c.row = b.row
      BY DEF BillsTaken
    <3> QED
      BY <3>1, <3>2
  <2>2. CASE t = s
    <3>1. \E c \in bills' : /\ c.id = i /\ c.row = send[s].row
                            /\ c.row \in seized \/ c.version = send[s].version
      BY DEF BillsTaken
    <3>2. send[s].target # NoId => i = send[s].target
      BY DEF SendTaken
    <3> QED
      BY <1>0, <1>2, <2>1, <2>2, <3>1, <3>2
  <2>3. CASE t # s
    <3>1. send[t].at = "answered" => send[t].row # send[s].row \/ send[t].row \in seized
      BY <1>0, <2>3 DEF SendsApart, Live
    <3>2. ASSUME send[t].at = "answered"
          PROVE  \E c \in bills' : /\ c.id = send[t].bill /\ c.row = send[t].row
                                   /\ c.row \in seized \/ c.version = send[t].version
      <4>1. PICK b \in bills : /\ b.id = send[t].bill /\ b.row = send[t].row
                               /\ b.row \in seized \/ b.version = send[t].version
        BY <3>2 DEF SendsAnswered
      <4>2. PICK c \in bills' : /\ c.id = b.id /\ c.row = b.row
                                /\ b.row # send[s].row => c.version = b.version
        BY DEF BillsTaken
      <4> QED
        BY <3>1, <3>2, <4>1, <4>2
    <3>3. send'[t] = send[t]
      BY <1>1, <2>3
    <3>4. /\ send[t].at # "answered" => send[t].bill = NoId
          /\ send[t].at = "answered" => (send[t].target # NoId => send[t].bill = send[t].target)
      BY DEF SendsAnswered
    <3> QED
      BY <1>3, <2>1, <3>2, <3>3, <3>4
  <2> QED
    BY <2>2, <2>3
<1>6. InXeroMatches'
  <2> SUFFICES ASSUME NEW q \in Rows, InXero(q)
               PROVE  /\ Exists(q)
                      /\ \E c \in bills' : /\ c.id = row[q].xeroId /\ c.row = q
                                           /\ q \in dirty \cup seized \/ c.version = row[q].version
    BY DEF InXeroMatches, InXero, Exists
  <2>1. PICK b \in bills : /\ b.id = row[q].xeroId /\ b.row = q
                           /\ q \in dirty \cup seized \/ b.version = row[q].version
    BY DEF InXeroMatches
  <2>2. PICK c \in bills' :
          /\ c.id = b.id /\ c.row = b.row
          /\ b.id # i => c.version = b.version
          /\ b.id = i => b.row = send[s].row /\ (b.row \in seized \/ c.version = send[s].version)
    BY DEF BillsTaken
  <2>3. send[s].row \notin seized => row[send[s].row].version = send[s].version
    BY <1>0 DEF SendsMarked
  <2>4. Exists(q)
    BY DEF InXeroMatches
  <2> QED
    BY <2>1, <2>2, <2>3, <2>4
<1>7. NoBillLeftBehind'
  <2> SUFFICES ASSUME NEW c \in bills', c.id # i
               PROVE  \/ row[c.row].xeroId = c.id \/ c.lost \/ c.row \in seized
                      \/ \E t \in Sends : send'[t].bill = c.id
    BY <1>2 DEF NoBillLeftBehind
  <2>1. PICK b \in bills : SameBill(b, c) /\ (b.lost => c.lost)
    BY DEF BillsTaken
  <2>2. \/ row[b.row].xeroId = b.id \/ b.lost \/ b.row \in seized
        \/ \E t \in Sends : send[t].bill = b.id
    BY DEF NoBillLeftBehind
  <2>3. b.id # NoId /\ send[s].bill = NoId
    BY IdsAssumption DEF TypeOK, Bill, SendsAnswered, SendTaken
  <2> QED
    BY <1>1, <2>1, <2>2, <2>3 DEF SameBill
<1>8. PostedIsInXero' /\ InXeroIsPosted' /\ SetAsideHasOriginal' /\ CutOffWaits'
  BY DEF PostedIsInXero, InXeroIsPosted, SetAsideHasOriginal, CutOffWaits, InXero
<1> QED
  BY <1>4, <1>5, <1>6, <1>7, <1>8 DEF BillsTaken

LEMMA UpdatesKeeps ==
  ASSUME SendInv, TypeOK', NEW s \in Sends, XeroUpdates(s)
  PROVE  SendInv'
<1> USE DEF SendInv
<1> DEFINE i == send[s].target
           f(b) == IF b.id = i THEN [b EXCEPT !.version = send[s].version] ELSE b
<1>1. /\ bills' = {f(b) : b \in bills}
      /\ UNCHANGED <<row, cutOff, dirty, held, seized, waiting>>
      /\ send' = [send EXCEPT ![s].at = "answered", ![s].bill = i]
      /\ send[s].at = "sending"
  BY DEF XeroUpdates
<1>2. i \in Ids
  BY DEF XeroUpdates, TypeOK, Send
<1>3. /\ send[s].row \in Rows /\ send[s].version <= row[send[s].row].version
      /\ send[s].row \notin seized => row[send[s].row].xeroId = i
  BY <1>1 DEF SendsMarked, Live
<1>4. PICK d \in bills : d.id = i /\ d.row = send[s].row
  BY <1>1, <1>2, IdsAssumption DEF SendsAnswered, Live
<1>5. \A b \in bills : b.id = i => b = d
  BY <1>4 DEF OneBillPerId
<1>6. \A b \in bills :
        /\ f(b).id = b.id /\ f(b).row = b.row /\ f(b).made = b.made /\ f(b).lost = b.lost
        /\ f(b).version = IF b.id = i THEN send[s].version ELSE b.version
  BY DEF TypeOK, Bill
<1> HIDE DEF f, i
<1>7. (\A c \in bills' : \E b \in bills : c = f(b)) /\ \A b \in bills : f(b) \in bills'
  BY <1>1
<1>8. OneBillPerId'
  BY <1>6, <1>7 DEF OneBillPerId
<1>9. BillsAsMade'
  <2> SUFFICES ASSUME NEW b \in bills
               PROVE  /\ f(b).version <= row[b.row].version
                      /\ row[b.row].xeroId # b.id /\ b.row \notin seized => f(b).version = f(b).made
    BY <1>1, <1>6, <1>7 DEF BillsAsMade
  <2>1. CASE b.id = i
    BY <1>3, <1>4, <1>5, <1>6, <2>1
  <2>2. CASE b.id # i
    BY <1>6, <2>2 DEF BillsAsMade
  <2> QED
    BY <2>1, <2>2
<1>10. \A c \in bills' : c.id = i \/ \E b \in bills : SameBill(b, c) /\ (b.lost => c.lost)
  BY <1>6, <1>7 DEF SameBill
<1>11. \A b \in bills : \E c \in bills' :
         /\ c.id = b.id /\ c.row = b.row
         /\ b.id # i => c.version = b.version
         /\ b.id = i => b.row = send[s].row /\ (b.row \in seized \/ c.version = send[s].version)
  BY <1>4, <1>5, <1>6, <1>7
<1>12. \E c \in bills' : /\ c.id = i /\ c.row = send[s].row
                         /\ c.row \in seized \/ c.version = send[s].version
  BY <1>4, <1>6, <1>7
<1>13. BillsTaken(s, i)
  BY <1>8, <1>9, <1>10, <1>11, <1>12 DEF BillsTaken
<1>14. SendTaken(s, i)
  BY <1>1 DEF SendTaken, i
<1> QED
  BY <1>1, <1>2, <1>13, <1>14, AtXeroKeeps

\* A create is answered with a bill of its own content: a new one, or the one
\* the same request made before, which nobody has corrected as no row names it.
LEMMA CreatesKeeps ==
  ASSUME SendInv, TypeOK', NEW s \in Sends, XeroCreates(s)
  PROVE  SendInv'
<1> USE DEF SendInv
<1>1. /\ send[s].at = "sending" /\ send[s].target = NoId
      /\ UNCHANGED <<row, cutOff, dirty, held, seized, waiting>>
  BY DEF XeroCreates
<1>2. /\ send[s].row \in Rows /\ send[s].version <= row[send[s].row].version
      /\ send[s].row \notin seized => row[send[s].row].xeroId = NoId
  BY <1>1 DEF SendsMarked, Live
<1>3. CASE /\ UNCHANGED bills
           /\ \E b \in Repeated(s) : send' = [send EXCEPT ![s].at = "answered", ![s].bill = b.id]
  <2>1. PICK d \in bills : /\ d.row = send[s].row /\ d.made = send[s].version
                           /\ send' = [send EXCEPT ![s].at = "answered", ![s].bill = d.id]
    BY <1>3 DEF Repeated
  <2>2. d.id \in Ids
    BY DEF TypeOK, Bill
  <2>3. d.row \in seized \/ d.version = send[s].version
    BY <1>2, <2>1, <2>2, IdsAssumption DEF BillsAsMade
  <2>4. \A b \in bills : b.id = d.id => b = d
    BY DEF OneBillPerId
  <2>5. OneBillPerId' /\ BillsAsMade'
    BY <1>1, <1>3 DEF OneBillPerId, BillsAsMade
  <2>6. BillsTaken(s, d.id)
    BY <1>3, <2>1, <2>3, <2>4, <2>5 DEF BillsTaken, SameBill
  <2>7. SendTaken(s, d.id)
    BY <1>1, <2>1 DEF SendTaken
  <2> QED
    BY <1>1, <2>2, <2>6, <2>7, AtXeroKeeps
<1>4. CASE \E i \in Ids :
             /\ \A b \in bills : b.id # i
             /\ bills' = bills \cup {[id |-> i, row |-> send[s].row, made |-> send[s].version,
                              version |-> send[s].version, fresh |-> TRUE, lost |-> FALSE]}
             /\ send' = [send EXCEPT ![s].at = "answered", ![s].bill = i]
  <2> DEFINE new(i) == [id |-> i, row |-> send[s].row, made |-> send[s].version,
                        version |-> send[s].version, fresh |-> TRUE, lost |-> FALSE]
  <2>1. PICK i \in Ids : /\ \A b \in bills : b.id # i
                         /\ bills' = bills \cup {new(i)}
                         /\ send' = [send EXCEPT ![s].at = "answered", ![s].bill = i]
    BY <1>4
  <2>2. /\ new(i).id = i /\ new(i).row = send[s].row
        /\ new(i).made = send[s].version /\ new(i).version = send[s].version
    OBVIOUS
  <2> HIDE DEF new
  <2>3. OneBillPerId'
    BY <1>1, <2>1, <2>2 DEF OneBillPerId
  <2>4. BillsAsMade'
    BY <1>1, <1>2, <2>1, <2>2 DEF BillsAsMade
  <2>5. BillsTaken(s, i)
    BY <2>1, <2>2, <2>3, <2>4 DEF BillsTaken, SameBill
  <2>6. SendTaken(s, i)
    BY <1>1, <2>1 DEF SendTaken
  <2> QED
    BY <1>1, <2>5, <2>6, AtXeroKeeps
<1> QED
  BY <1>3, <1>4 DEF XeroCreates

\* A restart ends every send at once; each one's row is released, if it is
\* still marked.
LEMMA RestartKeeps ==
  ASSUME SendInv, TypeOK', Restart
  PROVE  SendInv'
<1> USE DEF SendInv
<1>1. /\ \A r \in Rows : row'[r] = Released(r)
      /\ \A s \in Sends : send'[s] = Ended
      /\ UNCHANGED <<dirty, held, seized>> /\ waiting'["auto"] = {}
  BY DEF Restart, Queues
<1>2. \A r \in Rows :
        /\ row'[r].xeroId = row[r].xeroId /\ row'[r].version = row[r].version
        /\ row[r].status # "submitting" => row'[r].status = row[r].status
        /\ row[r].status = "submitting" =>
             row'[r].status = IF InXero(r) THEN "posted" ELSE "review-needed"
  BY <1>1 DEF Released, TypeOK, Row
<1>3. \A s \in Sends : ~Live(s)' /\ send'[s].at = "idle" /\ send'[s].bill = NoId
  BY <1>1 DEF Live, Ended
<1>4. BillsStay /\ \A c \in bills' : \A s \in Sends : send[s].bill = c.id => c.lost
  BY UnheardStays DEF Restart
<1>5. \A r \in Rows : (InXero(r)' <=> InXero(r)) /\ (Exists(r)' <=> Exists(r))
  BY <1>2 DEF InXero, Exists
<1>6. SendsApart' /\ SendsMarked' /\ SendsAnswered' /\ MarkedIsSent'
  BY <1>2, <1>3 DEF SendsApart, SendsMarked, SendsAnswered, MarkedIsSent
<1>7. PostedIsInXero' /\ InXeroIsPosted'
  BY <1>1, <1>2, <1>5 DEF PostedIsInXero, InXeroIsPosted
<1>8. InXeroMatches'
  BY <1>1, <1>2, <1>4, <1>5 DEF InXeroMatches, BillsStay, SameBill
<1>9. OneBillPerId'
  BY <1>4 DEF BillsStay
<1>10. BillsAsMade'
  BY <1>1, <1>2, <1>4 DEF BillsAsMade, BillsStay, SameBill, TypeOK, Bill
<1>11. NoBillLeftBehind'
  <2> SUFFICES ASSUME NEW c \in bills'
               PROVE  row'[c.row].xeroId = c.id \/ c.lost \/ c.row \in seized
    BY <1>1 DEF NoBillLeftBehind
  <2>1. PICK b \in bills : SameBill(b, c) /\ (b.lost => c.lost)
    BY <1>4 DEF BillsStay
  <2>2. c.row \in Rows
    BY DEF TypeOK, Bill
  <2> QED
    BY <1>2, <1>4, <2>1, <2>2 DEF NoBillLeftBehind, SameBill
<1>12. SetAsideHasOriginal'
  <2>1. \A r \in Rows : row'[r].status = "duplicate" => row[r].status = "duplicate"
    BY <1>2
  <2> QED
    BY <1>5, <2>1 DEF SetAsideHasOriginal
<1>13. CutOffWaits'
  <2> SUFFICES ASSUME NEW r \in cutOff'
               PROVE  /\ row'[r].status # "absent"
                      /\ r \in seized \/ row'[r].status \in {"review-needed", "posted", "reported"}
    BY <1>1 DEF CutOffWaits
  <2>1. r \in Rows
    BY DEF TypeOK
  <2>2. CASE r \in cutOff
    BY <1>2, <2>1, <2>2 DEF CutOffWaits
  <2>3. CASE \E s \in Sends : Live(s) /\ r = send[s].row
    BY <1>2, <2>1, <2>3 DEF SendsMarked
  <2> QED
    BY <2>2, <2>3 DEF Restart
<1> QED
  BY <1>6, <1>7, <1>8, <1>9, <1>10, <1>11, <1>12, <1>13

-----------------------------------------------------------------------------
(* The invariant                                                           *)

LEMMA SendInvInit == Init => SendInv
<1> SUFFICES ASSUME Init PROVE SendInv
  OBVIOUS
<1>1. TypeOK
  BY TypeInit DEF TypeInv
<1>2. \A s \in Sends : ~Live(s) /\ send[s].at = "idle" /\ send[s].bill = NoId
  BY DEF Init, Live, Ended
<1>3. \A r \in Rows : row[r].status = "absent" /\ row[r].xeroId = NoId
  BY DEF Init
<1>4. SendsApart /\ SendsMarked /\ SendsAnswered
  BY <1>2 DEF SendsApart, SendsMarked, SendsAnswered
<1>5. /\ PostedIsInXero /\ InXeroIsPosted /\ InXeroMatches /\ SetAsideHasOriginal
      /\ MarkedIsSent
  BY <1>3 DEF PostedIsInXero, InXeroIsPosted, InXeroMatches, SetAsideHasOriginal, MarkedIsSent,
              InXero
<1>6. OneBillPerId /\ BillsAsMade /\ NoBillLeftBehind /\ CutOffWaits
  BY DEF Init, OneBillPerId, BillsAsMade, NoBillLeftBehind, CutOffWaits
<1> QED
  BY <1>1, <1>4, <1>5, <1>6 DEF SendInv

\* The chain's hold, a status set by hand and a report each write over a row's
\* status, and leave a row that was being sent among the seized.
LEMMA OverwriteKeeps ==
  ASSUME SendInv, TypeOK', NEW r \in Rows, Exists(r), NEW status,
         status \in {"pending", "reviewed", "reported", "review-needed"},
         row' = [row EXCEPT ![r].status = status], Overwrites(r),
         UNCHANGED <<send, bills, dirty>>, cutOff' \subseteq cutOff,
         waiting'["auto"] \subseteq waiting["auto"],
         r \in cutOff' => status = "reported",
         \A q \in held : q # r => q \in held',
         InXero(r) => status = "pending" /\ r \in held'
  PROVE  SendInv'
<1> USE DEF SendInv
<1>1. seized \subseteq seized' /\ (row[r].status = "submitting" => r \in seized')
  BY DEF Overwrites
<1>2. /\ row'[r].status = status
      /\ \A q \in Rows : /\ row'[q].xeroId = row[q].xeroId /\ row'[q].version = row[q].version
                         /\ q # r => row'[q] = row[q]
  BY DEF TypeOK, Row
<1>3. \A q \in Rows : InXero(q) =>
        /\ Exists(q)'
        /\ \/ row'[q].status = row[q].status /\ (row[q].status = "pending" /\ q \in held => q \in held')
           \/ row'[q].status = "pending" /\ q \in held'
  BY <1>2 DEF InXeroMatches, Exists
<1>4. \A q \in Rows : row'[q].status = "posted" => InXero(q)
  BY <1>2 DEF PostedIsInXero
<1>5. /\ \A q \in Rows : row[q].status = "submitting" => row'[q] = row[q] \/ q \in seized'
      /\ \A q \in Rows : row'[q].status = "submitting" => row[q].status = "submitting"
      /\ \A q \in Rows : row'[q].status = "absent" => row[q].status = "absent"
      /\ \A q \in Rows : row'[q].status = "duplicate" => row[q].status = "duplicate"
  BY <1>1, <1>2
<1>6. \A q \in cutOff' : q \in seized' \/ row'[q].status \in {row[q].status, "reported"}
  BY <1>2 DEF TypeOK
<1> QED
  BY <1>1, <1>2, <1>3, <1>4, <1>5, <1>6, RowMoves

LEMMA SendInvNext ==
  ASSUME SendInv, TypeOK', [Next]_vars
  PROVE  SendInv'
<1> USE DEF SendInv
<1>1. ASSUME NEW s \in Sends, NotSent(s) PROVE SendInv'
  <2>1. PICK status \in {"pending", "error"} :
          Close(s, IF send[s].target # NoId THEN "posted" ELSE status, KnownId(s))
    BY <1>1 DEF NotSent
  <2>2. Live(s) /\ UNCHANGED <<bills, cutOff, dirty, seized, waiting>>
    BY <1>1 DEF NotSent, Live
  <2>3. BillsStay
    BY <2>2 DEF BillsStay, SameBill, OneBillPerId
  <2>4. \A b \in bills' : send[s].bill # b.id
    BY <1>1, <2>2, IdsAssumption DEF NotSent, SendsAnswered, TypeOK, Bill
  <2> QED
    BY <2>1, <2>2, <2>3, <2>4, UnansweredKeeps
<1>2. ASSUME NEW s \in Sends, AnswerLost(s) PROVE SendInv'
  <2>1. BillsStay /\ \A b \in bills' : send[s].bill = b.id => b.lost
    BY <1>2, UnheardStays DEF AnswerLost
  <2>2. /\ Close(s, IF send[s].target # NoId THEN "posted" ELSE "error", KnownId(s))
        /\ Live(s) /\ UNCHANGED <<cutOff, dirty, seized, waiting>>
    BY <1>2 DEF AnswerLost, Live
  <2> QED
    BY <2>1, <2>2, UnansweredKeeps
<1>3. ASSUME NEW s \in Sends, NEW r \in Rows, AutoTurn(s, r) PROVE SendInv'
  <2>1. UNCHANGED <<bills, dirty, cutOff, seized>> /\ waiting'["auto"] \subseteq waiting["auto"]
    BY <1>3 DEF AutoTurn, TypeOK, Queues
  <2>2. CASE row[r].status = "pending"
    <3>1. SubmitInvoiceToXero(s, "auto", r, FALSE) /\ r \in waiting["auto"]
      BY <1>3, <2>2 DEF AutoTurn
    <3>2. r \notin cutOff
      BY <3>1 DEF CutOffWaits
    <3> QED
      BY <2>1, <2>2, <3>1, <3>2, SubmitKeeps DEF Kinds, Queues, Submittable
  <2>3. CASE row[r].status # "pending"
    <3>1. UNCHANGED <<row, send, held>>
      BY <1>3, <2>3 DEF AutoTurn
    <3> QED
      BY <2>1, <3>1, RowsStay
  <2> QED
    BY <2>2, <2>3
<1>4. ASSUME NEW s \in Sends, NEW r \in Rows, SubmitNow(s, r) PROVE SendInv'
  <2>1. PICK force \in BOOLEAN : SubmitInvoiceToXero(s, "manual", r, force)
    BY <1>4, MayForceAssumption DEF SubmitNow
  <2>2. /\ row[r].status \in Submittable /\ UNCHANGED <<bills, dirty, seized, waiting>>
        /\ cutOff' = cutOff \ {r}
    BY <1>4 DEF SubmitNow
  <2> QED
    BY <2>1, <2>2, SubmitKeeps DEF Kinds
<1>5. ASSUME NEW s \in Sends, NEW r \in Rows, BootTurn(s, r) PROVE SendInv'
  <2>1. UNCHANGED <<bills, dirty, cutOff, seized, waiting>>
    BY <1>5 DEF BootTurn
  <2>2. CASE active /\ row[r].status = "pending"
    <3>1. SubmitInvoiceToXero(s, "boot", r, FALSE)
      BY <1>5, <2>2 DEF BootTurn
    <3>2. r \in cutOff => r \in seized
      BY <2>2 DEF CutOffWaits
    <3> QED
      BY <2>1, <2>2, <3>1, <3>2, SubmitKeeps DEF Kinds, Submittable
  <2>3. CASE ~(active /\ row[r].status = "pending")
    <3>1. UNCHANGED <<row, send, held>>
      BY <1>5, <2>3 DEF BootTurn
    <3> QED
      BY <2>1, <3>1, RowsStay
  <2> QED
    BY <2>2, <2>3
<1>6. ASSUME NEW s \in Sends, NEW r \in Rows, NEW q \in Queues, QueueTurn(s, q, r) PROVE SendInv'
  <2>1. UNCHANGED <<bills, dirty, cutOff, seized>> /\ waiting'["auto"] \subseteq waiting["auto"]
    BY <1>6 DEF QueueTurn, TypeOK, Queues
  <2>2. CASE active /\ Sendable(q, r)
    <3>1. SubmitInvoiceToXero(s, q, r, FALSE)
      BY <1>6, <2>2 DEF QueueTurn
    <3>2. row[r].status \in {"pending", "error", "reviewed"}
      BY <2>2 DEF Sendable
    <3>3. r \in cutOff => r \in seized
      BY <3>2 DEF CutOffWaits
    <3> QED
      BY <2>1, <3>1, <3>2, <3>3, SubmitKeeps DEF Kinds, Submittable
  <2>3. CASE ~(active /\ Sendable(q, r))
    <3>1. UNCHANGED <<row, send, held>>
      BY <1>6, <2>3 DEF QueueTurn
    <3> QED
      BY <2>1, <3>1, RowsStay
  <2> QED
    BY <2>2, <2>3
<1>7. ASSUME NEW r \in Rows, StoreRow(r) PROVE SendInv'
  <2>1. PICK status \in {"review-needed", "pending"} : row' = [row EXCEPT ![r].status = status]
    BY <1>7 DEF StoreRow
  <2>2. row[r].status = "absent" /\ UNCHANGED <<send, bills, dirty, cutOff, held, seized>>
    BY <1>7 DEF StoreRow
  <2>3. r \notin cutOff /\ ~InXero(r)
    BY <2>2 DEF CutOffWaits, InXeroMatches, Exists
  <2>4. \A q \in Rows : /\ row'[q].xeroId = row[q].xeroId /\ row'[q].version = row[q].version
                        /\ q # r => row'[q] = row[q]
    BY <2>1 DEF TypeOK, Row
  <2>5. row'[r].status = status
    BY <2>1 DEF TypeOK, Row
  <2>6. waiting'["auto"] \cap cutOff' \subseteq waiting["auto"]
    BY <1>7, <2>2, <2>3 DEF StoreRow, TypeOK, Queues
  <2>7. \A q \in Rows : InXero(q) => Exists(q)' /\ row'[q].status = row[q].status
    BY <2>3, <2>4 DEF InXeroMatches, Exists
  <2>8. \A q \in Rows : row'[q].status = "posted" => InXero(q)
    BY <2>4, <2>5 DEF PostedIsInXero
  <2> QED
    BY <2>2, <2>3, <2>4, <2>5, <2>6, <2>7, <2>8, RowMoves DEF TypeOK
<1>8. ASSUME NEW r \in Rows, HoldTurn(r) PROVE SendInv'
  <2>1. UNCHANGED <<send, bills, dirty, cutOff>> /\ Overwrites(r) /\ r \notin cutOff
        /\ waiting'["auto"] \subseteq waiting["auto"]
    BY <1>8 DEF HoldTurn, CutOffWaits, TypeOK, Queues
  <2>2. CASE Exists(r)
    <3>1. row' = [row EXCEPT ![r].status = "pending"] /\ held' = held \cup {r}
      BY <1>8, <2>2 DEF HoldTurn
    <3> QED
      BY <2>1, <2>2, <3>1, OverwriteKeeps
  <2>3. CASE ~Exists(r)
    <3>1. UNCHANGED <<row, held, seized>>
      BY <1>8, <2>1, <2>3 DEF HoldTurn, Overwrites, Exists
    <3> QED
      BY <2>1, <3>1, RowsStay
  <2> QED
    BY <2>2, <2>3
<1>9. ASSUME NEW r \in Rows, Edit(r) PROVE SendInv'
  <2>1. /\ row' = [row EXCEPT ![r].version = @ + 1] /\ dirty' = dirty \cup {r}
        /\ UNCHANGED <<send, bills, cutOff, held, seized, waiting>>
        /\ row[r].status # "submitting"
    BY <1>9 DEF Edit, Editable, Submittable
  <2>2. \A q \in Rows : /\ row'[q].xeroId = row[q].xeroId /\ row'[q].status = row[q].status
                        /\ q # r => row'[q] = row[q]
                        /\ row'[q].version \in {row[q].version, row[q].version + 1}
    BY <2>1 DEF TypeOK, Row
  <2>3. \A q \in Rows : InXero(q) => Exists(q)'
    BY <2>2 DEF InXeroMatches, Exists
  <2>4. \A q \in Rows : row'[q].status = "posted" => InXero(q)
    BY <2>2 DEF PostedIsInXero
  <2> QED
    BY <2>1, <2>2, <2>3, <2>4, RowMoves DEF TypeOK
<1>10. ASSUME NEW r \in Rows, Report(r) PROVE SendInv'
  <2>1. /\ row' = [row EXCEPT ![r].status = "reported"] /\ held' = held \ {r} /\ Overwrites(r)
        /\ UNCHANGED <<send, bills, dirty, cutOff, waiting>> /\ Exists(r) /\ ~InXero(r)
    BY <1>10 DEF Report
  <2> QED
    BY <2>1, OverwriteKeeps
<1>11. ASSUME NEW r \in Rows, NEW q \in Queues, QueueSend(q, r) PROVE SendInv'
  <2>1. /\ UNCHANGED <<row, send, bills, dirty, held, seized>> /\ cutOff' \subseteq cutOff
        /\ waiting'["auto"] = waiting["auto"]
    BY <1>11, RoutesAssumption DEF QueueSend, TypeOK, Queues
  <2> QED
    BY <2>1, RowsStay
<1>12. ASSUME NEW r \in Rows, NEW status \in Statuses, SetStatus(r, status) PROVE SendInv'
  <2>1. /\ row' = [row EXCEPT ![r].status = status] /\ held' = held \ {r} /\ Overwrites(r)
        /\ UNCHANGED <<send, bills, dirty, waiting>> /\ Exists(r) /\ ~InXero(r)
        /\ cutOff' = cutOff \ {r}
        /\ status \in {"pending", "reviewed", "reported", "review-needed"}
    BY <1>12 DEF SetStatus
  <2> QED
    BY <2>1, OverwriteKeeps
<1>13. ASSUME NEW gone \in SUBSET Rows, Delete(gone) PROVE SendInv'
  <2>1. /\ UNCHANGED <<send, bills, seized, waiting>>
        /\ cutOff' = cutOff \ gone /\ dirty' = dirty \ gone /\ held' = held \ gone
        /\ \A q \in gone : Removable(q)
        /\ \A q \in Rows : row'[q] = IF q \in gone THEN [row[q] EXCEPT !.status = "gone"] ELSE row[q]
    BY <1>13 DEF Delete
  <2>2. \A q \in Rows : row'[q].xeroId = row[q].xeroId /\ row'[q].version = row[q].version
    BY <2>1 DEF TypeOK, Row
  <2>3. \A q \in gone : ~InXero(q) /\ row[q].status # "submitting" /\ row'[q].status = "gone"
    BY <2>1 DEF Removable, TypeOK, Row
  <2>4. \A q \in Rows : InXero(q) => q \notin gone /\ Exists(q)' /\ row'[q] = row[q]
    BY <2>1, <2>3 DEF InXeroMatches, Exists
  <2>5. \A q \in Rows : row'[q].status = "posted" => InXero(q)
    BY <2>1, <2>3 DEF PostedIsInXero
  <2> QED
    BY <2>1, <2>2, <2>3, <2>4, <2>5, RowMoves DEF TypeOK
<1>14. CASE BootScan \/ SetActive \/ UNCHANGED vars
  <2>1. UNCHANGED <<row, send, bills, dirty, cutOff, held, seized, waiting>>
    BY <1>14 DEF BootScan, SetActive, vars
  <2> QED
    BY <2>1, RowsStay
<1>15. CASE WindowPasses
  <2>1. BillsStay
    BY <1>15, WindowStays
  <2>2. UNCHANGED <<row, send, dirty, cutOff, held, seized, waiting>>
    BY <1>15 DEF WindowPasses
  <2>3. /\ SendsApart' /\ SendsMarked' /\ MarkedIsSent' /\ PostedIsInXero' /\ InXeroIsPosted'
        /\ SetAsideHasOriginal' /\ CutOffWaits'
    BY <2>2 DEF SendsApart, SendsMarked, MarkedIsSent, PostedIsInXero, InXeroIsPosted,
                SetAsideHasOriginal, CutOffWaits, InXero, Live
  <2>4. SendsAnswered'
    BY <2>1, <2>2 DEF SendsAnswered, BillsStay, SameBill, Live
  <2>5. InXeroMatches' /\ OneBillPerId'
    BY <2>1, <2>2 DEF InXeroMatches, BillsStay, SameBill, InXero, Exists
  <2>6. BillsAsMade'
    BY <2>1, <2>2 DEF BillsAsMade, BillsStay, SameBill
  <2>7. NoBillLeftBehind'
    BY <2>1, <2>2 DEF NoBillLeftBehind, BillsStay, SameBill
  <2> QED
    BY <2>3, <2>4, <2>5, <2>6, <2>7
<1>16. ASSUME NEW r \in Rows, Resolve(r) PROVE SendInv'
  <2>1. /\ UNCHANGED <<send, bills, dirty, seized, waiting>> /\ Exists(r)
        /\ cutOff' = cutOff \ {r} /\ held' = held \ {r}
        /\ row' = IF row[r].status = "submitting" THEN row
                  ELSE [row EXCEPT ![r].status = IF InXero(r) THEN "posted" ELSE "reviewed"]
    BY <1>16 DEF Resolve
  <2>2. \A q \in Rows : /\ row'[q].xeroId = row[q].xeroId /\ row'[q].version = row[q].version
                        /\ q # r => row'[q] = row[q]
    BY <2>1 DEF TypeOK, Row
  <2>3. row[r].status = "submitting" => row'[r] = row[r]
    BY <2>1
  <2>4. row[r].status # "submitting" =>
          row'[r].status = IF InXero(r) THEN "posted" ELSE "reviewed"
    BY <2>1 DEF TypeOK, Row
  <2>5. row'[r].status = "posted" => InXero(r)
    BY <2>3, <2>4 DEF PostedIsInXero
  <2>6. row'[r].status = "duplicate" => row[r].status = "duplicate"
    BY <2>3, <2>4
  <2>7. \A q \in Rows : InXero(q) =>
          /\ Exists(q)'
          /\ \/ row'[q].status = "posted"
             \/ row'[q].status = row[q].status /\ (row[q].status = "pending" /\ q \in held => q \in held')
    BY <2>1, <2>2, <2>3, <2>4 DEF InXeroMatches, Exists
  <2>8. \A q \in Rows : row'[q].status = "posted" => InXero(q)
    BY <2>2, <2>5 DEF PostedIsInXero
  <2>9. \A q \in Rows : row'[q].status = "absent" => row[q].status = "absent"
    BY <2>2, <2>3, <2>4
  <2>10. \A q \in Rows : /\ row[q].status = "submitting" => row'[q] = row[q]
                         /\ row'[q].status = "submitting" => row[q].status = "submitting"
    BY <2>2, <2>3, <2>4
  <2> QED
    BY <2>1, <2>2, <2>6, <2>7, <2>8, <2>9, <2>10, RowMoves DEF TypeOK
<1> QED
  BY <1>1, <1>2, <1>3, <1>4, <1>5, <1>6, <1>7, <1>8, <1>9, <1>10, <1>11, <1>12, <1>13, <1>14,
     <1>15, <1>16, UpdatesKeeps, CreatesKeeps, AnsweredKeeps, RestartKeeps DEF Next, Progress

\* The invariant holds throughout.
THEOREM SendInvariant == Spec => []SendInv
<1>1. TypeInv /\ SendInv /\ [Next]_vars => TypeInv' /\ SendInv'
  BY TypeNext, SendInvNext DEF TypeInv
<1> QED
  BY <1>1, TypeInit, SendInvInit, PTL DEF Spec

\* A row is in two sends at once (claimForSubmit) only if its status was written
\* over mid-send, however many rows, senders and restarts there are.
THEOREM NeverSentTwiceAtOnce == Spec => []SendsApart
<1>1. SendInv => SendsApart
  BY DEF SendInv
<1> QED
  BY <1>1, SendInvariant, PTL

\* A bill made in Xero is forgotten only because its answer never came or the
\* status of its row was written over mid-send.
THEOREM NothingLeftBehind == Spec => []NoBillLeftBehind
<1>1. SendInv => NoBillLeftBehind
  BY DEF SendInv
<1> QED
  BY <1>1, SendInvariant, PTL

\* A row in Xero stays visible to the duplicate checks: its status is posted or
\* submitting, or the pending that the chain's hold wrote, unless it was written
\* over mid-send.
THEOREM PostedOnceInXero == Spec => []InXeroIsPosted
<1>1. SendInv => InXeroIsPosted
  BY DEF SendInv
<1> QED
  BY <1>1, SendInvariant, PTL

\* What a posted row shows is what Xero holds, edits since aside, and rows whose
\* status was written over mid-send.
THEOREM PostedShowsXero == Spec => []PostedMatches
<1>1. SendInv => PostedMatches
  BY DEF SendInv, PostedIsInXero, InXeroMatches, PostedMatches
<1> QED
  BY <1>1, SendInvariant, PTL

\* A duplicate is never set aside for a bill that is not in Xero after all,
\* whatever is written over whichever status.
THEOREM DuplicatesHaveOriginals == Spec => []SetAsideHasOriginal
<1>1. SendInv => SetAsideHasOriginal
  BY DEF SendInv
<1> QED
  BY <1>1, SendInvariant, PTL

-----------------------------------------------------------------------------
(* What a step never does                                                  *)

\* Only the answer to a send writes an id, and then the id the row had, if any,
\* unless its status was written over.
LEMMA IdsStick ==
  SendInv /\ [Next]_vars =>
    \A r \in Rows : InXero(r) => row'[r].xeroId = row[r].xeroId \/ (r \in seized /\ InXero(r)')
<1> SUFFICES ASSUME SendInv, [Next]_vars, NEW r \in Rows, InXero(r)
             PROVE  row'[r].xeroId = row[r].xeroId \/ (r \in seized /\ InXero(r)')
  OBVIOUS
<1> USE DEF SendInv
<1>1. ASSUME NEW s \in Sends, NotSent(s) \/ AnswerLost(s) PROVE row'[r].xeroId = row[r].xeroId
  <2>1. PICK status : Close(s, status, KnownId(s))
    BY <1>1 DEF NotSent, AnswerLost
  <2>2. Live(s)
    BY <1>1 DEF NotSent, AnswerLost, Live
  <2> QED
    BY <2>1, <2>2, Closes DEF KnownId
<1>2. ASSUME NEW s \in Sends, Answered(s)
      PROVE  row'[r].xeroId = row[r].xeroId \/ (r \in seized /\ InXero(r)')
  <2>1. Close(s, "posted", send[s].bill) /\ Live(s)
    BY <1>2 DEF Answered, Live
  <2>2. r = send[s].row => r \in seized \/ row[r].xeroId = send[s].bill
    BY <1>2, <2>1 DEF SendsMarked, SendsAnswered, Answered, InXero
  <2>3. send[s].bill # NoId
    BY <1>2, IdsAssumption DEF SendsAnswered, Answered, TypeOK, Bill
  <2> QED
    BY <2>1, <2>2, <2>3, Closes DEF InXero
<1>3. ASSUME NEW s \in Sends, NEW k, NEW q \in Rows, NEW force, SubmitInvoiceToXero(s, k, q, force)
      PROVE  row'[r].xeroId = row[r].xeroId
  BY <1>3 DEF SubmitInvoiceToXero, Claim, TypeOK, Row
<1>4. ASSUME NEW q \in Rows, StoreRow(q) PROVE row'[r].xeroId = row[r].xeroId
  BY <1>4 DEF StoreRow, TypeOK, Row
<1>5. ASSUME NEW q \in Rows, HoldTurn(q) \/ Edit(q) \/ Report(q) \/ Resolve(q)
      PROVE  row'[r].xeroId = row[r].xeroId
  BY <1>5 DEF HoldTurn, Edit, Report, Resolve, TypeOK, Row
<1>6. ASSUME NEW q \in Rows, NEW status \in Statuses, SetStatus(q, status)
      PROVE  row'[r].xeroId = row[r].xeroId
  BY <1>6 DEF SetStatus, TypeOK, Row
<1>7. ASSUME NEW gone \in SUBSET Rows, Delete(gone) PROVE row'[r].xeroId = row[r].xeroId
  BY <1>7 DEF Delete, TypeOK, Row
<1>8. CASE Restart
  BY <1>8 DEF Restart, Released, TypeOK, Row
<1>9. ASSUME UNCHANGED row PROVE row'[r].xeroId = row[r].xeroId
  BY <1>9
<1> QED
  BY <1>1, <1>2, <1>3, <1>4, <1>5, <1>6, <1>7, <1>8, <1>9
  DEF Next, Progress, XeroUpdates, XeroCreates, AutoTurn, SubmitNow, BootTurn, QueueTurn,
      QueueSend, BootScan, SetActive, WindowPasses, vars

\* A row never loses its Xero id, and trades it for another only after its status
\* was written over mid-send.
THEOREM IdsStayForever == Spec => XeroIdSticks
<1>1. SendInv /\ [Next]_vars =>
        [\A r \in Rows : InXero(r) => row'[r].xeroId = row[r].xeroId \/ (r \in seized /\ InXero(r)')]_vars
  BY IdsStick
<1> QED
  BY <1>1, SendInvariant, PTL DEF Spec, XeroIdSticks

\* A row that waits for a person after a restart has a status none of the
\* senders takes.
LEMMA CutOffNotStarted ==
  SendInv /\ [Next]_vars => Started({"auto", "boot", "all", "some"}) \cap (cutOff \ seized) = {}
<1> SUFFICES ASSUME SendInv, [Next]_vars, NEW t \in Sends, ~Live(t), Live(t)',
                    send'[t].kind \in {"auto", "boot", "all", "some"},
                    send'[t].row \in cutOff \ seized
             PROVE  FALSE
  BY DEF Started
<1> USE DEF SendInv
<1>1. row[send'[t].row].status \in {"review-needed", "posted", "reported"}
  BY DEF CutOffWaits
<1>2. ASSUME NEW s \in Sends, NEW k, NEW r \in Rows, NEW force, SubmitInvoiceToXero(s, k, r, force)
      PROVE  send'[t].row = r /\ send'[t].kind = k
  BY <1>2 DEF SubmitInvoiceToXero, Claim, TypeOK, Live
<1>3. send' # send
  BY DEF Live
<1>4. ASSUME NEW s \in Sends, NEW r \in Rows, AutoTurn(s, r) PROVE FALSE
  BY <1>1, <1>2, <1>3, <1>4 DEF AutoTurn
<1>5. ASSUME NEW s \in Sends, NEW r \in Rows, SubmitNow(s, r) PROVE FALSE
  BY <1>2, <1>5 DEF SubmitNow
<1>6. ASSUME NEW s \in Sends, NEW r \in Rows, BootTurn(s, r) PROVE FALSE
  BY <1>1, <1>2, <1>3, <1>6 DEF BootTurn
<1>7. ASSUME NEW s \in Sends, NEW r \in Rows, NEW q \in Queues, QueueTurn(s, q, r) PROVE FALSE
  BY <1>1, <1>2, <1>3, <1>7 DEF QueueTurn, Sendable
<1>8. ASSUME NEW s \in Sends, Progress(s) PROVE FALSE
  BY <1>8 DEF Progress, NotSent, XeroUpdates, XeroCreates, Answered, AnswerLost, Close,
              Ended, Live, TypeOK
<1>9. CASE Restart
  BY <1>9 DEF Restart, Ended, Live
<1> QED
  BY <1>3, <1>4, <1>5, <1>6, <1>7, <1>8, <1>9
  DEF Next, StoreRow, HoldTurn, Edit, Report, Resolve, QueueSend, SetStatus, Delete, BootScan,
      SetActive, WindowPasses, vars

\* What a restart cut off, and still found marked, is sent again by a person or
\* not at all.
THEOREM CutOffIsNotRepeated == Spec => NoBlindRepeat
<1>1. SendInv /\ [Next]_vars =>
        [Started({"auto", "boot", "all", "some"}) \cap (cutOff \ seized) = {}]_vars
  BY CutOffNotStarted
<1> QED
  BY <1>1, SendInvariant, PTL DEF Spec, NoBlindRepeat

-----------------------------------------------------------------------------
(***************************************************************************)
(* Refinement: every step is one of the ledger's, or one it does not see.  *)
(* What a step means to the ledger is told from the row's id, its content  *)
(* and whether it is here; SendInv says that what a send learnt is still   *)
(* true of its row when it ends, unless the row is loose.                  *)
(***************************************************************************)

LEMMA LedgerInit == Init => Ledger!Init
<1> SUFFICES ASSUME Init PROVE Ledger!Init
  OBVIOUS
<1>1. place = [r \in Rows |-> "absent"]
  BY DEF Init, place, Exists
<1>2. shown = [r \in Rows |-> 0] /\ named = [r \in Rows |-> NoId]
  BY DEF Init, shown, named
<1>3. on = [s \in Sends |-> NoRow] /\ docs = {} /\ loose = {}
  BY DEF Init, on, docs, loose, Live, Ended
<1> QED
  BY <1>1, <1>2, <1>3 DEF Ledger!Init

\* What the ledger sees of a row that keeps its id, its content and its place.
LEMMA RowsUnseen ==
  ASSUME \A r \in Rows : /\ row'[r].xeroId = row[r].xeroId /\ row'[r].version = row[r].version
                         /\ row'[r].status = row[r].status \/ (Exists(r) /\ Exists(r)')
  PROVE  UNCHANGED <<place, shown, named>>
<1>1. \A r \in Rows : (Exists(r)' <=> Exists(r)) /\ (~Exists(r) => row'[r].status = row[r].status)
  BY DEF Exists
<1>2. place' = place
  BY <1>1 DEF place
<1> QED
  BY <1>2 DEF shown, named

LEMMA SendsUnseen == UNCHANGED send => on' = on
BY DEF on, Live

LEMMA BillsUnseen == ASSUME BillsStay PROVE docs' = docs
<1> DEFINE d(b) == [id |-> b.id, row |-> b.row, shows |-> b.version]
<1>1. \A b, c : SameBill(b, c) => d(b) = d(c)
  BY DEF SameBill
<1>2. docs = {d(b) : b \in bills} /\ docs' = {d(b) : b \in bills'}
  BY DEF docs
<1> HIDE DEF d
<1> QED
  BY <1>1, <1>2 DEF BillsStay

\* A row that is here and not marked as being sent is with no send, or loose.
LEMMA UnmarkedIsOpen ==
  ASSUME SendInv, NEW r \in Rows, Exists(r), row[r].status # "submitting"
  PROVE  Ledger!Open(r)
<1>1. r \in seized \/ \A s \in Sends : Live(s) => send[s].row # r
  BY DEF SendInv, SendsMarked
<1>2. r \in loose \/ Ledger!Free(r)
  BY <1>1, RowsAssumption DEF Ledger!Free, on, loose
<1>3. place[r] = "here"
  BY DEF place
<1> QED
  BY <1>2, <1>3 DEF Ledger!Open

\* A row marked as being sent whose status is written over is loose from then on.
LEMMA OverwriteIsLoosen ==
  ASSUME SendInv, NEW r \in Rows, row[r].status = "submitting", Overwrites(r),
         UNCHANGED <<place, shown, named, send, bills>>
  PROVE  Ledger!Loosen(r)
<1>1. PICK s \in Sends : Live(s) /\ send[s].row = r
  BY DEF SendInv, MarkedIsSent
<1>2. ~Ledger!Free(r)
  BY <1>1 DEF Ledger!Free, on
<1>3. loose' = loose \cup {r} /\ docs' = docs
  BY DEF Overwrites, loose, docs
<1> QED
  BY <1>2, <1>3, SendsUnseen DEF Ledger!Loosen

LEMMA ClaimIsSend ==
  ASSUME SendInv, NEW s \in Sends, NEW k \in Kinds, NEW r \in Rows, Exists(r),
         Claim(s, k, r), UNCHANGED <<bills, seized>>
  PROVE  Ledger!Send(s, r)
<1> USE DEF SendInv
<1>1. /\ \A q \in Rows : q # r => row'[q] = row[q]
      /\ row'[r] = [row[r] EXCEPT !.status = "submitting"]
  BY DEF Claim, TypeOK
<1>2. \A q \in Rows : /\ row'[q].xeroId = row[q].xeroId /\ row'[q].version = row[q].version
                      /\ row'[q].status = row[q].status \/ (Exists(q) /\ Exists(q)')
  BY <1>1 DEF TypeOK, Row, Exists
<1>3. UNCHANGED <<place, shown, named>>
  BY <1>2, RowsUnseen
<1>4. on[s] = NoRow
  BY DEF on, Claim, Live
<1>5. Ledger!Open(r)
  BY UnmarkedIsOpen DEF Claim
<1>6. on' = [on EXCEPT ![s] = r]
  <2>1. \A t \in Sends : t # s => send'[t] = send[t]
    BY DEF Claim, TypeOK
  <2>2. send'[s].at = "sending" /\ send'[s].row = r
    BY DEF Claim, TypeOK
  <2> QED
    BY <2>1, <2>2 DEF on, Live
<1>7. docs' = docs /\ loose' = loose
  BY DEF docs, loose
<1> QED
  BY <1>3, <1>4, <1>5, <1>6, <1>7 DEF Ledger!Send

\* A call of submitInvoiceToXero starts a send, or sets its row aside.
LEMMA SubmitIsSend ==
  ASSUME SendInv, NEW s \in Sends, NEW k \in Kinds, NEW r \in Rows, NEW force \in BOOLEAN,
         row[r].status \in Submittable, SubmitInvoiceToXero(s, k, r, force),
         UNCHANGED <<bills, seized>>
  PROVE  Ledger!Next \/ UNCHANGED Ledger!vars
<1>1. CASE Claim(s, k, r)
  BY <1>1, ClaimIsSend DEF Submittable, Exists, Ledger!Next
<1>2. CASE row' = [row EXCEPT ![r].status = "duplicate"] /\ UNCHANGED send
  <2>1. \A q \in Rows : /\ row'[q].xeroId = row[q].xeroId /\ row'[q].version = row[q].version
                        /\ row'[q].status = row[q].status \/ (Exists(q) /\ Exists(q)')
    BY <1>2 DEF SendInv, TypeOK, Row, Submittable, Exists
  <2>2. UNCHANGED <<place, shown, named>>
    BY <2>1, RowsUnseen
  <2> QED
    BY <1>2, <2>2, SendsUnseen DEF docs, loose, Ledger!vars
<1> QED
  BY <1>1, <1>2 DEF SubmitInvoiceToXero

\* A closing update ends one send, and gives its row the id if it is still here.
LEMMA CloseLeaves ==
  ASSUME SendInv, NEW s \in Sends, Live(s), NEW status \in {"pending", "error", "posted"}, NEW id,
         Close(s, status, id)
  PROVE  /\ on[s] = send[s].row /\ on[s] # NoRow /\ on' = [on EXCEPT ![s] = NoRow]
         /\ place' = place /\ shown' = shown
         /\ Exists(send[s].row) =>
              place[send[s].row] = "here" /\ named' = [named EXCEPT ![send[s].row] = id]
         /\ ~Exists(send[s].row) => named' = named
<1>1. /\ send[s].row \in Rows
      /\ \A q \in Rows : q # send[s].row => row'[q] = row[q]
      /\ Exists(send[s].row) => row'[send[s].row].status = status /\ row'[send[s].row].xeroId = id
      /\ ~Exists(send[s].row) => row'[send[s].row] = row[send[s].row]
      /\ \A q \in Rows : row'[q].version = row[q].version
      /\ \A t \in Sends : t # s => send'[t] = send[t] /\ (Live(t)' <=> Live(t))
      /\ ~Live(s)'
  BY Closes
<1>2. on[s] = send[s].row /\ on[s] # NoRow
  BY <1>1, RowsAssumption DEF on
<1>3. on' = [on EXCEPT ![s] = NoRow]
  BY <1>1 DEF on
<1>4. \A q \in Rows : (Exists(q)' <=> Exists(q)) /\ (~Exists(q) => row'[q].status = row[q].status)
  BY <1>1 DEF Exists
<1>5. place' = place /\ shown' = shown
  BY <1>1, <1>4 DEF place, shown
<1>6. Exists(send[s].row) =>
        place[send[s].row] = "here" /\ named' = [named EXCEPT ![send[s].row] = id]
  BY <1>1 DEF named, place
<1>7. ~Exists(send[s].row) => named' = named
  BY <1>1 DEF named
<1> QED
  BY <1>2, <1>3, <1>5, <1>6, <1>7

LEMMA UnansweredIsFail ==
  ASSUME SendInv, NEW s \in Sends, Live(s), NEW status \in {"pending", "error", "posted"},
         Close(s, status, KnownId(s)), BillsStay, UNCHANGED seized
  PROVE  Ledger!Fail(s)
<1>1. send[s].row \in Rows
  BY DEF SendInv, SendsMarked
<1>2. [named EXCEPT ![send[s].row] = KnownId(s)] = named
  BY <1>1 DEF named, KnownId
<1>3. named' = named
  BY <1>2, CloseLeaves
<1> QED
  BY <1>3, CloseLeaves, BillsUnseen DEF Ledger!Fail, loose

\* An answer lands, or comes to nothing if the row is gone.
LEMMA AnsweredIsLand ==
  ASSUME SendInv, NEW s \in Sends, Answered(s)
  PROVE  Ledger!Land(s) \/ Ledger!Fail(s)
<1> USE DEF SendInv
<1>1. Live(s) /\ Close(s, "posted", send[s].bill) /\ UNCHANGED <<bills, seized>>
  BY DEF Answered, Live
<1>2. /\ on[s] = send[s].row /\ on[s] # NoRow /\ on' = [on EXCEPT ![s] = NoRow]
      /\ place' = place /\ shown' = shown
      /\ Exists(send[s].row) => /\ place[send[s].row] = "here"
                                /\ named' = [named EXCEPT ![send[s].row] = send[s].bill]
      /\ ~Exists(send[s].row) => named' = named
  BY <1>1, CloseLeaves
<1>3. PICK b \in bills : /\ b.id = send[s].bill /\ b.row = send[s].row
                         /\ b.row \in seized \/ b.version = send[s].version
  BY DEF Answered, SendsAnswered
<1> DEFINE d == [id |-> b.id, row |-> b.row, shows |-> b.version]
<1>4. d \in docs /\ docs' = docs /\ loose' = loose
  BY <1>1 DEF docs, loose
<1>5. /\ send[s].row \in Rows
      /\ send[s].row \in loose \/ (/\ shown[send[s].row] = send[s].version
                                   /\ named[send[s].row] = send[s].target)
  BY <1>1 DEF SendsMarked, shown, named, loose
<1>6. send[s].target \in {NoId, send[s].bill}
  BY DEF Answered, SendsAnswered
<1>7. /\ d.row = on[s] /\ d.id = send[s].bill
      /\ (d.shows = shown[on[s]] /\ named[on[s]] \in {NoId, d.id}) \/ on[s] \in loose
  BY <1>2, <1>3, <1>5, <1>6 DEF loose
<1> HIDE DEF d
<1>8. CASE Exists(send[s].row)
  <2>1. place[on[s]] = "here" /\ named' = [named EXCEPT ![on[s]] = d.id]
    BY <1>2, <1>7, <1>8
  <2> QED
    BY <1>2, <1>4, <1>7, <2>1 DEF Ledger!Land
<1>9. CASE ~Exists(send[s].row)
  BY <1>2, <1>4, <1>9 DEF Ledger!Fail
<1> QED
  BY <1>8, <1>9

\* Neither the rows nor which sends are under way change when Xero acts, and what
\* it acts on is what the row shows, or showed if it is loose.
LEMMA AtXeroUnseen ==
  ASSUME SendInv, NEW s \in Sends, XeroUpdates(s) \/ XeroCreates(s)
  PROVE  /\ UNCHANGED <<place, shown, named, on, loose>>
         /\ send[s].row \in Rows /\ ~Ledger!Free(send[s].row)
         /\ send[s].row \in loose \/ named[send[s].row] = send[s].target
         /\ send[s].version \in Ledger!Shows(send[s].row)
<1> USE DEF SendInv
<1>1. Live(s) /\ UNCHANGED <<row, seized>>
  BY DEF XeroUpdates, XeroCreates, Live
<1>2. UNCHANGED <<place, shown, named, loose>>
  BY <1>1, RowsUnseen DEF loose
<1>3. \A t \in Sends : send'[t].row = send[t].row /\ (Live(t)' <=> Live(t))
  <2>1. PICK i : send' = [send EXCEPT ![s].at = "answered", ![s].bill = i]
    BY DEF XeroUpdates, XeroCreates
  <2>2. send \in [Sends -> Send]
    BY DEF TypeOK
  <2>3. send'[s].row = send[s].row /\ send'[s].at = "answered"
    BY <2>1, <2>2 DEF Send
  <2>4. \A t \in Sends : t # s => send'[t] = send[t]
    BY <2>1, <2>2
  <2> QED
    BY <1>1, <2>3, <2>4 DEF Live
<1>4. on' = on
  BY <1>3 DEF on
<1>5. send[s].row \in Rows /\ on[s] = send[s].row
  BY <1>1 DEF SendsMarked, on
<1>6. send[s].row \in loose \/ (/\ named[send[s].row] = send[s].target
                                /\ shown[send[s].row] = send[s].version)
  BY <1>1 DEF SendsMarked, named, shown, loose
<1>7. send[s].version \in Ledger!Shows(send[s].row)
  <2>1. /\ send[s].version \in Nat /\ send[s].version <= row[send[s].row].version
        /\ row[send[s].row].version \in Nat
    BY <1>1, <1>5, VersionAssumption DEF SendsMarked, TypeOK, Send, Row, Versions
  <2>2. shown[send[s].row] = row[send[s].row].version
    BY <1>5 DEF shown
  <2> QED
    BY <1>6, <2>1, <2>2 DEF Ledger!Shows
<1> QED
  BY <1>2, <1>4, <1>5, <1>6, <1>7 DEF Ledger!Free

LEMMA UpdatesIsCorrect ==
  ASSUME SendInv, NEW s \in Sends, XeroUpdates(s)
  PROVE  Ledger!Correct(send[s].row)
<1> DEFINE r    == send[s].row
           i    == send[s].target
           v    == send[s].version
           f(b) == IF b.id = i THEN [b EXCEPT !.version = v] ELSE b
           d(b) == [id |-> b.id, row |-> b.row, shows |-> b.version]
           g(e) == IF e.id = i THEN [e EXCEPT !.shows = v] ELSE e
<1>1. bills' = {f(b) : b \in bills}
  BY DEF XeroUpdates
<1>2. docs = {d(b) : b \in bills} /\ docs' = {d(c) : c \in bills'}
  BY DEF docs
<1>3. \A b \in bills : d(f(b)) = g(d(b))
  BY DEF SendInv, TypeOK, Bill
<1>4. /\ UNCHANGED <<place, shown, named, on, loose>>
      /\ ~Ledger!Free(r) /\ (r \in loose \/ named[r] = i) /\ v \in Ledger!Shows(r)
  BY AtXeroUnseen
<1>5. PICK b \in bills : b.id = i /\ b.row = r
  BY DEF XeroUpdates, SendInv, SendsAnswered, Live
<1>6. d(b).id = i /\ d(b).row = r
  BY <1>5
<1> HIDE DEF f, d
<1>7. docs' = {g(e) : e \in docs}
  BY <1>1, <1>2, <1>3
<1>8. PICK c \in docs : c.id = i /\ c.row = r
  BY <1>2, <1>6
<1> DEFINE h(e) == IF e.id = c.id THEN [e EXCEPT !.shows = v] ELSE e
<1>9. \A e \in docs : g(e) = h(e)
  BY <1>8
<1> HIDE DEF g
<1>10. docs' = {h(e) : e \in docs}
  BY <1>7, <1>9
<1> QED
  BY <1>4, <1>8, <1>10 DEF Ledger!Correct

LEMMA CreatesIsMake ==
  ASSUME SendInv, NEW s \in Sends, XeroCreates(s)
  PROVE  Ledger!Make(send[s].row) \/ UNCHANGED Ledger!vars
<1>1. /\ UNCHANGED <<place, shown, named, on, loose>> /\ send[s].row \in Rows
      /\ ~Ledger!Free(send[s].row)
      /\ send[s].row \in loose \/ named[send[s].row] = send[s].target
      /\ send[s].version \in Ledger!Shows(send[s].row)
  BY AtXeroUnseen
<1>2. CASE UNCHANGED bills
  BY <1>1, <1>2 DEF docs, Ledger!vars
<1>3. ASSUME NEW i \in Ids, \A b \in bills : b.id # i,
             bills' = bills \cup {[id |-> i, row |-> send[s].row, made |-> send[s].version,
                                   version |-> send[s].version, fresh |-> TRUE, lost |-> FALSE]}
      PROVE  Ledger!Make(send[s].row)
  <2> DEFINE d(b) == [id |-> b.id, row |-> b.row, shows |-> b.version]
             n    == [id |-> i, row |-> send[s].row, made |-> send[s].version,
                      version |-> send[s].version, fresh |-> TRUE, lost |-> FALSE]
  <2>1. d(n) = [id |-> i, row |-> send[s].row, shows |-> send[s].version]
    OBVIOUS
  <2>2. docs = {d(b) : b \in bills} /\ docs' = {d(b) : b \in bills'} /\ bills' = bills \cup {n}
    BY <1>3 DEF docs
  <2>3. \A b \in bills : d(b).id # i
    BY <1>3
  <2>4. send[s].target = NoId
    BY DEF XeroCreates
  <2> HIDE DEF d, n
  <2>5. docs' = docs \cup {d(n)} /\ \A e \in docs : e.id # i
    BY <2>2, <2>3
  <2> QED
    BY <1>1, <2>1, <2>4, <2>5 DEF Ledger!Make
<1> QED
  BY <1>2, <1>3 DEF XeroCreates

LEMMA DeleteIsDrop ==
  ASSUME SendInv, NEW gone \in SUBSET Rows, Delete(gone)
  PROVE  Ledger!Drop(gone)
<1> USE DEF SendInv
<1>1. /\ \A r \in gone : Exists(r) /\ ~InXero(r) /\ row[r].status # "submitting"
      /\ row' = [r \in Rows |-> IF r \in gone THEN [row[r] EXCEPT !.status = "gone"] ELSE row[r]]
      /\ UNCHANGED <<send, bills, seized>>
  BY DEF Delete, Removable
<1>2. \A r \in gone : Ledger!Open(r) /\ named[r] = NoId
  BY <1>1, UnmarkedIsOpen DEF named, InXero
<1>3. \A r \in Rows : /\ row'[r].xeroId = row[r].xeroId /\ row'[r].version = row[r].version
                      /\ row'[r].status = IF r \in gone THEN "gone" ELSE row[r].status
  BY <1>1 DEF TypeOK, Row
<1>4. place' = [r \in Rows |-> IF r \in gone THEN "gone" ELSE place[r]]
  BY <1>3 DEF place, Exists
<1>5. shown' = shown /\ named' = named
  BY <1>3 DEF shown, named
<1> QED
  BY <1>1, <1>2, <1>4, <1>5, SendsUnseen DEF Ledger!Drop, docs, loose

LEMMA RestartIsRestart == ASSUME SendInv, Restart PROVE Ledger!Restart
<1> USE DEF SendInv
<1>1. \A r \in Rows : /\ row'[r].xeroId = row[r].xeroId /\ row'[r].version = row[r].version
                      /\ row'[r].status = row[r].status \/ (Exists(r) /\ Exists(r)')
  BY DEF Restart, Released, TypeOK, Row, Exists
<1>2. on' = [s \in Sends |-> NoRow]
  BY DEF Restart, on, Live, Ended
<1>3. docs' = docs /\ loose' = loose
  BY UnheardStays, BillsUnseen DEF Restart, loose
<1> QED
  BY <1>1, <1>2, <1>3, RowsUnseen DEF Ledger!Restart

LEMMA LedgerStep ==
  ASSUME SendInv, [Next]_vars
  PROVE  [Ledger!Next]_(Ledger!vars)
<1> USE DEF SendInv
<1> DEFINE Told == Ledger!Next \/ UNCHANGED Ledger!vars
           Kept == \A r \in Rows :
                     /\ row'[r].xeroId = row[r].xeroId /\ row'[r].version = row[r].version
                     /\ row'[r].status = row[r].status \/ (Exists(r) /\ Exists(r)')
<1>1. ASSUME Kept, UNCHANGED <<send, bills, seized>> PROVE Told
  BY <1>1, RowsUnseen, SendsUnseen DEF docs, loose, Ledger!vars
<1>2. ASSUME NEW s \in Sends, NotSent(s) PROVE Told
  <2>1. PICK status \in {"pending", "error", "posted"} : Close(s, status, KnownId(s))
    BY <1>2 DEF NotSent
  <2>2. Live(s) /\ BillsStay /\ UNCHANGED seized
    BY <1>2 DEF NotSent, Live, BillsStay, SameBill, OneBillPerId
  <2> QED
    BY <2>1, <2>2, UnansweredIsFail DEF Ledger!Next
<1>3. ASSUME NEW s \in Sends, AnswerLost(s) PROVE Told
  <2>1. PICK status \in {"pending", "error", "posted"} : Close(s, status, KnownId(s))
    BY <1>3 DEF AnswerLost
  <2>2. Live(s) /\ BillsStay /\ UNCHANGED seized
    BY <1>3, UnheardStays DEF AnswerLost, Live
  <2> QED
    BY <2>1, <2>2, UnansweredIsFail DEF Ledger!Next
<1>4. ASSUME NEW s \in Sends, Answered(s) PROVE Told
  BY <1>4, AnsweredIsLand DEF Ledger!Next
<1>5. ASSUME NEW s \in Sends, XeroUpdates(s) \/ XeroCreates(s) PROVE Told
  BY <1>5, UpdatesIsCorrect, CreatesIsMake, AtXeroUnseen DEF Ledger!Next
<1>6. ASSUME NEW s \in Sends, NEW r \in Rows, AutoTurn(s, r) PROVE Told
  <2>1. CASE row[r].status = "pending"
    BY <1>6, <2>1, SubmitIsSend DEF AutoTurn, Kinds, Queues, Submittable
  <2> QED
    BY <1>1, <1>6, <2>1 DEF AutoTurn
<1>7. ASSUME NEW s \in Sends, NEW r \in Rows, SubmitNow(s, r) PROVE Told
  BY <1>7, SubmitIsSend, MayForceAssumption DEF SubmitNow, Kinds
<1>8. ASSUME NEW s \in Sends, NEW r \in Rows, BootTurn(s, r) PROVE Told
  <2>1. CASE active /\ row[r].status = "pending"
    BY <1>8, <2>1, SubmitIsSend DEF BootTurn, Kinds, Submittable
  <2> QED
    BY <1>1, <1>8, <2>1 DEF BootTurn
<1>9. ASSUME NEW s \in Sends, NEW r \in Rows, NEW q \in Queues, QueueTurn(s, q, r) PROVE Told
  <2>1. CASE active /\ Sendable(q, r)
    BY <1>9, <2>1, SubmitIsSend DEF QueueTurn, Sendable, Kinds, Submittable
  <2> QED
    BY <1>1, <1>9, <2>1 DEF QueueTurn
<1>10. ASSUME NEW r \in Rows, StoreRow(r) PROVE Told
  <2>1. PICK status \in {"review-needed", "pending"} : row' = [row EXCEPT ![r].status = status]
    BY <1>10 DEF StoreRow
  <2>2. row[r].status = "absent" /\ UNCHANGED <<send, bills, seized>>
    BY <1>10 DEF StoreRow
  <2>3. \A q \in Rows : /\ row'[q].xeroId = row[q].xeroId /\ row'[q].version = row[q].version
                        /\ row'[q].status = IF q = r THEN status ELSE row[q].status
    BY <2>1 DEF TypeOK, Row
  <2>4. place' = [place EXCEPT ![r] = "here"] /\ place[r] = "absent"
    BY <2>2, <2>3 DEF place, Exists
  <2>5. shown' = shown /\ named' = named
    BY <2>3 DEF shown, named
  <2>6. Ledger!Store(r)
    BY <2>2, <2>4, <2>5, SendsUnseen DEF Ledger!Store, docs, loose
  <2> QED
    BY <2>6 DEF Ledger!Next
<1>11. ASSUME NEW r \in Rows, Edit(r) PROVE Told
  <2>1. /\ row' = [row EXCEPT ![r].version = @ + 1] /\ UNCHANGED <<send, bills, seized>>
        /\ row[r].status # "submitting" /\ Exists(r)
    BY <1>11 DEF Edit, Editable, Submittable, Exists
  <2>2. \A q \in Rows : /\ row'[q].xeroId = row[q].xeroId /\ row'[q].status = row[q].status
                        /\ row'[q].version = IF q = r THEN row[q].version + 1 ELSE row[q].version
    BY <2>1 DEF TypeOK, Row
  <2>3. place' = place /\ named' = named
    BY <2>2 DEF place, named, Exists
  <2>4. shown' = [shown EXCEPT ![r] = @ + 1]
    BY <2>2 DEF shown
  <2>5. Ledger!Open(r)
    BY <2>1, UnmarkedIsOpen
  <2>6. Ledger!Change(r)
    BY <2>1, <2>3, <2>4, <2>5, SendsUnseen DEF Ledger!Change, docs, loose
  <2> QED
    BY <2>6 DEF Ledger!Next
<1>12. ASSUME NEW r \in Rows, Kept, Overwrites(r), UNCHANGED <<send, bills>> PROVE Told
  <2>1. CASE row[r].status = "submitting"
    BY <1>12, <2>1, RowsUnseen, OverwriteIsLoosen DEF Ledger!Next
  <2>2. CASE row[r].status # "submitting"
    BY <1>1, <1>12, <2>2 DEF Overwrites
  <2> QED
    BY <2>1, <2>2
<1>13. ASSUME NEW r \in Rows, HoldTurn(r) \/ Report(r) PROVE Told
  <2>1. UNCHANGED <<send, bills>> /\ Overwrites(r)
    BY <1>13 DEF HoldTurn, Report
  <2>2. Kept
    BY <1>13 DEF HoldTurn, Report, TypeOK, Row, Exists
  <2> QED
    BY <1>12, <2>1, <2>2
<1>14. ASSUME NEW r \in Rows, NEW status \in Statuses, SetStatus(r, status) PROVE Told
  <2>1. UNCHANGED <<send, bills>> /\ Overwrites(r)
    BY <1>14 DEF SetStatus
  <2>2. Kept
    BY <1>14 DEF SetStatus, TypeOK, Row, Exists
  <2> QED
    BY <1>12, <2>1, <2>2
<1>15. ASSUME NEW r \in Rows, Resolve(r) PROVE Told
  <2>1. UNCHANGED <<send, bills, seized>>
    BY <1>15 DEF Resolve
  <2>2. Kept
    BY <1>15 DEF Resolve, TypeOK, Row, Exists
  <2> QED
    BY <1>1, <2>1, <2>2
<1>16. ASSUME NEW gone \in SUBSET Rows, Delete(gone) PROVE Told
  BY <1>16, DeleteIsDrop DEF Ledger!Next
<1>17. CASE WindowPasses
  <2>1. docs' = docs /\ UNCHANGED <<row, send, loose>>
    BY <1>17, WindowStays, BillsUnseen DEF WindowPasses, loose
  <2> QED
    BY <2>1, RowsUnseen, SendsUnseen DEF Ledger!vars
<1>18. CASE Restart
  BY <1>18, RestartIsRestart DEF Ledger!Next
<1>19. ASSUME UNCHANGED <<row, send, bills, seized>> PROVE Told
  BY <1>1, <1>19
<1> QED
  BY <1>2, <1>3, <1>4, <1>5, <1>6, <1>7, <1>8, <1>9, <1>10, <1>11, <1>13, <1>14, <1>15,
     <1>16, <1>17, <1>18, <1>19 DEF Next, Progress, QueueSend, BootScan, SetActive, vars

\* The submission of invoices implements the ledger: whichever of the five
\* callers meet on a row, whatever is edited, deleted, refused, lost or cut off
\* by a restart, and whichever status is written over while a row is being sent.
THEOREM SubmissionKeepsLedger == Spec => KeepsLedger
<1>1. SendInv /\ [Next]_vars => [Ledger!Next]_(Ledger!vars)
  BY LedgerStep
<1> QED
  BY <1>1, LedgerInit, SendInvariant, PTL DEF Spec, KeepsLedger, Ledger!Spec

\* What the promise comes to, whoever keeps it: a row names a bill of its own,
\* that no other row names, and keeps it for good; what is under way is with one
\* send and stays here; no bill disappears, or changes but to what its row shows.
\* A loose row may be with more sends or be dropped, trade its bill for another
\* of its own, and have bills changed to what it once showed.
THEOREM LedgerPromises == KeepsLedger => []Ledger!Inv /\ Ledger!Forever
<1> DEFINE Stays ==
      /\ \A r \in Rows : named[r] # NoId =>
           named'[r] = named[r] \/ (r \in loose /\ named'[r] # NoId)
      /\ \A d \in docs : d \in docs' \/
           (~Ledger!Free(d.row) /\ \E n \in Ledger!Shows(d.row) : [d EXCEPT !.shows = n] \in docs')
<1> USE RowsAssumption, IdsAssumption
<1>1. Ledger!Init => Ledger!Inv
  BY DEF Ledger!Init, Ledger!Inv, Ledger!TypeOK, Ledger!Names, Ledger!Exclusive, Ledger!Places
<1>2. Ledger!Inv /\ [Ledger!Next]_(Ledger!vars) => Ledger!Inv' /\ [Stays]_(Ledger!vars)
  <2> SUFFICES ASSUME Ledger!Inv, [Ledger!Next]_(Ledger!vars) PROVE Ledger!Inv' /\ [Stays]_(Ledger!vars)
    OBVIOUS
  <2>1. /\ place \in [Rows -> Ledger!Places] /\ shown \in [Rows -> Nat]
        /\ named \in [Rows -> Ids \cup {NoId}]
        /\ on \in [Sends -> Rows \cup {NoRow}] /\ docs \subseteq Ledger!Doc
        /\ loose \subseteq Rows
    BY DEF Ledger!Inv, Ledger!TypeOK
  <2>2. /\ \A d, e \in docs : d.id = e.id => d = e
        /\ \A r \in Rows : named[r] # NoId =>
             place[r] = "here" /\ \E d \in docs : d.id = named[r] /\ d.row = r
    BY DEF Ledger!Inv, Ledger!Names
  <2>3. \A s \in Sends : on[s] \notin loose \cup {NoRow} =>
          place[on[s]] = "here" /\ \A t \in Sends : t # s => on[t] # on[s]
    BY DEF Ledger!Inv, Ledger!Exclusive
  <2>4. ASSUME place' \in [Rows -> Ledger!Places], shown' \in [Rows -> Nat],
               named' \in [Rows -> Ids \cup {NoId}],
               on' \in [Sends -> Rows \cup {NoRow}], docs' \subseteq Ledger!Doc,
               loose' \subseteq Rows,
               \A d, e \in docs' : d.id = e.id => d = e,
               \A r \in Rows : named'[r] # NoId =>
                 place'[r] = "here" /\ \E d \in docs' : d.id = named'[r] /\ d.row = r,
               \A s \in Sends : on'[s] \notin loose' \cup {NoRow} =>
                 place'[on'[s]] = "here" /\ \A t \in Sends : t # s => on'[t] # on'[s]
        PROVE  Ledger!Inv'
    BY <2>4 DEF Ledger!Inv, Ledger!TypeOK, Ledger!Names, Ledger!Exclusive
  <2>5. {"absent", "here", "gone"} \subseteq Ledger!Places
    BY DEF Ledger!Places
  <2>6. \A r \in Rows : Ledger!Shows(r) \subseteq Nat
    BY <2>1 DEF Ledger!Shows
  <2> HIDE DEF place, shown, named, on, docs, loose
  <2>7. ASSUME NEW r \in Rows, Ledger!Store(r) PROVE Ledger!Inv' /\ Stays
    <3>1. place' = [place EXCEPT ![r] = "here"] /\ UNCHANGED <<shown, named, on, docs, loose>>
      BY <2>7 DEF Ledger!Store
    <3> QED
      BY <2>1, <2>2, <2>3, <2>4, <2>5, <3>1
  <2>8. ASSUME NEW r \in Rows, Ledger!Change(r) PROVE Ledger!Inv' /\ Stays
    <3>1. shown' = [shown EXCEPT ![r] = @ + 1] /\ UNCHANGED <<place, named, on, docs, loose>>
      BY <2>8 DEF Ledger!Change
    <3>2. shown' \in [Rows -> Nat]
      BY <2>1, <3>1
    <3> QED
      BY <2>1, <2>2, <2>3, <2>4, <3>1, <3>2
  <2>9. ASSUME NEW s \in Sends, NEW r \in Rows, Ledger!Send(s, r) PROVE Ledger!Inv' /\ Stays
    <3>1. /\ on' = [on EXCEPT ![s] = r] /\ UNCHANGED <<place, shown, named, docs, loose>>
          /\ place[r] = "here" /\ (r \in loose \/ \A t \in Sends : on[t] # r)
      BY <2>9 DEF Ledger!Send, Ledger!Open, Ledger!Free
    <3> QED
      BY <2>1, <2>2, <2>3, <2>4, <3>1
  <2>10. ASSUME NEW r \in Rows, Ledger!Loosen(r) PROVE Ledger!Inv' /\ Stays
    <3>1. loose' = loose \cup {r} /\ UNCHANGED <<place, shown, named, on, docs>>
      BY <2>10 DEF Ledger!Loosen
    <3> QED
      BY <2>1, <2>2, <2>3, <2>4, <3>1
  <2>11. ASSUME NEW r \in Rows, Ledger!Make(r) PROVE Ledger!Inv' /\ Stays
    <3>1. PICK i \in Ids, n \in Ledger!Shows(r) :
            /\ \A d \in docs : d.id # i
            /\ docs' = docs \cup {[id |-> i, row |-> r, shows |-> n]}
      BY <2>11 DEF Ledger!Make
    <3>2. [id |-> i, row |-> r, shows |-> n] \in Ledger!Doc
      BY <2>6 DEF Ledger!Doc
    <3>3. UNCHANGED <<place, shown, named, on, loose>>
      BY <2>11 DEF Ledger!Make
    <3>4. \A d, e \in docs' : d.id = e.id => d = e
      BY <2>2, <3>1
    <3> QED
      BY <2>1, <2>2, <2>3, <2>4, <3>1, <3>2, <3>3, <3>4
  <2>12. ASSUME NEW r \in Rows, Ledger!Correct(r) PROVE Ledger!Inv' /\ Stays
    <3>1. PICK c \in docs, n \in Ledger!Shows(r) :
            /\ c.row = r
            /\ docs' = {IF d.id = c.id THEN [d EXCEPT !.shows = n] ELSE d : d \in docs}
      BY <2>12 DEF Ledger!Correct
    <3> DEFINE g(d) == IF d.id = c.id THEN [d EXCEPT !.shows = n] ELSE d
    <3>2. docs' = {g(d) : d \in docs} /\ UNCHANGED <<place, shown, named, on, loose>>
      BY <2>12, <3>1 DEF Ledger!Correct
    <3>3. \A d \in docs : g(d) \in Ledger!Doc /\ g(d).id = d.id /\ g(d).row = d.row
      BY <2>1, <2>6 DEF Ledger!Doc
    <3>4. \A d \in docs : d.id = c.id => d.row = r /\ g(d) = [d EXCEPT !.shows = n]
      BY <2>2, <3>1
    <3>5. \A d \in docs : d.id # c.id => g(d) = d
      OBVIOUS
    <3> HIDE DEF g
    <3>6. \A d \in docs' : \E e \in docs : d = g(e)
      BY <3>2
    <3>7. \A e \in docs : g(e) \in docs'
      BY <3>2
    <3>8. docs' \subseteq Ledger!Doc /\ \A d, e \in docs' : d.id = e.id => d = e
      BY <2>2, <3>3, <3>6
    <3>9. \A q \in Rows : named'[q] # NoId =>
            place'[q] = "here" /\ \E d \in docs' : d.id = named'[q] /\ d.row = q
      BY <2>2, <3>2, <3>3, <3>7
    <3>10. Stays
      <4>1. \A d \in docs : d.id = c.id =>
              ~Ledger!Free(d.row) /\ \E m \in Ledger!Shows(d.row) : [d EXCEPT !.shows = m] \in docs'
        BY <2>12, <3>4, <3>7 DEF Ledger!Correct
      <4> QED
        BY <3>2, <3>5, <3>7, <4>1
    <3> QED
      BY <2>1, <2>3, <2>4, <3>2, <3>8, <3>9, <3>10
  <2>13. ASSUME NEW s \in Sends, Ledger!Land(s) PROVE Ledger!Inv' /\ Stays
    <3>1. PICK d \in docs : /\ d.row = on[s] /\ (named[on[s]] \in {NoId, d.id} \/ on[s] \in loose)
                            /\ named' = [named EXCEPT ![on[s]] = d.id]
      BY <2>13 DEF Ledger!Land
    <3>2. /\ on' = [on EXCEPT ![s] = NoRow] /\ UNCHANGED <<place, shown, docs, loose>>
          /\ on[s] \in Rows /\ place[on[s]] = "here"
      BY <2>1, <2>13 DEF Ledger!Land
    <3>3. d.id \in Ids
      BY <2>1 DEF Ledger!Doc
    <3>4. named' \in [Rows -> Ids \cup {NoId}] /\ on' \in [Sends -> Rows \cup {NoRow}]
      BY <2>1, <3>1, <3>2, <3>3
    <3>5. \A q \in Rows : named'[q] # NoId =>
            place'[q] = "here" /\ \E e \in docs' : e.id = named'[q] /\ e.row = q
      BY <2>1, <2>2, <3>1, <3>2
    <3>6. \A t \in Sends : on'[t] \notin loose' \cup {NoRow} =>
            place'[on'[t]] = "here" /\ \A u \in Sends : u # t => on'[u] # on'[t]
      BY <2>1, <2>3, <3>2
    <3>7. Stays
      BY <2>1, <3>1, <3>2, <3>3
    <3> QED
      BY <2>1, <2>2, <2>4, <3>2, <3>4, <3>5, <3>6, <3>7
  <2>14. ASSUME NEW s \in Sends, Ledger!Fail(s) PROVE Ledger!Inv' /\ Stays
    <3>1. on' = [on EXCEPT ![s] = NoRow] /\ UNCHANGED <<place, shown, named, docs, loose>>
      BY <2>14 DEF Ledger!Fail
    <3> QED
      BY <2>1, <2>2, <2>3, <2>4, <3>1
  <2>15. ASSUME Ledger!Restart PROVE Ledger!Inv' /\ Stays
    <3>1. on' = [s \in Sends |-> NoRow] /\ UNCHANGED <<place, shown, named, docs, loose>>
      BY <2>15 DEF Ledger!Restart
    <3> QED
      BY <2>1, <2>2, <2>3, <2>4, <3>1
  <2>16. ASSUME NEW gone \in SUBSET Rows, Ledger!Drop(gone) PROVE Ledger!Inv' /\ Stays
    <3>1. /\ \A r \in gone : named[r] = NoId /\ (r \in loose \/ \A s \in Sends : on[s] # r)
          /\ place' = [r \in Rows |-> IF r \in gone THEN "gone" ELSE place[r]]
          /\ UNCHANGED <<shown, named, on, docs, loose>>
      BY <2>16 DEF Ledger!Drop, Ledger!Open, Ledger!Free
    <3>2. place' \in [Rows -> Ledger!Places]
      BY <2>1, <2>5, <3>1
    <3> QED
      BY <2>1, <2>2, <2>3, <2>4, <3>1, <3>2
  <2>17. CASE UNCHANGED Ledger!vars
    BY <2>1, <2>2, <2>3, <2>4, <2>17 DEF Ledger!vars
  <2> HIDE DEF Stays
  <2> QED
    BY <2>7, <2>8, <2>9, <2>10, <2>11, <2>12, <2>13, <2>14, <2>15, <2>16, <2>17 DEF Ledger!Next
<1> QED
  BY <1>1, <1>2, PTL DEF KeepsLedger, Ledger!Spec, Ledger!Forever

=============================================================================
