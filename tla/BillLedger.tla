----------------------------- MODULE BillLedger -----------------------------
(***************************************************************************)
(* What the program promises of one account's bills, whoever sends them    *)
(* and whatever fails on the way. A row is with at most one send, and is   *)
(* neither changed nor dropped meanwhile. What a send makes or corrects at *)
(* the other side is its own row's, and shows what the row shows. A row    *)
(* comes to name a bill only by a send that ends well, keeps the name for  *)
(* good, and is never dropped once it has one.                             *)
(*                                                                         *)
(* A row pulled from under its send is loose from then on: it may be       *)
(* changed, dropped and sent again at any time, what its sends make may    *)
(* show what it showed before, and it may come to name another bill. Still *)
(* it names a bill of its own, never none again, and no other row's.       *)
(*                                                                         *)
(* InvoiceSubmission is held to it.                                        *)
(***************************************************************************)
EXTENDS Naturals

CONSTANTS Rows,
          NoRow,   \* not under way
          Sends, Ids,
          NoId

VARIABLES place,  \* [Rows -> Places]
          shown,  \* [Rows -> Nat]: what a row shows
          named,  \* [Rows -> Ids \cup {NoId}]: the bill a row says it became
          on,     \* [Sends -> Rows \cup {NoRow}]
          docs,   \* the bills at the other side, and what each shows
          loose   \* rows pulled from under a send

vars == <<place, shown, named, on, docs, loose>>

Places == {"absent", "here", "gone"}
Doc    == [id : Ids, row : Rows, shows : Nat]

Init == /\ place = [r \in Rows |-> "absent"]
        /\ shown = [r \in Rows |-> 0]
        /\ named = [r \in Rows |-> NoId]
        /\ on = [s \in Sends |-> NoRow]
        /\ docs = {} /\ loose = {}

Free(r) == \A s \in Sends : on[s] # r
\* May be changed, dropped or sent.
Open(r) == place[r] = "here" /\ (Free(r) \/ r \in loose)
\* What a send of the row may leave at the other side.
Shows(r) == IF r \in loose THEN 0..shown[r] ELSE {shown[r]}

Store(r) == /\ place[r] = "absent"
            /\ place' = [place EXCEPT ![r] = "here"]
            /\ UNCHANGED <<shown, named, on, docs, loose>>

Change(r) == /\ Open(r)
             /\ shown' = [shown EXCEPT ![r] = @ + 1]
             /\ UNCHANGED <<place, named, on, docs, loose>>

Send(s, r) == /\ on[s] = NoRow /\ Open(r)
              /\ on' = [on EXCEPT ![s] = r]
              /\ UNCHANGED <<place, shown, named, docs, loose>>

Loosen(r) == /\ ~Free(r)
             /\ loose' = loose \cup {r}
             /\ UNCHANGED <<place, shown, named, on, docs>>

Make(r) == /\ ~Free(r) /\ (named[r] = NoId \/ r \in loose)
           /\ \E i \in Ids, n \in Shows(r) :
                /\ \A d \in docs : d.id # i
                /\ docs' = docs \cup {[id |-> i, row |-> r, shows |-> n]}
           /\ UNCHANGED <<place, shown, named, on, loose>>

Correct(r) ==
  /\ ~Free(r)
  /\ \E c \in docs, n \in Shows(r) :
       /\ c.row = r /\ (c.id = named[r] \/ r \in loose)
       /\ docs' = {IF d.id = c.id THEN [d EXCEPT !.shows = n] ELSE d : d \in docs}
  /\ UNCHANGED <<place, shown, named, on, loose>>

\* A send ends well: its row names a bill of it that shows what it shows.
Land(s) ==
  /\ on[s] # NoRow /\ place[on[s]] = "here"
  /\ \E d \in docs :
       /\ d.row = on[s]
       /\ (d.shows = shown[on[s]] /\ named[on[s]] \in {NoId, d.id}) \/ on[s] \in loose
       /\ named' = [named EXCEPT ![on[s]] = d.id]
  /\ on' = [on EXCEPT ![s] = NoRow]
  /\ UNCHANGED <<place, shown, docs, loose>>

Fail(s) == /\ on[s] # NoRow
           /\ on' = [on EXCEPT ![s] = NoRow]
           /\ UNCHANGED <<place, shown, named, docs, loose>>

Drop(gone) ==
  /\ \A r \in gone : Open(r) /\ named[r] = NoId
  /\ place' = [r \in Rows |-> IF r \in gone THEN "gone" ELSE place[r]]
  /\ UNCHANGED <<shown, named, on, docs, loose>>

Restart == /\ on' = [s \in Sends |-> NoRow]
           /\ UNCHANGED <<place, shown, named, docs, loose>>

Next ==
  \/ \E s \in Sends : Land(s) \/ Fail(s) \/ \E r \in Rows : Send(s, r)
  \/ \E r \in Rows : Store(r) \/ Change(r) \/ Loosen(r) \/ Make(r) \/ Correct(r)
  \/ Restart \/ \E gone \in SUBSET Rows : Drop(gone)

Spec == Init /\ [][Next]_vars

-----------------------------------------------------------------------------
(* What follows from the promise                                           *)

TypeOK == /\ place \in [Rows -> Places] /\ shown \in [Rows -> Nat]
          /\ named \in [Rows -> Ids \cup {NoId}]
          /\ on \in [Sends -> Rows \cup {NoRow}] /\ docs \subseteq Doc
          /\ loose \subseteq Rows

\* A row names a bill of its own, of which there is one, and two rows never
\* name the same; what was dropped, or never came, names none.
Names == /\ \A d, e \in docs : d.id = e.id => d = e
         /\ \A r \in Rows : named[r] # NoId =>
              place[r] = "here" /\ \E d \in docs : d.id = named[r] /\ d.row = r

\* A row under way is here, and with one send, unless it is loose.
Exclusive == \A s \in Sends : on[s] \notin loose \cup {NoRow} =>
               place[on[s]] = "here" /\ \A t \in Sends : t # s => on[t] # on[s]

Inv == TypeOK /\ Names /\ Exclusive

\* A name is for good, or for another if the row is loose, and a bill is for
\* good. It changes only while its row is under way, to what the row shows, or
\* showed if it is loose.
Forever ==
  [][/\ \A r \in Rows : named[r] # NoId =>
          named'[r] = named[r] \/ (r \in loose /\ named'[r] # NoId)
     /\ \A d \in docs :
          d \in docs' \/ (~Free(d.row) /\ \E n \in Shows(d.row) : [d EXCEPT !.shows = n] \in docs')]_vars
=============================================================================
