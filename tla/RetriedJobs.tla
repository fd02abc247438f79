----------------------------- MODULE RetriedJobs -----------------------------
(***************************************************************************)
(* What a queue of job files promises, whoever works it off and whatever   *)
(* breaks. A job is handed to a worker only while it waits, and only a     *)
(* bounded number of times, each counted before the work begins. Only a    *)
(* worker to whom it was handed finishes it. It is given up by one, or     *)
(* with its tries spent. What has ended stays so, and only that is swept.  *)
(*                                                                         *)
(* queue/email-queue.js and claims/claim-queue.js with their workers are   *)
(* held to it. They differ in two things, which are constants: whether a   *)
(* job may be handed to a second worker while the first still works, and   *)
(* whether a worker may put its job back to work after its end.            *)
(***************************************************************************)
EXTENDS Naturals

CONSTANTS Jobs, Workers,
          None,      \* no job
          MaxTries,
          Shared,    \* BOOLEAN: a job may be with several workers
          Reopened   \* BOOLEAN: a worker writes over the end of its job

VARIABLES phase,  \* [Jobs -> Phases]
          tries,  \* [Jobs -> Nat]
          on      \* [Workers -> Jobs \cup {None}]: the job a worker has

vars == <<phase, tries, on>>

Ends   == {"finished", "abandoned", "dropped"}
Phases == Ends \cup {"absent", "waiting", "swept"}

Init == /\ phase = [j \in Jobs |-> "absent"]
        /\ tries = [j \in Jobs |-> 0]
        /\ on = [w \in Workers |-> None]

Free(j) == \A w \in Workers : on[w] # j
Spent   == {j \in Jobs : phase[j] = "waiting" /\ tries[j] >= MaxTries}

\* The phases, with p for j, and the jobs of S given up on the way.
With(j, p, S) == [k \in Jobs |-> IF k = j THEN p ELSE IF k \in S THEN "abandoned" ELSE phase[k]]
All(S, p)     == [k \in Jobs |-> IF k \in S THEN p ELSE phase[k]]
Counted(j)    == [tries EXCEPT ![j] = @ + 1]

Submit(j) == /\ phase[j] = "absent"
             /\ phase' = [phase EXCEPT ![j] = "waiting"]
             /\ UNCHANGED <<tries, on>>

GiveUp == /\ \E S \in SUBSET Spent : phase' = All(S, "abandoned")
          /\ UNCHANGED <<tries, on>>

\* A worker who has nothing takes a job up: it is handed over; or there is
\* nothing left to do for it; or it cannot be begun.
TakeUp(w, j) ==
  /\ phase[j] = "waiting" /\ tries[j] < MaxTries
  /\ on[w] = None /\ (Shared \/ Free(j))
  /\ \E S \in SUBSET Spent :
       \/ /\ phase' = With(j, "waiting", S) /\ tries' = Counted(j)
          /\ on' = [on EXCEPT ![w] = j]
       \/ /\ phase' = With(j, "finished", S) /\ tries' = Counted(j)
          /\ UNCHANGED on
       \/ /\ phase' \in {With(j, "waiting", S), With(j, "abandoned", S)}
          /\ tries' \in {tries, Counted(j)}
          /\ UNCHANGED on

MayEnd(j) == phase[j] = "waiting" \/ (Reopened /\ phase[j] \in Ends)

\* A worker is done with its job, which ends or is left as it is.
Leave(w) ==
  /\ on[w] # None
  /\ on' = [on EXCEPT ![w] = None]
  /\ \/ UNCHANGED phase
     \/ MayEnd(on[w]) /\ \E p \in Ends : phase' = [phase EXCEPT ![on[w]] = p]
  /\ UNCHANGED tries

Reopen(w) ==
  /\ Reopened
  /\ on[w] # None /\ phase[on[w]] \in Ends
  /\ phase' = [phase EXCEPT ![on[w]] = "waiting"]
  /\ UNCHANGED <<tries, on>>

\* People drop jobs that wait or were given up, or that a worker could reopen.
Drop ==
  /\ \E S \in SUBSET {j \in Jobs : \/ phase[j] \in {"waiting", "abandoned"}
                                   \/ MayEnd(j) /\ ~Free(j)} :
       phase' = All(S, "dropped")
  /\ UNCHANGED <<tries, on>>

Swept == \E S \in SUBSET {j \in Jobs : phase[j] \in Ends} : phase' = All(S, "swept")
Sweep == Swept /\ UNCHANGED <<tries, on>>

\* The process ends; what has ended long ago goes when it starts again.
Restart == /\ Swept
           /\ on' = [w \in Workers |-> None]
           /\ UNCHANGED tries

Next == \/ GiveUp \/ \E j \in Jobs : Submit(j)
        \/ \E w \in Workers : Leave(w) \/ Reopen(w) \/ \E j \in Jobs : TakeUp(w, j)
        \/ Drop \/ Sweep \/ Restart

Spec == Init /\ [][Next]_vars

TypeOK == /\ phase \in [Jobs -> Phases] /\ tries \in [Jobs -> Nat]
          /\ on \in [Workers -> Jobs \cup {None}]

\* No job is tried more often than it may be, and none is with two workers
\* unless jobs are shared.
Bounded   == \A j \in Jobs : tries[j] <= MaxTries
Exclusive == Shared \/ \A v, w \in Workers : v # w /\ on[v] # None => on[v] # on[w]
=============================================================================
