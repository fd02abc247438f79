---------------------------- MODULE SingleFlight ----------------------------
(***************************************************************************)
(* What the modules that share work under way promise: at most one         *)
(* execution runs, a call made while it runs shares its outcome, and no    *)
(* call is left waiting for an execution that is over. The code has this   *)
(* idiom (a map from a key to the promise in flight, deleted when it       *)
(* settles) in xero/oauth.js, utils/token-cache.js, xero/report-cache.js   *)
(* and the jobs; this module is the specification they are held to.        *)
(*                                                                         *)
(* Executions are numbered in the order they start; 0 stands for none.     *)
(***************************************************************************)
EXTENDS Naturals

CONSTANT Callers

VARIABLES run,     \* the execution under way
          started, \* how many were started
          awaits   \* [Callers -> Nat]: the execution a call waits for

vars == <<run, started, awaits>>

Init == /\ run = 0
        /\ started = 0
        /\ awaits = [c \in Callers |-> 0]

\* A call finds nothing under way and starts an execution.
Start(c) == /\ awaits[c] = 0 /\ run = 0
            /\ run' = started + 1
            /\ started' = started + 1
            /\ awaits' = [awaits EXCEPT ![c] = started + 1]

\* A call shares the execution under way.
Join(c) == /\ awaits[c] = 0 /\ run # 0
           /\ awaits' = [awaits EXCEPT ![c] = run]
           /\ UNCHANGED <<run, started>>

\* The execution ends, well or not, or the process does.
Settle == /\ run # 0
          /\ run' = 0
          /\ awaits' = [c \in Callers |-> 0]
          /\ UNCHANGED started

Next == Settle \/ \E c \in Callers : Start(c) \/ Join(c)

Spec == Init /\ [][Next]_vars

TypeOK == /\ run \in Nat /\ started \in Nat
          /\ awaits \in [Callers -> Nat]

\* A call waits for the execution under way or for nothing: none is left
\* behind by an execution that is over, and none waits for a second one.
NobodyLeftBehind == /\ \A c \in Callers : awaits[c] \in {0, run}
                    /\ run \in {0, started}
=============================================================================
