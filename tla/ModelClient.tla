----------------------------- MODULE ModelClient -----------------------------
(***************************************************************************)
(* The client of the language model (main/utils/gemini-client.js) for the  *)
(* calls of one account: the limiter they queue in, and the walk of each   *)
(* over the account's keys and the models.                                 *)
(*                                                                         *)
(* Time is a tick; an age stops counting at Window, after which it matters *)
(* to nothing.                                                             *)
(***************************************************************************)
EXTENDS Naturals, Sequences, FiniteSets

CONSTANTS Calls,          \* calls that may be under way at a time
          NKeys, NModels, \* the account's keys and the models, in the order tried
          Asked,          \* what each call may be asked
          MaxLimit,       \* sizes of max_tokens, the last being MAX_RETRY_TOKENS
          Strict,         \* models that do not take the schema
          Rpm, Window,    \* RPM in RPM_WINDOW_MS
          MaxConcurrent,  \* MAX_CONCURRENT
          MaxFaults       \* bound on what goes wrong at the model's end

Keys   == 1..NKeys
Models == 1..NModels
Forms  == {"schema", "plain"}
Kind   == [wants : Forms, malformed : BOOLEAN, limit : 0..MaxLimit]

ASSUME ClientAssumption ==
  /\ NKeys \in Nat \ {0} /\ NModels \in Nat \ {0}
  /\ Rpm \in Nat \ {0} /\ Window \in Nat \ {0} /\ MaxConcurrent \in Nat \ {0}
  /\ MaxLimit \in Nat /\ MaxFaults \in Nat /\ Strict \subseteq Models
  /\ Asked \in [Calls -> SUBSET Kind \ {{}}]

VARIABLES
  calls,    \* each call: where it is in its walk, and what it was answered
  queue,    \* limiter.queue
  stamps,   \* limiter.timestamps, as ages, the oldest first
  running,  \* limiter.running
  timer,    \* limiter._drainTimer: ticks to go
  refused,  \* _refusedSchemas: models known not to take the schema
  faults

vars == <<calls, queue, stamps, running, timer, refused, faults>>

Off == Window + 1

Outcomes == {"ok", "cut", "bad", "quota", "key", "model", "server", "fatal"}
Request  == [key : Keys, model : Models, limit : 0..MaxLimit, form : Forms]
Answer   == [req : Request, got : Outcomes]

\* req is what is being asked, or was asked last; fallback: in plain JSON
\* because the schema was just refused; seen and age are history.
Call == [at : {"away", "queued", "asking", "returned", "failed"}, kind : Kind,
         req : Request, enlarged : BOOLEAN, fallback : BOOLEAN,
         retired : SUBSET Models, problem : BOOLEAN,
         seen : SUBSET Answer, age : 0..Window]

NewCall(kind) ==
  [at |-> "queued", kind |-> kind,
   req |-> [key |-> 1, model |-> 1, limit |-> kind.limit, form |-> kind.wants],
   enlarged |-> FALSE, fallback |-> FALSE, retired |-> {}, problem |-> FALSE,
   seen |-> {}, age |-> Window]
NoCall == [NewCall([wants |-> "plain", malformed |-> FALSE, limit |-> 0]) EXCEPT !.at = "away"]

Asking == {c \in Calls : calls[c].at = "asking"}
Ended(call) == call.at \in {"returned", "failed"}

TypeOK ==
  /\ calls \in [Calls -> Call]
  /\ queue \in Seq(Calls)
  /\ stamps \in Seq(0..Window)
  /\ running = Cardinality(Asking)
  /\ timer \in 0..Off
  /\ refused \subseteq Models
  /\ faults \in 0..MaxFaults

Init ==
  /\ calls = [c \in Calls |-> NoCall]
  /\ queue = <<>> /\ stamps = <<>> /\ running = 0 /\ timer = Off
  /\ refused = {} /\ faults = 0

Least(S) == CHOOSE n \in S : \A m \in S : n <= m

-----------------------------------------------------------------------------
(* The walk of a call over the keys and the models.                        *)

\* _formatFor
FormFor(call, model, known) == IF model \in known THEN "plain" ELSE call.kind.wants

Asks(call, key, model, known) ==
  [call EXCEPT !.at = "asking", !.fallback = FALSE,
               !.req = [@ EXCEPT !.key = key, !.model = model,
                                 !.form = FormFor(call, model, known)]]

Fails(call) == [call EXCEPT !.at = "failed"]

\* The models are through for this key. Another key helps only where this one
\* was what stopped the call, and where a model is left to ask.
NextKey(call, known) ==
  LET left == Models \ call.retired
  IN IF call.problem /\ call.req.key < NKeys /\ left # {}
     THEN Asks([call EXCEPT !.problem = FALSE], call.req.key + 1, Least(left), known)
     ELSE Fails(call)

NextModel(call, known) ==
  LET left == {m \in Models \ call.retired : m > call.req.model}
  IN IF left = {} THEN NextKey(call, known) ELSE Asks(call, call.req.key, Least(left), known)

\* Mutant of KeyRefused: a refused key fails the call.
KeyRefusedFails(call, known) == Fails(call)
KeyRefused(call, known) == NextKey([call EXCEPT !.problem = TRUE], known)

Larger(limit) == IF limit < MaxLimit THEN limit + 1 ELSE limit

\* Mutant of CutForGood: once more, be there more room or not.
CutOnceMore(call) == call.enlarged
CutForGood(call) == call.enlarged \/ Larger(call.req.limit) <= call.req.limit

\* A reply is cut off at max_tokens: once more, with more room.
CutOff(call, known) ==
  IF CutForGood(call) THEN Fails(call)
  ELSE Asks([call EXCEPT !.enlarged = TRUE, !.req.limit = Larger(@)],
            call.req.key, call.req.model, known)

\* A malformed request, which may be so because of the schema.
BadRequest(call) ==
  IF call.req.form = "schema" THEN [call EXCEPT !.req.form = "plain", !.fallback = TRUE]
  ELSE Fails(call)

\* What a call does on an answer, the schemas known as refused being `known`.
After(call, got, known) ==
  LET told == [call EXCEPT !.seen = @ \cup {[req |-> call.req, got |-> got]}]
  IN CASE got = "ok"     -> [told EXCEPT !.at = "returned"]
       [] got = "cut"    -> CutOff(told, known)
       [] got = "bad"    -> BadRequest(told)
       [] got = "quota"  -> NextModel([told EXCEPT !.problem = TRUE], known)
       [] got = "key"    -> KeyRefused(told, known)
       [] got = "model"  -> NextModel([told EXCEPT !.retired = @ \cup {call.req.model}], known)
       [] got = "server" -> NextModel(told, known)
       [] got = "fatal"  -> Fails(told)

\* It was the schema: plain JSON got a reply where the schema got none.
SchemaRefused(call, got) == call.fallback /\ got \in {"ok", "cut"}

-----------------------------------------------------------------------------
(* The limiter.                                                            *)

\* Mutant of Recent: a call leaves the window a tick early.
RecentEarly(age) == age + 1 < Window
Recent(age) == age < Window
\* The oldest are shifted out while they are out of the window.
Remaining(ages) ==
  SubSeq(ages, Least({i \in 1..(Len(ages) + 1) : i > Len(ages) \/ Recent(ages[i])}), Len(ages))

\* Mutant of Armed: the limit is reached and nothing is set to go on.
NotArmed(oldest, set) == set
Armed(oldest, set) == IF set = Off THEN Window - oldest ELSE set

\* _drain: calls begin, oldest first, while there are slots and the window has
\* room; when it has none a timer is set for when it will.
Drains(waiting, taken, called, set, known) ==
  LET slots  == MaxConcurrent - taken
      looks  == waiting # <<>> /\ slots > 0
      recent == IF looks THEN Remaining(stamps) ELSE stamps
      begun  == IF looks THEN Least({Len(waiting), slots, Rpm - Len(recent)}) ELSE 0
      after  == recent \o [i \in 1..begun |-> 0]
      first  == {waiting[i] : i \in 1..begun}
  IN /\ queue' = SubSeq(waiting, begun + 1, Len(waiting))
     /\ running' = taken + begun
     /\ stamps' = after
     /\ calls' = [c \in Calls |-> IF c \in first
                                  THEN Asks([called[c] EXCEPT !.age = 0], 1, 1, known)
                                  ELSE called[c]]
     /\ timer' = IF begun < Len(waiting) /\ begun < slots THEN Armed(after[1], set) ELSE set

CallGemini(c, kind) ==
  /\ calls[c].at = "away"
  /\ Drains(Append(queue, c), running, [calls EXCEPT ![c] = NewCall(kind)], timer, refused)
  /\ UNCHANGED <<refused, faults>>

\* The timer clears itself and drains.
TimerFires ==
  /\ timer = 0
  /\ Drains(queue, running, calls, Off, refused)
  /\ UNCHANGED <<refused, faults>>

\* What the model may answer: a malformed request, and a schema it does not
\* take, get a 400 if they get that far.
MayGet(call, got) ==
  LET unfit == call.kind.malformed \/ (call.req.form = "schema" /\ call.req.model \in Strict)
  IN (got = "bad" => unfit) /\ (got \in {"ok", "cut"} => ~unfit)

Costs(got) == IF got \in {"ok", "bad"} THEN UNCHANGED faults
              ELSE faults < MaxFaults /\ faults' = faults + 1

\* An answer, an error or the time limit of the request under way.
Answered(c, got) ==
  LET known == refused \cup (IF SchemaRefused(calls[c], got) THEN {calls[c].req.model} ELSE {})
      next  == After(calls[c], got, known)
  IN /\ calls[c].at = "asking"
     /\ MayGet(calls[c], got) /\ Costs(got)
     /\ refused' = known
     /\ IF Ended(next)
        THEN Drains(queue, running - 1, [calls EXCEPT ![c] = next], timer, known)
        ELSE calls' = [calls EXCEPT ![c] = next] /\ UNCHANGED <<queue, stamps, running, timer>>

\* SCHEMA_REFUSAL_TTL_MS
RefusalExpires(m) ==
  /\ m \in refused
  /\ refused' = refused \ {m}
  /\ UNCHANGED <<calls, queue, stamps, running, timer, faults>>

Older(age) == IF age < Window THEN age + 1 ELSE age

\* A call that is over and out of the window is free to stand for another.
Aged(call) == IF Ended(call) /\ Older(call.age) = Window THEN NoCall
              ELSE [call EXCEPT !.age = Older(@)]
Tick ==
  /\ stamps' = [i \in DOMAIN stamps |-> Older(stamps[i])]
  /\ calls' = [c \in Calls |-> Aged(calls[c])]
  /\ timer' = IF timer \in 1..Window THEN timer - 1 ELSE timer
  /\ UNCHANGED <<queue, running, refused, faults>>

Replied(c) == \E got \in Outcomes : Answered(c, got)

Next ==
  \/ \E c \in Calls : Replied(c) \/ \E kind \in Asked[c] : CallGemini(c, kind)
  \/ TimerFires \/ Tick
  \/ \E m \in Models : RefusalExpires(m)

Spec == Init /\ [][Next]_vars

-----------------------------------------------------------------------------
(* Properties.                                                             *)

\* At most MAX_CONCURRENT calls at a time and RPM begun in any window,
\* whichever of a slot, a timer and a reply lets them begin ("15 RPM sliding
\* window, 5 concurrent", gemini-client.js:77).
LimitsKept ==
  /\ Cardinality(Asking) <= MaxConcurrent
  /\ Cardinality({c \in Calls : calls[c].age < Window}) <= Rpm

\* A key and a model the call has no reason left to ask.
RuledOut(seen, key, model) ==
  \E s \in seen : \/ s.req.key = key /\ s.req.model = model /\ s.got = "quota"
                  \/ s.req.key = key /\ s.got = "key"
                  \/ s.req.model = model /\ s.got \in {"model", "server"}

HasReason(call) ==
  \/ call.kind.malformed
  \/ \E s \in call.seen : s.got = "fatal"
  \/ \E s \in call.seen : /\ s.got = "cut"
                          /\ s.req.limit > call.kind.limit \/ s.req.limit = MaxLimit
  \/ \A key \in Keys, model \in Models : RuledOut(call.seen, key, model)

\* A call fails for a request that is malformed or a fault that is the same
\* everywhere, for a reply cut off at a limit larger than its first (or at the
\* largest there is), or when every model is
\* ruled out on every key: one revoked key does not block the ones after it
\* (gemini-client.js:47), nor does a schema a model does not take
\* (gemini-client.js:166).
FailsForAReason == \A c \in Calls : calls[c].at = "failed" => HasReason(calls[c])

\* No call sends a request again that it has had an answer to, whatever sends
\* it on: a cut-off reply, a refused schema, the next key (gemini-client.js:262).
NeverRepeated == \A c \in Asking : \A s \in calls[c].seen : s.req # calls[c].req

\* Only a schema the model really does not take is held against it: not one of
\* a call that was malformed anyway (gemini-client.js:168-175).
RefusedIsRefused == refused \subseteq Strict

\* No call waits for nothing: either every slot is taken, and what frees one
\* drains the queue, or a timer is set that rings no later than the window has
\* room ("queues any excess and processes them as slots free up",
\* README.md:169).
QueueMoves == queue # <<>> =>
  running = MaxConcurrent \/ (stamps # <<>> /\ timer <= Window - stamps[1])

\* Requests, not calls, within the rate ("max 15 RPM per user", README.md:19).
RequestsWithinRate ==
  LET sent(c) == Cardinality(calls[c].seen) + (IF c \in Asking THEN 1 ELSE 0)
  IN \A c, d \in Calls : c # d /\ calls[c].age < Window /\ calls[d].age < Window
                         => sent(c) + sent(d) <= Rpm
=============================================================================
