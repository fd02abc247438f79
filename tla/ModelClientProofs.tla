-------------------------- MODULE ModelClientProofs --------------------------
(***************************************************************************)
(* The client of the language model, for any number of calls, keys, models *)
(* and sizes, any rate and any faults.                                     *)
(*                                                                         *)
(* Two invariants. Walk is of each call for itself: what it was answered   *)
(* says why it is where it is, and never comes back. Limiter is of the     *)
(* queue, the slots, the window and the timer.                             *)
(***************************************************************************)
EXTENDS ModelClient, FunctionTheorems, FiniteSetTheorems, WellFoundedInduction, TLAPS

\* A set of numbers has a least.
LEMMA LeastIs ==
  ASSUME NEW S \in SUBSET Nat, S # {}
  PROVE  Least(S) \in S /\ \A m \in S : Least(S) <= m
<1>1. PICK x \in S : \A y \in S : ~ (<<y, x>> \in OpToRel(<, Nat))
  BY NatLessThanWellFounded, WFMin, Zenon
<1>2. \A y \in S : ~ (y < x)
  BY <1>1, Zenon DEF OpToRel
<1>3. \A y \in S : x <= y
  BY <1>2
<1> QED
  BY <1>3 DEF Least

-----------------------------------------------------------------------------
(* The walk of one call.                                                   *)

\* A model that is out on every key.
Everywhere(seen, m) == \E s \in seen : s.req.model = m /\ s.got \in {"model", "server"}

\* The order in which a call asks.
Before(r, q) ==
  \/ r.key < q.key
  \/ r.key = q.key /\ r.model < q.model
  \/ r.key = q.key /\ r.model = q.model /\ r.limit < q.limit
  \/ r.key = q.key /\ r.model = q.model /\ r.limit = q.limit /\ r.form = "schema" /\ q.form = "plain"

\* What lies behind a call that asks `model` on `key`.
Behind(call, key, model) ==
  /\ \A k \in Keys, m \in Models : k < key => RuledOut(call.seen, k, m)
  /\ \A m \in Models : m < model => RuledOut(call.seen, key, m)
  /\ ~call.problem => \A m \in Models : m < model => Everywhere(call.seen, m)

Retired(call) == \A m \in call.retired : Everywhere(call.seen, m)

\* A call that was enlarged asks for more than it did at first.
Grown(call) == IF call.enlarged THEN call.req.limit > call.kind.limit
                                ELSE call.req.limit = call.kind.limit

WalkSound(call) ==
  /\ Grown(call)
  /\ call.at = "asking" =>
       /\ Behind(call, call.req.key, call.req.model)
       /\ Retired(call)
       /\ \A s \in call.seen : Before(s.req, call.req)
       /\ call.fallback => call.kind.malformed \/ call.req.model \in Strict
  /\ call.at = "failed" => HasReason(call)

\* A call an answer has taken on.
Moved(call, next) ==
  /\ next \in Call /\ WalkSound(next)
  /\ next.at \in {"asking", "returned", "failed"} /\ next.kind = call.kind /\ next.age = call.age

\* A call that goes on to a request after all it has made.
LEMMA AsksSound ==
  ASSUME NEW call \in Call, NEW key \in Keys, NEW model \in Models, NEW known,
         Behind(call, key, model), Retired(call), Grown(call),
         \A s \in call.seen : Before(s.req, Asks(call, key, model, known).req)
  PROVE  Moved(call, Asks(call, key, model, known))
<1> DEFINE next == Asks(call, key, model, known)
           r == [call.req EXCEPT !.key = key, !.model = model, !.form = FormFor(call, model, known)]
<1>1. FormFor(call, model, known) \in Forms
  BY DEF FormFor, Call, Kind, Forms
<1>2. r \in Request /\ r.key = key /\ r.model = model /\ r.limit = call.req.limit
  BY <1>1 DEF Call, Request
<1>3. next = [call EXCEPT !.at = "asking", !.fallback = FALSE, !.req = r]
  BY Zenon DEF Asks
<1>4. \A s \in call.seen : Before(s.req, next.req)
  OBVIOUS
<1> HIDE DEF next, r
<1>5. next \in Call
  BY <1>2, <1>3 DEF Call
<1>6. /\ next.at = "asking" /\ ~next.fallback /\ next.seen = call.seen
      /\ next.problem = call.problem /\ next.retired = call.retired /\ next.req = r
      /\ next.kind = call.kind /\ next.age = call.age /\ next.enlarged = call.enlarged
  BY <1>3 DEF Call
<1>7. WalkSound(next)
  BY <1>2, <1>4, <1>6 DEF WalkSound, Behind, Retired, Grown
<1> QED
  BY <1>5, <1>6, <1>7 DEF next, Moved

LEMMA FailsSound ==
  ASSUME NEW call \in Call, HasReason(call), Grown(call)
  PROVE  Moved(call, Fails(call))
<1> DEFINE next == Fails(call)
<1>1. next = [call EXCEPT !.at = "failed"]
  BY DEF Fails
<1> HIDE DEF next
<1>2. /\ next \in Call /\ next.at = "failed" /\ next.seen = call.seen /\ next.kind = call.kind
      /\ next.enlarged = call.enlarged /\ next.req = call.req /\ next.age = call.age
  BY <1>1 DEF Call
<1>3. HasReason(next) /\ Grown(next)
  BY <1>2 DEF HasReason, Grown
<1> QED
  BY <1>2, <1>3 DEF WalkSound, Moved, next

LEMMA EverywhereIsOut ==
  ASSUME NEW seen, NEW m, Everywhere(seen, m), NEW k PROVE RuledOut(seen, k, m)
  BY DEF Everywhere, RuledOut

\* The answer to the request just made is there, and what is behind it.
Told(call) ==
  /\ call \in Call
  /\ \A k \in Keys, m \in Models : k < call.req.key => RuledOut(call.seen, k, m)
  /\ Retired(call) /\ Grown(call)
  /\ \A s \in call.seen : s.req = call.req \/ Before(s.req, call.req)

\* Every model is through for this key.
LEMMA NextKeySound ==
  ASSUME NEW call, Told(call), NEW known,
         \A m \in Models : RuledOut(call.seen, call.req.key, m),
         ~call.problem => \A m \in Models : Everywhere(call.seen, m)
  PROVE  Moved(call, NextKey(call, known))
<1> DEFINE left == Models \ call.retired
           key == call.req.key
           next == [call EXCEPT !.problem = FALSE]
<1>1. call \in Call /\ call.req \in Request /\ key \in Keys /\ call.problem \in BOOLEAN
  BY DEF Told, Call, Request
<1>2. \A m \in Models : m \notin left => Everywhere(call.seen, m)
  BY DEF Told, Retired
<1>3. CASE call.problem /\ key < NKeys /\ left # {}
  <2>1. Least(left) \in left /\ \A m \in left : Least(left) <= m
    BY <1>3, LeastIs DEF Models
  <2>2. key + 1 \in Keys
    BY <1>1, <1>3, ClientAssumption DEF Keys
  <2>3. /\ next \in Call /\ next.req = call.req /\ next.seen = call.seen /\ ~next.problem
        /\ next.retired = call.retired /\ next.kind = call.kind /\ next.age = call.age
        /\ next.enlarged = call.enlarged
    BY <1>1 DEF Call
  <2> HIDE DEF next
  <2>4. \A m \in Models : m < Least(left) => Everywhere(call.seen, m)
    BY <1>2, <2>1 DEF Models
  <2>5. Behind(next, key + 1, Least(left))
    <3>1. \A k \in Keys, m \in Models : k < key + 1 => RuledOut(call.seen, k, m)
      BY <1>1 DEF Told, Keys
    <3> QED
      BY <2>3, <2>4, <3>1, EverywhereIsOut DEF Behind
  <2>6. Retired(next) /\ Grown(next)
    BY <2>3 DEF Told, Retired, Grown
  <2>7. \A s \in next.seen : Before(s.req, Asks(next, key + 1, Least(left), known).req)
    <3>1. Asks(next, key + 1, Least(left), known).req.key = key + 1
      BY <2>3 DEF Asks, Call, Request
    <3>2. \A s \in call.seen : s.req.key \in Keys /\ s.req.key <= key
      BY <1>1 DEF Told, Before, Call, Answer, Request, Keys
    <3> QED
      BY <1>1, <2>3, <3>1, <3>2 DEF Before, Keys
  <2>8. Moved(next, Asks(next, key + 1, Least(left), known))
    BY <2>1, <2>2, <2>3, <2>5, <2>6, <2>7, AsksSound
  <2>9. NextKey(call, known) = Asks(next, key + 1, Least(left), known)
    BY <1>3 DEF NextKey, next
  <2> QED
    BY <2>3, <2>8, <2>9 DEF Moved
<1>4. CASE ~(call.problem /\ key < NKeys /\ left # {})
  <2>1. NextKey(call, known) = Fails(call)
    BY <1>4 DEF NextKey
  <2>2. \A k \in Keys, m \in Models : RuledOut(call.seen, k, m)
    <3>1. CASE ~call.problem
      BY <3>1, EverywhereIsOut
    <3>2. CASE left = {}
      BY <1>2, <3>2, EverywhereIsOut
    <3>3. CASE ~(key < NKeys)
      <4>1. \A k \in Keys : k < key \/ k = key
        BY <1>1, <3>3, ClientAssumption DEF Keys
      <4> QED
        BY <4>1 DEF Told
    <3> QED
      BY <1>1, <1>4, <3>1, <3>2, <3>3
  <2>3. HasReason(call)
    BY <2>2 DEF HasReason
  <2> QED
    BY <1>1, <2>1, <2>3, FailsSound DEF Told
<1> QED
  BY <1>3, <1>4

\* This model is through for this key.
LEMMA NextModelSound ==
  ASSUME NEW call, Told(call), NEW known,
         \A m \in Models : m <= call.req.model => RuledOut(call.seen, call.req.key, m),
         ~call.problem => \A m \in Models : m <= call.req.model => Everywhere(call.seen, m)
  PROVE  Moved(call, NextModel(call, known))
<1> DEFINE left == {m \in Models \ call.retired : m > call.req.model}
<1>1. call \in Call /\ call.req \in Request /\ call.req.key \in Keys /\ call.req.model \in Models
  BY DEF Told, Call, Request
<1>2. \A m \in Models : m \notin left => m <= call.req.model \/ Everywhere(call.seen, m)
  BY <1>1 DEF Told, Retired, Models
<1>3. CASE left = {}
  <2>1. \A m \in Models : RuledOut(call.seen, call.req.key, m)
    BY <1>2, <1>3, EverywhereIsOut
  <2>2. ~call.problem => \A m \in Models : Everywhere(call.seen, m)
    BY <1>2, <1>3
  <2>3. NextModel(call, known) = NextKey(call, known)
    BY <1>3 DEF NextModel
  <2> QED
    BY <2>1, <2>2, <2>3, NextKeySound
<1>4. CASE left # {}
  <2>1. Least(left) \in left /\ \A m \in left : Least(left) <= m
    BY <1>4, LeastIs DEF Models
  <2>2. Least(left) \in Models /\ Least(left) > call.req.model
    BY <2>1
  <2>3. \A m \in Models : m < Least(left) => m \notin left
    BY <2>1 DEF Models
  <2>4. Behind(call, call.req.key, Least(left))
    <3>1. \A m \in Models : m < Least(left) => RuledOut(call.seen, call.req.key, m)
      BY <1>2, <2>3, EverywhereIsOut
    <3>2. ~call.problem => \A m \in Models : m < Least(left) => Everywhere(call.seen, m)
      BY <1>2, <2>3
    <3> QED
      BY <3>1, <3>2 DEF Behind, Told
  <2>5. NextModel(call, known) = Asks(call, call.req.key, Least(left), known)
    BY <1>4 DEF NextModel
  <2> HIDE DEF left
  <2>6. \A s \in call.seen : Before(s.req, Asks(call, call.req.key, Least(left), known).req)
    <3>1. /\ Asks(call, call.req.key, Least(left), known).req.key = call.req.key
          /\ Asks(call, call.req.key, Least(left), known).req.model = Least(left)
      BY <1>1 DEF Asks, Call, Request
    <3>2. \A s \in call.seen : s.req \in Request
      BY <1>1 DEF Call, Answer
    <3>3. \A s \in call.seen : s.req.key < call.req.key \/ (s.req.key = call.req.key /\ s.req.model <= call.req.model)
      BY <1>1, <3>2 DEF Told, Before, Request, Models, Keys
    <3> QED
      BY <1>1, <2>2, <3>1, <3>2, <3>3 DEF Before, Request, Models, Keys
  <2> QED
    BY <1>1, <2>2, <2>4, <2>5, <2>6, AsksSound DEF Told
<1> QED
  BY <1>3, <1>4

\* A reply cut off, and a malformed request, of a call already told.
LEMMA CutOffSound ==
  ASSUME NEW call, Told(call), NEW known, Behind(call, call.req.key, call.req.model),
         \E s \in call.seen : s.req = call.req /\ s.got = "cut"
  PROVE  Moved(call, CutOff(call, known))
<1>1. call \in Call /\ call.req \in Request /\ call.enlarged \in BOOLEAN
      /\ call.req.key \in Keys /\ call.req.model \in Models /\ call.req.limit \in 0..MaxLimit
  BY DEF Told, Call, Request
<1>2. CASE CutForGood(call)
  <2>1. call.enlarged \/ call.req.limit = MaxLimit
    BY <1>1, <1>2, ClientAssumption DEF CutForGood, Larger
  <2>2. call.req.limit > call.kind.limit \/ call.req.limit = MaxLimit
    BY <2>1 DEF Told, Grown
  <2>3. HasReason(call)
    BY <2>2 DEF HasReason
  <2> QED
    BY <1>1, <1>2, <2>3, FailsSound DEF CutOff, Told
<1>3. CASE ~CutForGood(call)
  <2> DEFINE r == [call.req EXCEPT !.limit = Larger(call.req.limit)]
             next == [call EXCEPT !.enlarged = TRUE, !.req = r]
  <2>1. Larger(call.req.limit) \in 0..MaxLimit /\ Larger(call.req.limit) > call.req.limit
    BY <1>1, <1>3, ClientAssumption DEF CutForGood, Larger
  <2>2. r \in Request /\ r.key = call.req.key /\ r.model = call.req.model /\ r.limit = Larger(call.req.limit)
    BY <1>1, <2>1 DEF Request
  <2>3. CutOff(call, known) = Asks([call EXCEPT !.enlarged = TRUE, !.req.limit = Larger(@)],
                                   call.req.key, call.req.model, known)
    BY <1>3 DEF CutOff
  <2>4. [call EXCEPT !.enlarged = TRUE, !.req.limit = Larger(@)] = next
    BY <1>1 DEF Call, Request
  <2> HIDE DEF r
  <2>5. /\ next \in Call /\ next.req = r /\ next.seen = call.seen /\ next.retired = call.retired
        /\ next.problem = call.problem /\ next.kind = call.kind /\ next.age = call.age
    BY <1>1, <2>2 DEF Call
  <2> HIDE DEF next
  <2>6. /\ Behind(next, call.req.key, call.req.model) /\ Retired(next)
        /\ Grown(next)
    <3>2. Behind(next, call.req.key, call.req.model) /\ Retired(next)
      BY <2>5 DEF Behind, Told, Retired
    <3>3. next.enlarged
      BY <1>1 DEF Call, next
    <3>1. Larger(call.req.limit) > call.kind.limit
      BY <1>1, <1>3, <2>1 DEF CutForGood, Told, Grown
    <3> QED
      BY <2>2, <2>5, <3>1, <3>2, <3>3 DEF Grown
  <2>7. \A s \in next.seen : Before(s.req, Asks(next, call.req.key, call.req.model, known).req)
    <3> DEFINE q == Asks(next, call.req.key, call.req.model, known).req
    <3>1. q.key = call.req.key /\ q.model = call.req.model /\ q.limit = Larger(call.req.limit)
      BY <2>2, <2>5 DEF Asks, Call, Request
    <3> HIDE DEF q
    <3>2. \A s \in call.seen : s.req \in Request
      BY <1>1 DEF Call, Answer
    <3> SUFFICES ASSUME NEW s \in call.seen PROVE Before(s.req, q)
      BY <2>5 DEF q
    <3>3. s.req = call.req \/ Before(s.req, call.req)
      BY DEF Told
    <3> QED
      BY <1>1, <2>1, <3>1, <3>2, <3>3 DEF Before, Request, Keys, Models
  <2>8. Moved(next, Asks(next, call.req.key, call.req.model, known))
    BY <1>1, <2>5, <2>6, <2>7, AsksSound
  <2> QED
    BY <2>3, <2>4, <2>5, <2>8 DEF Moved
<1> QED
  BY <1>2, <1>3

LEMMA BadRequestSound ==
  ASSUME NEW call, Told(call), Behind(call, call.req.key, call.req.model), call.at = "asking",
         call.kind.malformed \/ (call.req.form = "schema" /\ call.req.model \in Strict)
  PROVE  Moved(call, BadRequest(call))
<1>1. call \in Call /\ call.req \in Request
  BY DEF Told, Call
<1>2. CASE call.req.form = "schema"
  <2> DEFINE r == [call.req EXCEPT !.form = "plain"]
             next == [call EXCEPT !.req = r, !.fallback = TRUE]
  <2>1. r \in Request /\ r.key = call.req.key /\ r.model = call.req.model /\ r.limit = call.req.limit /\ r.form = "plain"
    BY <1>1 DEF Request, Forms
  <2>2. BadRequest(call) = next
    BY <1>1, <1>2 DEF BadRequest, Call, Request
  <2> HIDE DEF r
  <2>3. /\ next \in Call /\ next.req = r /\ next.seen = call.seen /\ next.retired = call.retired /\ next.at = "asking"
        /\ next.problem = call.problem /\ next.kind = call.kind /\ next.age = call.age
        /\ next.enlarged = call.enlarged
    BY <1>1, <2>1 DEF Call
  <2>7. Grown(next)
    BY <2>1, <2>3 DEF Told, Grown
  <2> HIDE DEF next
  <2>4. Behind(next, r.key, r.model) /\ Retired(next)
    BY <2>1, <2>3 DEF Behind, Told, Retired
  <2>5. \A s \in call.seen : Before(s.req, r)
    <3> SUFFICES ASSUME NEW s \in call.seen PROVE Before(s.req, r)
      OBVIOUS
    <3>1. s.req = call.req \/ Before(s.req, call.req)
      BY DEF Told
    <3> QED
      BY <1>2, <2>1, <3>1 DEF Before
  <2>6. WalkSound(next)
    BY <1>2, <2>1, <2>3, <2>4, <2>5, <2>7 DEF WalkSound
  <2> QED
    BY <2>2, <2>3, <2>6 DEF Moved
<1>3. CASE call.req.form # "schema"
  BY <1>1, <1>3, FailsSound DEF BadRequest, HasReason, Told
<1> QED
  BY <1>2, <1>3

\* What each answer does with a call.
LEMMA AfterSound ==
  ASSUME NEW call \in Call, call.at = "asking", WalkSound(call),
         NEW got \in Outcomes, MayGet(call, got), NEW known
  PROVE  Moved(call, After(call, got, known))
<1> DEFINE ans  == [req |-> call.req, got |-> got]
           told == [call EXCEPT !.seen = call.seen \cup {ans}]
<1>1. call.req \in Request /\ call.req.key \in Keys /\ call.req.model \in Models
  BY DEF Call, Request
<1>2. ans \in Answer /\ ans.req = call.req /\ ans.got = got
  BY <1>1 DEF Answer
<1>3. /\ told \in Call /\ told.req = call.req /\ told.seen = call.seen \cup {ans} /\ told.retired = call.retired
      /\ told.problem = call.problem /\ told.kind = call.kind /\ told.age = call.age /\ told.at = "asking"
      /\ told.enlarged = call.enlarged
  BY <1>2 DEF Call
<1>4. After(call, got, known) =
        CASE got = "ok"     -> [told EXCEPT !.at = "returned"]
          [] got = "cut"    -> CutOff(told, known)
          [] got = "bad"    -> BadRequest(told)
          [] got = "quota"  -> NextModel([told EXCEPT !.problem = TRUE], known)
          [] got = "key"    -> KeyRefused(told, known)
          [] got = "model"  -> NextModel([told EXCEPT !.retired = @ \cup {call.req.model}], known)
          [] got = "server" -> NextModel(told, known)
          [] got = "fatal"  -> Fails(told)
  BY Zenon DEF After
<1> HIDE DEF ans, told
<1>5. \A k, m : RuledOut(call.seen, k, m) => RuledOut(told.seen, k, m)
  BY <1>3 DEF RuledOut
<1>6. \A m : Everywhere(call.seen, m) => Everywhere(told.seen, m)
  BY <1>3 DEF Everywhere
<1>7. Behind(call, call.req.key, call.req.model) /\ Retired(call) /\ \A s \in call.seen : Before(s.req, call.req)
  BY DEF WalkSound
<1>8. Behind(told, call.req.key, call.req.model) /\ Retired(told)
  BY <1>3, <1>5, <1>6, <1>7 DEF Behind, Retired
<1>19. Grown(told)
  BY <1>3 DEF WalkSound, Grown
<1>9. Told(told)
  BY <1>2, <1>3, <1>7, <1>8, <1>19 DEF Told, Behind
<1>10. ans \in told.seen
  BY <1>3
<1>11. CASE got = "ok"
  <2> DEFINE next == [told EXCEPT !.at = "returned"]
  <2>1. /\ next \in Call /\ next.at = "returned" /\ next.kind = call.kind /\ next.age = call.age
        /\ next.req = told.req /\ next.kind = told.kind /\ next.enlarged = told.enlarged
    BY <1>3 DEF Call
  <2>2. WalkSound(next)
    BY <1>19, <2>1 DEF WalkSound, Grown
  <2> QED
    BY <1>4, <1>11, <2>1, <2>2 DEF Moved
<1>12. CASE got = "cut"
  BY <1>2, <1>3, <1>4, <1>8, <1>9, <1>10, <1>12, CutOffSound DEF Moved
<1>13. CASE got = "bad"
  <2>1. told.kind.malformed \/ (told.req.form = "schema" /\ told.req.model \in Strict)
    BY <1>3, <1>13 DEF MayGet
  <2> QED
    BY <1>3, <1>4, <1>8, <1>9, <1>13, <2>1, BadRequestSound DEF Moved
<1>14. CASE got = "quota"
  <2> DEFINE next == [told EXCEPT !.problem = TRUE]
  <2>1. /\ next \in Call /\ next.req = call.req /\ next.seen = told.seen /\ next.retired = call.retired
        /\ next.problem /\ next.kind = call.kind /\ next.age = call.age
        /\ next.enlarged = call.enlarged
    BY <1>3 DEF Call
  <2>2. After(call, got, known) = NextModel(next, known)
    BY <1>4, <1>14
  <2> HIDE DEF next
  <2>3. Told(next)
    BY <1>3, <1>9, <2>1 DEF Told, Retired, Grown
  <2>4. \A m \in Models : m <= next.req.model => RuledOut(next.seen, next.req.key, m)
    BY <1>1, <1>2, <1>3, <1>8, <1>10, <1>14, <2>1 DEF Behind, RuledOut, Models
  <2> QED
    BY <2>1, <2>2, <2>3, <2>4, NextModelSound DEF Moved
<1>15. CASE got = "key"
  <2> DEFINE next == [told EXCEPT !.problem = TRUE]
  <2>1. /\ next \in Call /\ next.req = call.req /\ next.seen = told.seen /\ next.retired = call.retired
        /\ next.problem /\ next.kind = call.kind /\ next.age = call.age
        /\ next.enlarged = call.enlarged
    BY <1>3 DEF Call
  <2>2. After(call, got, known) = NextKey(next, known)
    BY <1>4, <1>15 DEF KeyRefused
  <2> HIDE DEF next
  <2>3. Told(next)
    BY <1>3, <1>9, <2>1 DEF Told, Retired, Grown
  <2>4. \A m \in Models : RuledOut(next.seen, next.req.key, m)
    BY <1>2, <1>10, <1>15, <2>1 DEF RuledOut
  <2> QED
    BY <2>1, <2>2, <2>3, <2>4, NextKeySound DEF Moved
<1>16. CASE got = "model"
  <2> DEFINE next == [told EXCEPT !.retired = @ \cup {call.req.model}]
  <2>1. /\ next \in Call /\ next.req = call.req /\ next.seen = told.seen /\ next.problem = call.problem
        /\ next.retired = call.retired \cup {call.req.model} /\ next.kind = call.kind /\ next.age = call.age
        /\ next.enlarged = call.enlarged
    BY <1>1, <1>3 DEF Call
  <2>2. After(call, got, known) = NextModel(next, known)
    BY <1>4, <1>16
  <2> HIDE DEF next
  <2>3. Everywhere(next.seen, call.req.model)
    BY <1>2, <1>10, <1>16, <2>1 DEF Everywhere
  <2>4. Told(next)
    BY <1>3, <1>9, <2>1, <2>3 DEF Told, Retired, Grown
  <2>5. \A m \in Models : m <= next.req.model => RuledOut(next.seen, next.req.key, m)
    BY <1>1, <1>8, <2>1, <2>3, EverywhereIsOut DEF Behind, Models
  <2>6. ~next.problem => \A m \in Models : m <= next.req.model => Everywhere(next.seen, m)
    BY <1>1, <1>3, <1>8, <2>1, <2>3 DEF Behind, Models
  <2> QED
    BY <2>1, <2>2, <2>4, <2>5, <2>6, NextModelSound DEF Moved
<1>17. CASE got = "server"
  <2>1. Everywhere(told.seen, call.req.model)
    BY <1>2, <1>10, <1>17 DEF Everywhere
  <2>2. \A m \in Models : m <= told.req.model => RuledOut(told.seen, told.req.key, m)
    BY <1>1, <1>3, <1>8, <2>1, EverywhereIsOut DEF Behind, Models
  <2>3. ~told.problem => \A m \in Models : m <= told.req.model => Everywhere(told.seen, m)
    BY <1>1, <1>3, <1>8, <2>1 DEF Behind, Models
  <2> QED
    BY <1>3, <1>4, <1>9, <1>17, <2>2, <2>3, NextModelSound DEF Moved
<1>18. CASE got = "fatal"
  <2>1. HasReason(told)
    BY <1>2, <1>10, <1>18 DEF HasReason
  <2> QED
    BY <1>3, <1>4, <1>18, <1>19, <2>1, FailsSound DEF Moved
<1> QED
  BY <1>11, <1>12, <1>13, <1>14, <1>15, <1>16, <1>17, <1>18 DEF Outcomes

-----------------------------------------------------------------------------
(* What a drain does.                                                      *)

Sorted(st) == \A i, j \in 1..Len(st) : i <= j => st[j] <= st[i]
Stamped(st) == st \in Seq(0..Window) /\ Len(st) <= Rpm /\ Sorted(st)

LEMMA ElementOf == ASSUME NEW T, NEW s \in Seq(T), NEW i \in 1..Len(s) PROVE s[i] \in T
  OBVIOUS

LEMMA JoinOf ==
  ASSUME NEW T, NEW r \in Seq(T), NEW s \in Seq(T)
  PROVE  r \o s \in Seq(T) /\ Len(r \o s) = Len(r) + Len(s)
  OBVIOUS

\* What leaves the window is a prefix.
LEMMA RemainingIs ==
  ASSUME NEW st, Stamped(st)
  PROVE  \E k \in 0..Len(st) :
           /\ Remaining(st) = SubSeq(st, k + 1, Len(st))
           /\ \A i \in 1..k : st[i] = Window
           /\ \A i \in (k + 1)..Len(st) : st[i] < Window
<1> DEFINE S == {i \in 1..(Len(st) + 1) : i > Len(st) \/ Recent(st[i])}
           n == Least(S)
<1>1. Len(st) \in Nat /\ \A i \in 1..Len(st) : st[i] \in 0..Window
  <2>1. st \in Seq(0..Window)
    BY DEF Stamped
  <2>2. Len(st) \in Nat
    BY <2>1
  <2>3. \A i \in 1..Len(st) : st[i] \in 0..Window
    BY <2>1, ElementOf
  <2> QED
    BY <2>2, <2>3
<1>2. S \in SUBSET Nat /\ Len(st) + 1 \in S
  BY <1>1
<1>3. n \in S /\ \A i \in S : n <= i
  BY <1>2, LeastIs
<1>4. Remaining(st) = SubSeq(st, n, Len(st))
  BY DEF Remaining
<1>5. n \in 1..(Len(st) + 1) /\ (n <= Len(st) => Recent(st[n])) /\ \A i \in 1..Len(st) : i < n => ~Recent(st[i])
  <2>1. n \in 1..(Len(st) + 1) /\ (n > Len(st) \/ Recent(st[n]))
    BY <1>3
  <2>2. \A i \in 1..Len(st) : i < n => ~Recent(st[i])
    <3> SUFFICES ASSUME NEW i \in 1..Len(st), i < n, Recent(st[i]) PROVE FALSE
      OBVIOUS
    <3>1. i \in S
      BY <1>1
    <3> HIDE DEF n
    <3>2. n <= i
      BY <1>3, <3>1
    <3> QED
      BY <1>1, <2>1, <3>2
  <2> HIDE DEF n, S
  <2>3. n <= Len(st) => Recent(st[n])
    BY <1>1, <2>1
  <2> QED
    BY <2>1, <2>2, <2>3
<1> HIDE DEF S, n
<1>6. n - 1 \in 0..Len(st) /\ (n - 1) + 1 = n
  BY <1>1, <1>5
<1>7. \A i \in 1..(n - 1) : st[i] = Window
  BY <1>1, <1>5, ClientAssumption DEF Recent
<1>8. \A i \in n..Len(st) : st[i] < Window
  <2> SUFFICES ASSUME NEW i \in n..Len(st) PROVE st[i] < Window
    OBVIOUS
  <2>1. n \in 1..Len(st) /\ i \in 1..Len(st) /\ n <= i
    BY <1>1, <1>5
  <2>2. st[i] <= st[n] /\ st[n] < Window
    BY <1>5, <2>1 DEF Stamped, Sorted, Recent
  <2> QED
    BY <1>1, <2>1, <2>2, ClientAssumption
<1> QED
  BY <1>4, <1>6, <1>7, <1>8

\* The calls that begin, and the window after them.
Begun(waiting, b) == {waiting[i] : i \in 1..b}
After1(st, k, b) == SubSeq(st, k + 1, Len(st)) \o [i \in 1..b |-> 0]

LEMMA DrainsIs ==
  ASSUME NEW waiting \in Seq(Calls), NEW taken \in 0..MaxConcurrent, NEW set \in 0..Off, NEW called, NEW known,
         Stamped(stamps), Drains(waiting, taken, called, set, known)
  PROVE  \E b \in 0..Len(waiting), k \in 0..Len(stamps) :
           /\ taken + b <= MaxConcurrent /\ Len(stamps) - k + b <= Rpm
           /\ \A i \in 1..k : stamps[i] = Window
           /\ k < Len(stamps) \/ b > 0 \/ k = 0
           /\ queue' = SubSeq(waiting, b + 1, Len(waiting)) /\ running' = taken + b
           /\ stamps' = After1(stamps, k, b)
           /\ calls' = [c \in Calls |-> IF c \in Begun(waiting, b)
                                         THEN Asks([called[c] EXCEPT !.age = 0], 1, 1, known) ELSE called[c]]
           /\ \/ (b = Len(waiting) \/ taken + b = MaxConcurrent) /\ timer' = set
              \/ /\ Len(stamps) - k + b = Rpm
                 /\ timer' = IF set = Off THEN Window - After1(stamps, k, b)[1] ELSE set
<1> DEFINE slots  == MaxConcurrent - taken
           looks  == waiting # <<>> /\ slots > 0
           recent == IF looks THEN Remaining(stamps) ELSE stamps
           begun  == IF looks THEN Least({Len(waiting), slots, Rpm - Len(recent)}) ELSE 0
           after  == recent \o [i \in 1..begun |-> 0]
<1>1. /\ queue' = SubSeq(waiting, begun + 1, Len(waiting)) /\ running' = taken + begun /\ stamps' = after
      /\ calls' = [c \in Calls |-> IF c \in Begun(waiting, begun)
                                    THEN Asks([called[c] EXCEPT !.age = 0], 1, 1, known) ELSE called[c]]
      /\ timer' = IF begun < Len(waiting) /\ begun < slots THEN Armed(after[1], set) ELSE set
  BY DEF Drains, Begun
<1>2. Len(waiting) \in Nat /\ Len(stamps) \in Nat /\ Len(stamps) <= Rpm /\ slots \in Nat
      /\ stamps \in Seq(0..Window) /\ (waiting = <<>> => Len(waiting) = 0) /\ (waiting # <<>> => Len(waiting) > 0)
  BY ClientAssumption DEF Stamped
<1>3. CASE ~looks
  <2>1. begun = 0 /\ recent = stamps
    BY <1>3
  <2>2. SubSeq(stamps, 0 + 1, Len(stamps)) = stamps
    BY <1>2
  <2>3. stamps' = After1(stamps, 0, 0)
    BY <1>1, <2>1, <2>2 DEF After1
  <2>4. 0 = Len(waiting) \/ taken + 0 = MaxConcurrent
    BY <1>2, <1>3, ClientAssumption
  <2>5. timer' = set
    BY <1>1, <1>2, <2>1, <2>4
  <2>6. queue' = SubSeq(waiting, 0 + 1, Len(waiting)) /\ running' = taken + 0
        /\ calls' = [c \in Calls |-> IF c \in Begun(waiting, 0)
                                      THEN Asks([called[c] EXCEPT !.age = 0], 1, 1, known) ELSE called[c]]
    BY <1>1, <2>1
  <2>7. taken + 0 <= MaxConcurrent /\ Len(stamps) - 0 + 0 <= Rpm /\ 0 \in 0..Len(waiting) /\ 0 \in 0..Len(stamps)
        /\ \A i \in 1..0 : stamps[i] = Window
    BY <1>2, ClientAssumption
  <2> HIDE DEF looks, recent, begun, after, slots
  <2> QED
    BY <2>3, <2>4, <2>5, <2>6, <2>7
<1>4. CASE looks
  <2>1. PICK k \in 0..Len(stamps) :
           /\ Remaining(stamps) = SubSeq(stamps, k + 1, Len(stamps))
           /\ \A i \in 1..k : stamps[i] = Window
    BY RemainingIs
  <2>2. recent = SubSeq(stamps, k + 1, Len(stamps))
    BY <1>4, <2>1
  <2>3. Len(recent) = Len(stamps) - k
    BY <1>2, <2>2
  <2> DEFINE S == {Len(waiting), slots, Rpm - Len(recent)}
  <2>4. S \in SUBSET Nat /\ S # {}
    BY <1>2, <2>3, ClientAssumption
  <2>5. begun = Least(S)
    BY <1>4
  <2>6. Least(S) \in S /\ \A m \in S : Least(S) <= m
    BY <2>4, LeastIs
  <2> HIDE DEF recent
  <2>7. begun \in S /\ begun <= Len(waiting) /\ begun <= slots /\ begun <= Rpm - Len(recent)
    BY <2>5, <2>6
  <2> HIDE DEF begun
  <2>8. begun \in 0..Len(waiting) /\ taken + begun <= MaxConcurrent /\ Len(stamps) - k + begun <= Rpm
    BY <1>2, <2>3, <2>4, <2>7, ClientAssumption
  <2>9. k < Len(stamps) \/ begun > 0
    BY <1>2, <1>4, <2>3, <2>4, <2>7, ClientAssumption
  <2>10. stamps' = After1(stamps, k, begun) /\ after = After1(stamps, k, begun)
    BY <1>1, <2>2 DEF After1, recent
  <2> HIDE DEF after
  <2>11. CASE begun = Len(waiting) \/ begun = slots
    <3>1. taken + slots = MaxConcurrent
      BY ClientAssumption
    <3>2. timer' = set
      BY <1>1, <1>2, <2>8, <2>11
    <3> QED
      BY <1>1, <2>1, <2>8, <2>9, <2>10, <2>11, <3>1, <3>2
  <2>12. CASE ~(begun = Len(waiting) \/ begun = slots)
    <3>1. begun < Len(waiting) /\ begun < slots /\ begun = Rpm - Len(recent)
      BY <1>2, <2>7, <2>8, <2>12, ClientAssumption
    <3>2. timer' = IF set = Off THEN Window - After1(stamps, k, begun)[1] ELSE set
      BY <1>1, <2>10, <3>1 DEF Armed
    <3>3. Len(stamps) - k + begun = Rpm
      BY <1>2, <2>3, <3>1, ClientAssumption
    <3> QED
      BY <1>1, <2>1, <2>8, <2>9, <2>10, <3>2, <3>3
  <2> QED
    BY <2>11, <2>12
<1> QED
  BY <1>3, <1>4

-----------------------------------------------------------------------------
(* The invariant, of any calls, queue, window, slots and timer.            *)

AskingOf(cs) == {c \in Calls : cs[c].at = "asking"}
Young(cs)    == {c \in Calls : cs[c].age < Window}

WalksOf(cs) ==
  /\ cs \in [Calls -> Call]
  /\ \A c \in Calls : WalkSound(cs[c])
  /\ \A c \in Calls : cs[c].at = "queued" =>
       cs[c].seen = {} /\ cs[c].retired = {} /\ ~cs[c].problem /\ cs[c].age = Window

QueueOf(q, cs) ==
  /\ q \in Seq(Calls)
  /\ \A i, j \in 1..Len(q) : q[i] = q[j] => i = j
  /\ \A i \in 1..Len(q) : cs[q[i]].at = "queued"

SlotsOf(cs, r) ==
  IsFiniteSet(AskingOf(cs)) /\ r = Cardinality(AskingOf(cs)) /\ r \in 0..MaxConcurrent

\* Each call begun in the window has a stamp of its own.
Covers(g, cs, st) ==
  /\ g \in [Young(cs) -> 1..Len(st)]
  /\ \A c, d \in Young(cs) : g[c] = g[d] => c = d
  /\ \A c \in Young(cs) : st[g[c]] = cs[c].age
RateOf(cs, st) == Stamped(st) /\ \E g : Covers(g, cs, st)

TimerOf(t, st) == t \in 0..Off /\ (t # Off => Len(st) > 0 /\ t <= Window - st[1])
Moves(q, r, t) == Len(q) = 0 \/ r = MaxConcurrent \/ t # Off

Limiter(cs, q, r, st, t) ==
  WalksOf(cs) /\ QueueOf(q, cs) /\ SlotsOf(cs, r) /\ RateOf(cs, st) /\ TimerOf(t, st)

\* A queued call begins with the first model on the first key.
LEMMA BeginSound ==
  ASSUME NEW call \in Call, call.seen = {}, call.retired = {}, ~call.problem, NEW known,
         Grown(call)
  PROVE  /\ Asks([call EXCEPT !.age = 0], 1, 1, known) \in Call
         /\ WalkSound(Asks([call EXCEPT !.age = 0], 1, 1, known))
         /\ Asks([call EXCEPT !.age = 0], 1, 1, known).at = "asking"
         /\ Asks([call EXCEPT !.age = 0], 1, 1, known).age = 0
<1> DEFINE young == [call EXCEPT !.age = 0]
<1>1. /\ young \in Call /\ young.seen = {} /\ young.retired = {} /\ ~young.problem /\ young.age = 0
      /\ young.enlarged = call.enlarged /\ young.req = call.req /\ young.kind = call.kind
  BY ClientAssumption DEF Call
<1>2. 1 \in Keys /\ 1 \in Models
  BY ClientAssumption DEF Keys, Models
<1> HIDE DEF young
<1>3. Behind(young, 1, 1) /\ Retired(young) /\ Grown(young)
  BY <1>1 DEF Behind, Retired, Keys, Models, Grown
<1>4. Moved(young, Asks(young, 1, 1, known))
  BY <1>1, <1>2, <1>3, AsksSound
<1>5. Asks(young, 1, 1, known).at = "asking"
  BY <1>1 DEF Asks, Call
<1> QED
  BY <1>1, <1>4, <1>5 DEF Moved, young

\* The elements of the window after a drain.
LEMMA After1Is ==
  ASSUME NEW st \in Seq(0..Window), NEW k \in 0..Len(st), NEW b \in Nat
  PROVE  /\ After1(st, k, b) \in Seq(0..Window)
         /\ Len(After1(st, k, b)) = Len(st) - k + b
         /\ \A i \in 1..(Len(st) - k) : After1(st, k, b)[i] = st[k + i]
         /\ \A i \in (Len(st) - k + 1)..(Len(st) - k + b) : After1(st, k, b)[i] = 0
<1>0. Len(st) \in Nat /\ Window \in Nat
  BY ClientAssumption
<1> DEFINE s == SubSeq(st, k + 1, Len(st))
           z == [i \in 1..b |-> 0]
<1>1. s \in Seq(0..Window) /\ Len(s) = Len(st) - k /\ \A i \in 1..(Len(st) - k) : s[i] = st[k + i]
  <2>1. \A i \in (k + 1)..Len(st) : st[i] \in 0..Window
    BY <1>0, ElementOf
  <2> QED
    BY <1>0, <2>1
<1>2. z \in Seq(0..Window) /\ Len(z) = b /\ \A i \in 1..b : z[i] = 0
  BY <1>0
<1> HIDE DEF s, z
<1>3. s \o z \in Seq(0..Window) /\ Len(s \o z) = Len(st) - k + b
  <2>1. s \o z \in Seq(0..Window)
    BY <1>1, <1>2, JoinOf
  <2>2. Len(s \o z) = Len(s) + Len(z)
    BY <1>1, <1>2, JoinOf
  <2> QED
    BY <1>1, <1>2, <2>1, <2>2
<1>4. \A i \in 1..(Len(st) - k) : (s \o z)[i] = st[k + i]
  BY <1>0, <1>1, <1>2
<1>5. \A i \in (Len(st) - k + 1)..(Len(st) - k + b) : (s \o z)[i] = 0
  BY <1>0, <1>1, <1>2
<1> QED
  BY <1>3, <1>4, <1>5 DEF After1, s, z

\* As many calls begin as places in the queue are left.
LEMMA BegunCounts ==
  ASSUME NEW q \in Seq(Calls), \A i, j \in 1..Len(q) : q[i] = q[j] => i = j, NEW b \in 0..Len(q)
  PROVE  IsFiniteSet(Begun(q, b)) /\ Cardinality(Begun(q, b)) = b
<1>1. Len(q) \in Nat /\ b \in Nat /\ 1..b \subseteq 1..Len(q)
  OBVIOUS
<1> DEFINE f == [i \in 1..b |-> q[i]]
<1>2. f \in [1..b -> Begun(q, b)] /\ \A i \in 1..b : f[i] = q[i]
  BY DEF Begun
<1> HIDE DEF f
<1>3. f \in Injection(1..b, Begun(q, b))
  <2>1. \A i, j \in 1..b : f[i] = f[j] => i = j
    BY <1>1, <1>2
  <2> QED
    BY <1>2, <2>1, Fun_IsInj
<1>4. f \in Surjection(1..b, Begun(q, b))
  <2>1. \A c \in Begun(q, b) : \E i \in 1..b : f[i] = c
    BY <1>2 DEF Begun
  <2> QED
    BY <1>2, <2>1, Fun_IsSurj
<1>5. IsFiniteSet(1..b) /\ Cardinality(1..b) = b
  BY <1>1, FS_Interval
<1> QED
  BY <1>3, <1>4, <1>5, FS_Surjection

\* A drain keeps all of it, and leaves nothing waiting for nothing.
LEMMA DrainsKeeps ==
  ASSUME NEW cs, NEW q, NEW r, NEW t, NEW known,
         Limiter(cs, q, r, stamps, t), Drains(q, r, cs, t, known)
  PROVE  Limiter(calls', queue', running', stamps', timer') /\ Moves(queue', running', timer')
<1>1. PICK b \in 0..Len(q), k \in 0..Len(stamps) :
           /\ r + b <= MaxConcurrent /\ Len(stamps) - k + b <= Rpm
           /\ \A i \in 1..k : stamps[i] = Window
           /\ k < Len(stamps) \/ b > 0 \/ k = 0
           /\ queue' = SubSeq(q, b + 1, Len(q)) /\ running' = r + b
           /\ stamps' = After1(stamps, k, b)
           /\ calls' = [c \in Calls |-> IF c \in Begun(q, b)
                                         THEN Asks([cs[c] EXCEPT !.age = 0], 1, 1, known) ELSE cs[c]]
           /\ \/ (b = Len(q) \/ r + b = MaxConcurrent) /\ timer' = t
              \/ /\ Len(stamps) - k + b = Rpm
                 /\ timer' = IF t = Off THEN Window - After1(stamps, k, b)[1] ELSE t
  <2>1. q \in Seq(Calls) /\ r \in 0..MaxConcurrent /\ t \in 0..Off /\ Stamped(stamps)
    BY DEF Limiter, QueueOf, SlotsOf, TimerOf, RateOf
  <2> QED
    BY <2>1, DrainsIs
<1>2. /\ WalksOf(cs) /\ QueueOf(q, cs) /\ SlotsOf(cs, r) /\ RateOf(cs, stamps) /\ TimerOf(t, stamps)
  BY DEF Limiter
<1>3. Len(q) \in Nat /\ b \in Nat /\ Len(stamps) \in Nat /\ k \in Nat /\ r \in Nat
      /\ Window \in Nat \ {0} /\ MaxConcurrent \in Nat /\ Rpm \in Nat \ {0}
  BY <1>2, ClientAssumption DEF QueueOf, RateOf, SlotsOf, Stamped
<1> DEFINE B  == Begun(q, b)
           st == After1(stamps, k, b)
<1>4. B \subseteq Calls /\ \A c \in B : cs[c].at = "queued"
  BY <1>2, <1>3, ElementOf DEF Begun, QueueOf
<1>5. /\ st \in Seq(0..Window) /\ Len(st) = Len(stamps) - k + b
      /\ \A i \in 1..(Len(stamps) - k) : st[i] = stamps[k + i]
      /\ \A i \in (Len(stamps) - k + 1)..(Len(stamps) - k + b) : st[i] = 0
  <2>1. stamps \in Seq(0..Window) /\ k \in 0..Len(stamps) /\ b \in Nat
    BY <1>2, <1>3 DEF RateOf, Stamped
  <2> QED
    BY ONLY <2>1, After1Is DEF st
<1>6. \A i \in 1..Len(stamps) : stamps[i] \in 0..Window
  BY <1>2, ElementOf DEF RateOf, Stamped
<1> HIDE DEF B, st
<1>7. \A c \in Calls \ B : calls'[c] = cs[c]
  BY <1>1 DEF B
<1>8. \A c \in B : calls'[c] \in Call /\ WalkSound(calls'[c]) /\ calls'[c].at = "asking" /\ calls'[c].age = 0
  <2> SUFFICES ASSUME NEW c \in B
               PROVE calls'[c] \in Call /\ WalkSound(calls'[c]) /\ calls'[c].at = "asking" /\ calls'[c].age = 0
    OBVIOUS
  <2>1. calls'[c] = Asks([cs[c] EXCEPT !.age = 0], 1, 1, known)
    BY <1>1, <1>4 DEF B
  <2>2. cs[c] \in Call /\ cs[c].seen = {} /\ cs[c].retired = {} /\ ~cs[c].problem /\ Grown(cs[c])
    BY <1>2, <1>4 DEF WalksOf, WalkSound
  <2> QED
    BY <2>1, <2>2, BeginSound
<1>9. WalksOf(calls')
  <2>1. calls' \in [Calls -> Call]
    <3>1. \A c \in Calls : calls'[c] \in Call
      BY <1>2, <1>7, <1>8 DEF WalksOf
    <3>2. calls' = [c \in Calls |-> calls'[c]]
      BY <1>1
    <3> QED
      BY <3>1, <3>2
  <2>2. \A c \in Calls : WalkSound(calls'[c])
    BY <1>2, <1>7, <1>8 DEF WalksOf
  <2>3. \A c \in Calls : calls'[c].at = "queued" =>
          calls'[c].seen = {} /\ calls'[c].retired = {} /\ ~calls'[c].problem /\ calls'[c].age = Window
    BY <1>2, <1>7, <1>8 DEF WalksOf
  <2> QED
    BY <2>1, <2>2, <2>3 DEF WalksOf
<1>10. QueueOf(queue', calls')
  <2> DEFINE w == SubSeq(q, b + 1, Len(q))
  <2>1. w \in Seq(Calls) /\ Len(w) = Len(q) - b /\ \A i \in 1..(Len(q) - b) : w[i] = q[b + i]
    <3>1. q \in Seq(Calls) /\ \A i \in (b + 1)..Len(q) : q[i] \in Calls
      BY <1>2, <1>3, ElementOf DEF QueueOf
    <3> QED
      BY <1>3, <3>1
  <2> HIDE DEF w
  <2>2. \A i, j \in 1..Len(w) : w[i] = w[j] => i = j
    BY <1>2, <1>3, <2>1 DEF QueueOf
  <2>3. \A i \in 1..Len(w) : w[i] \in Calls \ B /\ cs[w[i]].at = "queued"
    <3> SUFFICES ASSUME NEW i \in 1..Len(w) PROVE w[i] \in Calls \ B /\ cs[w[i]].at = "queued"
      OBVIOUS
    <3>1. w[i] = q[b + i] /\ b + i \in 1..Len(q) /\ b + i \notin 1..b
      BY <1>3, <2>1
    <3>2. w[i] \notin B
      BY <1>2, <1>3, <3>1 DEF QueueOf, B, Begun
    <3> QED
      BY <1>2, <2>1, <3>1, <3>2, ElementOf DEF QueueOf
  <2>4. \A i \in 1..Len(w) : calls'[w[i]].at = "queued"
    BY <1>7, <2>3
  <2>5. queue' = w
    BY <1>1 DEF w
  <2> QED
    BY <2>1, <2>2, <2>4, <2>5 DEF QueueOf
<1>11. SlotsOf(calls', running')
  <2>1. AskingOf(calls') = AskingOf(cs) \cup B /\ AskingOf(cs) \cap B = {}
    BY <1>4, <1>7, <1>8 DEF AskingOf
  <2>2. IsFiniteSet(B) /\ Cardinality(B) = b
    BY <1>2, BegunCounts DEF QueueOf, B
  <2>3. IsFiniteSet(AskingOf(cs)) /\ Cardinality(AskingOf(cs)) = r
    BY <1>2 DEF SlotsOf
  <2>4. Cardinality({}) = 0
    BY FS_EmptySet
  <2>5. /\ IsFiniteSet(AskingOf(cs) \cup B)
        /\ Cardinality(AskingOf(cs) \cup B) = r + b - Cardinality(AskingOf(cs) \cap B)
    BY <2>2, <2>3, FS_Union
  <2>6. running' = r + b /\ r + b \in 0..MaxConcurrent
    BY <1>1, <1>3
  <2>7. IsFiniteSet(AskingOf(calls')) /\ Cardinality(AskingOf(calls')) = r + b
    <3>1. Cardinality(AskingOf(cs) \cap B) = 0
      BY <2>1, <2>4, Zenon
    <3>2. Cardinality(AskingOf(cs) \cup B) = r + b
      BY <1>3, <2>5, <3>1
    <3> QED
      BY <2>1, <2>5, <3>2, Zenon
  <2> QED
    BY <2>6, <2>7 DEF SlotsOf
<1>12. RateOf(calls', stamps')
  <2>1. Stamped(st)
    <3>1. Len(st) <= Rpm
      BY <1>1, <1>5
    <3>2. Sorted(st)
      <4> SUFFICES ASSUME NEW i \in 1..Len(st), NEW j \in 1..Len(st), i <= j PROVE st[j] <= st[i]
        BY DEF Sorted
      <4>1. CASE j <= Len(stamps) - k
        <5>1. st[i] = stamps[k + i] /\ st[j] = stamps[k + j]
          BY <1>3, <1>5, <4>1
        <5>2. k + i \in 1..Len(stamps) /\ k + j \in 1..Len(stamps) /\ k + i <= k + j
          BY <1>3, <1>5, <4>1
        <5> QED
          BY <1>2, <5>1, <5>2 DEF RateOf, Stamped, Sorted
      <4>2. CASE ~(j <= Len(stamps) - k)
        <5>1. st[j] = 0
          BY <1>3, <1>5, <4>2
        <5>2. st[i] \in 0..Window
          BY <1>5, ElementOf
        <5> QED
          BY <1>3, <5>1, <5>2
      <4> QED
        BY <4>1, <4>2
    <3> QED
      BY <1>5, <3>1, <3>2 DEF Stamped
  <2>2. PICK g : Covers(g, cs, stamps)
    BY <1>2 DEF RateOf
  <2>3. Young(calls') = Young(cs) \cup B /\ Young(cs) \cap B = {}
    BY <1>2, <1>3, <1>4, <1>7, <1>8 DEF Young, WalksOf
  <2> DEFINE P(c) == CHOOSE i \in 1..b : q[i] = c
             h == [c \in Young(calls') |-> IF c \in B THEN Len(stamps) - k + P(c) ELSE g[c] - k]
  <2>4. \A c \in B : P(c) \in 1..b /\ q[P(c)] = c
    BY DEF B, Begun
  <2> HIDE DEF P
  <2>5. \A c \in Young(cs) : g[c] \in (k + 1)..Len(stamps) /\ stamps[g[c]] = cs[c].age
    <3> SUFFICES ASSUME NEW c \in Young(cs) PROVE g[c] \in (k + 1)..Len(stamps) /\ stamps[g[c]] = cs[c].age
      OBVIOUS
    <3>1. g[c] \in 1..Len(stamps) /\ stamps[g[c]] = cs[c].age
      BY <2>2 DEF Covers
    <3>2. cs[c].age < Window
      BY DEF Young
    <3>3. g[c] \notin 1..k
      BY SMTT(30), <1>1, <1>3, <3>1, <3>2
    <3> QED
      BY <1>3, <3>1, <3>3
  <2>6. \A c \in B : h[c] = Len(stamps) - k + P(c) /\ h[c] \in (Len(stamps) - k + 1)..Len(st)
    <3>1. \A c \in B : h[c] = Len(stamps) - k + P(c)
      BY <2>3
    <3> HIDE DEF h
    <3> QED
      BY <1>3, <1>5, <2>4, <3>1
  <2>7. \A c \in Young(cs) : h[c] = g[c] - k /\ h[c] \in 1..(Len(stamps) - k)
    <3>1. \A c \in Young(cs) : h[c] = g[c] - k
      BY <2>3
    <3> HIDE DEF h
    <3> QED
      BY <1>3, <2>5, <3>1
  <2>8. h = [c \in Young(calls') |-> h[c]]
    OBVIOUS
  <2> HIDE DEF h
  <2>9. h \in [Young(calls') -> 1..Len(st)]
    <3>1. \A c \in Young(calls') : h[c] \in 1..Len(st)
      BY <1>3, <1>5, <2>3, <2>6, <2>7
    <3> QED
      BY <2>8, <3>1
  <2>10. \A c, d \in Young(calls') : h[c] = h[d] => c = d
    <3> SUFFICES ASSUME NEW c \in Young(calls'), NEW d \in Young(calls'), h[c] = h[d] PROVE c = d
      OBVIOUS
    <3>1. CASE c \in B /\ d \in B
      <4>1. P(c) = P(d)
        BY <1>3, <2>4, <2>6, <3>1
      <4> QED
        BY <2>4, <3>1, <4>1
    <3>2. CASE c \notin B /\ d \notin B
      <4>1. g[c] = g[d]
        BY SMTT(30), <1>3, <2>3, <2>5, <2>7, <3>2
      <4> QED
        BY <2>2, <2>3, <3>2, <4>1 DEF Covers
    <3>3. CASE ~(c \in B <=> d \in B)
      BY <1>3, <1>5, <2>3, <2>6, <2>7, <3>3
    <3> QED
      BY <3>1, <3>2, <3>3
  <2>11. \A c \in Young(calls') : st[h[c]] = calls'[c].age
    <3> SUFFICES ASSUME NEW c \in Young(calls') PROVE st[h[c]] = calls'[c].age
      OBVIOUS
    <3>1. CASE c \in B
      BY <1>3, <1>5, <1>8, <2>6, <3>1
    <3>2. CASE c \notin B
      <4>1. c \in Young(cs) /\ calls'[c] = cs[c]
        BY <1>7, <2>3, <3>2 DEF Young
      <4>2. st[h[c]] = stamps[k + h[c]] /\ k + h[c] = g[c]
        <5>1. h[c] \in 1..(Len(stamps) - k) /\ h[c] = g[c] - k /\ g[c] \in (k + 1)..Len(stamps)
          BY <2>5, <2>7, <4>1
        <5>2. st[h[c]] = stamps[k + h[c]]
          BY <1>5, <5>1
        <5> QED
          BY <1>3, <5>1, <5>2
      <4> QED
        BY <2>5, <4>1, <4>2
    <3> QED
      BY <3>1, <3>2
  <2>12. Covers(h, calls', st)
    BY <2>9, <2>10, <2>11 DEF Covers
  <2> QED
    BY <1>1, <2>1, <2>12 DEF RateOf, st
<1>13. TimerOf(timer', stamps')
  <2>1. stamps' = st
    BY <1>1 DEF st
  <2>2. CASE timer' = t
    <3>1. t \in 0..Off /\ (t # Off => Len(stamps) > 0 /\ t <= Window - stamps[1])
      BY <1>2 DEF TimerOf
    <3>2. ASSUME t # Off PROVE Len(st) > 0 /\ t <= Window - st[1]
      <4>1. Len(st) > 0
        BY SMTT(30), <1>1, <1>3, <1>5, <3>1, <3>2
      <4>2. st[1] \in 0..Window /\ stamps[1] \in 0..Window
        <5>1. 1 \in 1..Len(st) /\ 1 \in 1..Len(stamps)
          BY <1>3, <1>5, <3>1, <3>2, <4>1
        <5>2. st[1] \in 0..Window
          BY <1>5, <5>1, ElementOf
        <5>3. stamps[1] \in 0..Window
          BY <1>6, <5>1
        <5> QED
          BY <5>2, <5>3
      <4>3. CASE k = 0
        <5>1. st[1] = stamps[1]
          BY <1>3, <1>5, <3>1, <3>2, <4>3
        <5> QED
          BY <3>1, <3>2, <4>1, <5>1
      <4>4. CASE k # 0
        <5>1. stamps[1] = Window
          <6>1. 1 \in 1..k
            BY <1>3, <4>4
          <6>2. \A i \in 1..k : stamps[i] = Window
            BY <1>1
          <6> QED
            BY <6>1, <6>2
        <5>2. t = 0
          BY <1>3, <3>1, <3>2, <5>1
        <5> QED
          BY <1>3, <4>1, <4>2, <5>2
      <4> QED
        BY <4>3, <4>4
    <3> QED
      BY <2>1, <2>2, <3>1, <3>2 DEF TimerOf
  <2>3. CASE timer' # t
    <3>1. Len(st) = Rpm /\ timer' = Window - st[1]
      BY <1>1, <1>5, <2>3 DEF st
    <3>2. Len(st) > 0 /\ st[1] \in 0..Window
      BY <1>3, <1>5, <3>1, ElementOf
    <3> QED
      BY <1>3, <2>1, <3>1, <3>2 DEF TimerOf, Off
  <2> QED
    BY <2>2, <2>3
<1>14. Moves(queue', running', timer')
  <2>1. CASE b = Len(q)
    BY <1>1, <1>3, <2>1 DEF Moves
  <2>2. CASE r + b = MaxConcurrent
    BY <1>1, <2>2 DEF Moves
  <2>3. CASE Len(stamps) - k + b = Rpm /\ timer' = IF t = Off THEN Window - st[1] ELSE t
    <3>1. Len(st) > 0 /\ st[1] \in 0..Window
      BY SMTT(30), <1>3, <1>5, <2>3, ElementOf
    <3> QED
      BY <1>3, <2>3, <3>1 DEF Moves, Off
  <2> QED
    BY <1>1, <2>1, <2>2, <2>3 DEF st
<1> QED
  BY <1>9, <1>10, <1>11, <1>12, <1>13, <1>14 DEF Limiter

-----------------------------------------------------------------------------
(* The steps.                                                              *)

Safe ==
  /\ Limiter(calls, queue, running, stamps, timer)
  /\ Moves(queue, running, timer)
  /\ refused \subseteq Models /\ refused \subseteq Strict
  /\ faults \in 0..MaxFaults

LEMMA NewCallIs ==
  ASSUME NEW kind \in Kind
  PROVE  /\ NewCall(kind) \in Call /\ NewCall(kind).at = "queued" /\ NewCall(kind).seen = {}
         /\ NewCall(kind).retired = {} /\ ~NewCall(kind).problem /\ NewCall(kind).age = Window
         /\ WalkSound(NewCall(kind))
<1>1. kind.limit \in 0..MaxLimit /\ kind.wants \in Forms
  BY DEF Kind
<1>2. [key |-> 1, model |-> 1, limit |-> kind.limit, form |-> kind.wants] \in Request
  BY <1>1, ClientAssumption DEF Request, Keys, Models
<1>3. Window \in 0..Window
  BY ClientAssumption
<1> QED
  BY <1>2, <1>3 DEF NewCall, Call, WalkSound, Grown

LEMMA NoCallIs == NoCall \in Call /\ NoCall.at = "away" /\ NoCall.age = Window /\ WalkSound(NoCall)
<1> DEFINE kind == [wants |-> "plain", malformed |-> FALSE, limit |-> 0]
<1>1. kind \in Kind
  BY ClientAssumption DEF Kind, Forms
<1>2. NoCall = [NewCall(kind) EXCEPT !.at = "away"]
  BY DEF NoCall
<1> HIDE DEF kind
<1>3. NewCall(kind) \in Call /\ NewCall(kind).age = Window /\ Grown(NewCall(kind))
  BY <1>1, NewCallIs DEF WalkSound
<1>4. NoCall \in Call /\ NoCall.at = "away" /\ NoCall.age = Window /\ Grown(NoCall)
  BY <1>2, <1>3 DEF Call, Grown
<1> QED
  BY <1>4 DEF WalkSound, Grown

LEMMA InitSafe == Init => Safe
<1> SUFFICES ASSUME Init PROVE Safe
  OBVIOUS
<1>0. ClientAssumption /\ Window \in Nat \ {0} /\ MaxConcurrent \in Nat /\ Rpm \in Nat
  BY ClientAssumption
<1>1. \A c \in Calls : calls[c] \in Call /\ calls[c].at = "away" /\ calls[c].age = Window /\ WalkSound(calls[c])
  BY NoCallIs DEF Init
<1>2. calls \in [Calls -> Call]
  BY NoCallIs DEF Init
<1>3. WalksOf(calls)
  BY <1>1, <1>2 DEF WalksOf
<1>4. QueueOf(queue, calls)
  BY DEF Init, QueueOf
<1>5. SlotsOf(calls, running)
  <2>1. AskingOf(calls) = {}
    BY <1>1 DEF AskingOf
  <2> QED
    BY <1>0, <2>1, FS_EmptySet DEF Init, SlotsOf
<1>6. RateOf(calls, stamps)
  <2>1. Young(calls) = {}
    BY <1>0, <1>1 DEF Young
  <2> DEFINE g == [c \in {} |-> 1]
  <2>2. Covers(g, calls, stamps)
    BY <2>1 DEF Covers
  <2>3. Stamped(stamps)
    BY <1>0 DEF Init, Stamped, Sorted
  <2> QED
    BY <2>2, <2>3 DEF RateOf
<1>7. TimerOf(timer, stamps) /\ Moves(queue, running, timer)
  BY <1>0 DEF Init, TimerOf, Moves, Off
<1> QED
  BY <1>0, <1>3, <1>4, <1>5, <1>6, <1>7 DEF Safe, Limiter, Init

LEMMA CallKeeps ==
  ASSUME Safe, NEW c \in Calls, NEW kind \in Asked[c], CallGemini(c, kind) PROVE Safe'
<1> DEFINE cs == [calls EXCEPT ![c] = NewCall(kind)]
           q  == Append(queue, c)
<1>1. /\ WalksOf(calls) /\ QueueOf(queue, calls) /\ SlotsOf(calls, running)
      /\ RateOf(calls, stamps) /\ TimerOf(timer, stamps)
  BY DEF Safe, Limiter
<1>2. kind \in Kind
  BY ClientAssumption
<1>3. calls \in [Calls -> Call] /\ calls[c].at = "away"
  BY <1>1 DEF WalksOf, CallGemini
<1>4. cs[c] = NewCall(kind) /\ \A d \in Calls \ {c} : cs[d] = calls[d]
  BY <1>3
<1>5. cs \in [Calls -> Call]
  BY <1>2, <1>3, NewCallIs
<1> HIDE DEF cs
<1>6. WalksOf(cs)
  BY <1>1, <1>2, <1>4, <1>5, NewCallIs DEF WalksOf
<1>7. QueueOf(q, cs)
  <2>1. q \in Seq(Calls) /\ Len(q) = Len(queue) + 1 /\ q[Len(queue) + 1] = c /\ \A i \in 1..Len(queue) : q[i] = queue[i]
    BY <1>1 DEF QueueOf
  <2>2. \A i \in 1..Len(queue) : queue[i] \in Calls \ {c} /\ calls[queue[i]].at = "queued"
    BY <1>1, <1>3, ElementOf DEF QueueOf
  <2> HIDE DEF q
  <2>3. Len(queue) \in Nat /\ \A i, j \in 1..Len(queue) : queue[i] = queue[j] => i = j
    BY <1>1 DEF QueueOf
  <2>4. \A i \in 1..Len(q) : i \in 1..Len(queue) \/ i = Len(queue) + 1
    BY <2>1, <2>3
  <2>5. \A i, j \in 1..Len(q) : q[i] = q[j] => i = j
    BY <2>1, <2>2, <2>3, <2>4
  <2>6. \A i \in 1..Len(q) : cs[q[i]].at = "queued"
    BY <1>2, <1>4, <2>1, <2>2, <2>4, NewCallIs
  <2> QED
    BY <2>1, <2>5, <2>6 DEF QueueOf
<1>8. SlotsOf(cs, running)
  <2>1. AskingOf(cs) = AskingOf(calls)
    BY <1>2, <1>3, <1>4, NewCallIs DEF AskingOf
  <2> QED
    BY <1>1, <2>1 DEF SlotsOf
<1>9. RateOf(cs, stamps)
  <2>1. PICK g : Covers(g, calls, stamps)
    BY <1>1 DEF RateOf
  <2>2. Young(cs) = Young(calls) \ {c}
    BY <1>2, <1>4, NewCallIs, ClientAssumption DEF Young
  <2> DEFINE h == [d \in Young(cs) |-> g[d]]
  <2>3. Covers(h, cs, stamps)
    <3>1. \A d \in Young(cs) : d \in Young(calls) /\ cs[d] = calls[d] /\ h[d] = g[d]
      BY <1>4, <2>2 DEF Young
    <3>2. h \in [Young(cs) -> 1..Len(stamps)]
      BY <2>1, <2>2 DEF Covers
    <3> HIDE DEF h
    <3> QED
      BY <2>1, <3>1, <3>2 DEF Covers
  <2> QED
    BY <1>1, <2>3 DEF RateOf
<1>10. Limiter(cs, q, running, stamps, timer)
  BY <1>1, <1>6, <1>7, <1>8, <1>9 DEF Limiter
<1>11. Drains(q, running, cs, timer, refused) /\ refused' = refused /\ faults' = faults
  BY DEF CallGemini, cs
<1> HIDE DEF q
<1>12. Limiter(calls', queue', running', stamps', timer') /\ Moves(queue', running', timer')
  BY <1>10, <1>11, DrainsKeeps
<1> QED
  BY <1>11, <1>12 DEF Safe

LEMMA TimerKeeps == ASSUME Safe, TimerFires PROVE Safe'
<1>1. Limiter(calls, queue, running, stamps, Off)
  <2>1. TimerOf(Off, stamps)
    BY ClientAssumption DEF TimerOf, Off
  <2> QED
    BY <2>1 DEF Safe, Limiter
<1>2. Drains(queue, running, calls, Off, refused) /\ refused' = refused /\ faults' = faults
  BY DEF TimerFires
<1>3. Limiter(calls', queue', running', stamps', timer') /\ Moves(queue', running', timer')
  BY <1>1, <1>2, DrainsKeeps
<1> QED
  BY <1>2, <1>3 DEF Safe

\* What an answer makes of its call, before the queue is drained.
LEMMA AnswerKeeps ==
  ASSUME Limiter(calls, queue, running, stamps, timer), NEW c \in Calls, calls[c].at = "asking",
         NEW next, Moved(calls[c], next), NEW cs, cs = [calls EXCEPT ![c] = next]
  PROVE  Limiter(cs, queue, IF Ended(next) THEN running - 1 ELSE running, stamps, timer)
<1>1. /\ WalksOf(calls) /\ QueueOf(queue, calls) /\ SlotsOf(calls, running)
      /\ RateOf(calls, stamps) /\ TimerOf(timer, stamps)
  BY DEF Limiter
<1>2. calls \in [Calls -> Call]
  BY <1>1 DEF WalksOf
<1>3. next \in Call /\ WalkSound(next) /\ next.at \in {"asking", "returned", "failed"} /\ next.age = calls[c].age
  BY DEF Moved
<1>4. cs \in [Calls -> Call] /\ cs[c] = next /\ \A d \in Calls \ {c} : cs[d] = calls[d]
  BY <1>2, <1>3
<1>5. WalksOf(cs)
  BY <1>1, <1>3, <1>4 DEF WalksOf
<1>6. QueueOf(queue, cs)
  <2>1. \A i \in 1..Len(queue) : queue[i] \in Calls \ {c} /\ calls[queue[i]].at = "queued"
    BY <1>1, ElementOf DEF QueueOf
  <2>2. \A i \in 1..Len(queue) : cs[queue[i]].at = "queued"
    BY <1>4, <2>1
  <2> QED
    BY <1>1, <2>2 DEF QueueOf
<1>7. SlotsOf(cs, IF Ended(next) THEN running - 1 ELSE running)
  <2>1. CASE Ended(next)
    <3>1. AskingOf(cs) = AskingOf(calls) \ {c} /\ c \in AskingOf(calls)
      BY <1>4, <2>1 DEF AskingOf, Ended
    <3>2. IsFiniteSet(AskingOf(calls)) /\ Cardinality(AskingOf(calls)) = running /\ running \in 0..MaxConcurrent
      BY <1>1 DEF SlotsOf
    <3>3. IsFiniteSet(AskingOf(calls) \ {c}) /\ Cardinality(AskingOf(calls) \ {c}) = running - 1
      BY <3>1, <3>2, FS_RemoveElement
    <3>4. running - 1 \in 0..MaxConcurrent
      <4>1. Cardinality(AskingOf(calls) \ {c}) \in Nat
        BY <3>3, FS_CardinalityType
      <4> QED
        BY <3>2, <3>3, <4>1, ClientAssumption
    <3>5. IsFiniteSet(AskingOf(cs)) /\ Cardinality(AskingOf(cs)) = running - 1
      BY <3>1, <3>3, Zenon
    <3> QED
      BY <2>1, <3>4, <3>5 DEF SlotsOf
  <2>2. CASE ~Ended(next)
    <3>1. AskingOf(cs) = AskingOf(calls)
      BY <1>3, <1>4, <2>2 DEF AskingOf, Ended
    <3> QED
      BY <1>1, <2>2, <3>1 DEF SlotsOf
  <2> QED
    BY <2>1, <2>2
<1>8. RateOf(cs, stamps)
  <2>1. Young(cs) = Young(calls) /\ \A d \in Calls : cs[d].age = calls[d].age
    BY <1>3, <1>4 DEF Young
  <2>2. PICK g : Covers(g, calls, stamps)
    BY <1>1 DEF RateOf
  <2>3. Covers(g, cs, stamps)
    BY <2>1, <2>2 DEF Covers, Young
  <2> QED
    BY <1>1, <2>3 DEF RateOf
<1> QED
  BY <1>1, <1>5, <1>6, <1>7, <1>8 DEF Limiter

LEMMA AnsweredKeeps ==
  ASSUME Safe, NEW c \in Calls, NEW got \in Outcomes, Answered(c, got) PROVE Safe'
<1> DEFINE known == refused \cup (IF SchemaRefused(calls[c], got) THEN {calls[c].req.model} ELSE {})
           next  == After(calls[c], got, known)
           cs    == [calls EXCEPT ![c] = next]
<1>1. /\ calls[c].at = "asking" /\ MayGet(calls[c], got) /\ Costs(got) /\ refused' = known
      /\ IF Ended(next) THEN Drains(queue, running - 1, cs, timer, known)
         ELSE calls' = cs /\ UNCHANGED <<queue, stamps, running, timer>>
  BY DEF Answered
<1>2. Limiter(calls, queue, running, stamps, timer) /\ Moves(queue, running, timer)
  BY DEF Safe
<1>3. calls[c] \in Call /\ WalkSound(calls[c])
  BY <1>2 DEF Limiter, WalksOf
<1>4. refused' \subseteq Models /\ refused' \subseteq Strict
  <2>1. calls[c].req.model \in Models
    BY <1>3 DEF Call, Request
  <2>2. SchemaRefused(calls[c], got) => calls[c].req.model \in Strict
    BY <1>1, <1>3 DEF SchemaRefused, WalkSound, MayGet
  <2> QED
    BY <1>1, <2>1, <2>2 DEF Safe
<1> HIDE DEF known
<1>5. Moved(calls[c], next)
  BY <1>1, <1>3, AfterSound
<1> HIDE DEF next
<1>6. Limiter(cs, queue, IF Ended(next) THEN running - 1 ELSE running, stamps, timer)
  BY <1>1, <1>2, <1>5, AnswerKeeps
<1> HIDE DEF cs
<1>7. Limiter(calls', queue', running', stamps', timer') /\ Moves(queue', running', timer')
  <2>1. CASE Ended(next)
    <3>1. Drains(queue, running - 1, cs, timer, known) /\ Limiter(cs, queue, running - 1, stamps, timer)
      BY <1>1, <1>6, <2>1
    <3> QED
      BY <3>1, DrainsKeeps
  <2>2. CASE ~Ended(next)
    BY <1>1, <1>2, <1>6, <2>2
  <2> QED
    BY <2>1, <2>2
<1>8. faults' \in 0..MaxFaults
  BY <1>1, ClientAssumption DEF Safe, Costs
<1> QED
  BY <1>4, <1>7, <1>8 DEF Safe

LEMMA OlderIs ==
  /\ \A a \in 0..Window : Older(a) \in 0..Window /\ a <= Older(a) /\ (a = Window => Older(a) = Window)
  /\ \A a, b \in 0..Window : a <= b => Older(a) <= Older(b)
BY ClientAssumption DEF Older

LEMMA AgedIs ==
  ASSUME NEW call \in Call, WalkSound(call)
  PROVE  /\ Aged(call) \in Call /\ WalkSound(Aged(call))
         /\ Aged(call).age < Window => call.age < Window /\ Aged(call).age = Older(call.age)
         /\ ~Ended(call) => /\ Aged(call).at = call.at /\ Aged(call).seen = call.seen /\ Aged(call).retired = call.retired
                            /\ Aged(call).problem = call.problem /\ Aged(call).age = Older(call.age)
         /\ Ended(call) => Aged(call).at \notin {"asking", "queued"}
<1> DEFINE next == [call EXCEPT !.age = Older(call.age)]
<1>1. call.age \in 0..Window /\ Older(call.age) \in 0..Window /\ call.age <= Older(call.age)
  BY OlderIs DEF Call
<1>2. /\ next \in Call /\ next.at = call.at /\ next.seen = call.seen /\ next.retired = call.retired
      /\ next.problem = call.problem /\ next.age = Older(call.age) /\ next.req = call.req
      /\ next.kind = call.kind /\ next.enlarged = call.enlarged /\ next.fallback = call.fallback
  BY <1>1 DEF Call
<1>3. Aged(call) = IF Ended(call) /\ Older(call.age) = Window THEN NoCall ELSE next
  BY DEF Aged
<1> HIDE DEF next
<1>4. WalkSound(next)
  BY <1>2 DEF WalkSound, HasReason, Behind, Retired, Grown
<1>5. CASE Ended(call) /\ Older(call.age) = Window
  BY <1>3, <1>5, NoCallIs, ClientAssumption
<1>6. CASE ~(Ended(call) /\ Older(call.age) = Window)
  <2>1. Aged(call) = next
    BY <1>3, <1>6
  <2>2. next.age < Window => call.age < Window
    BY <1>1, <1>2, ClientAssumption
  <2> QED
    BY <1>2, <1>4, <2>1, <2>2 DEF Ended
<1> QED
  BY <1>5, <1>6

LEMMA TickKeeps == ASSUME Safe, Tick PROVE Safe'
<1>1. /\ WalksOf(calls) /\ QueueOf(queue, calls) /\ SlotsOf(calls, running)
      /\ RateOf(calls, stamps) /\ TimerOf(timer, stamps) /\ Moves(queue, running, timer)
  BY DEF Safe, Limiter
<1>2. /\ stamps' = [i \in DOMAIN stamps |-> Older(stamps[i])] /\ calls' = [c \in Calls |-> Aged(calls[c])]
      /\ timer' = IF timer \in 1..Window THEN timer - 1 ELSE timer
      /\ queue' = queue /\ running' = running /\ refused' = refused /\ faults' = faults
  BY DEF Tick
<1>3. Window \in Nat \ {0} /\ stamps \in Seq(0..Window) /\ Len(stamps) \in Nat /\ DOMAIN stamps = 1..Len(stamps)
  BY <1>1, ClientAssumption DEF RateOf, Stamped
<1>4. \A c \in Calls : calls[c] \in Call /\ WalkSound(calls[c]) /\ calls'[c] = Aged(calls[c])
  BY <1>1, <1>2 DEF WalksOf
<1>5. WalksOf(calls')
  <2>1. calls' \in [Calls -> Call]
    BY <1>2, <1>4, AgedIs
  <2>2. \A c \in Calls : WalkSound(calls'[c])
    BY <1>4, AgedIs
  <2>3. ASSUME NEW c \in Calls, calls'[c].at = "queued"
        PROVE calls'[c].seen = {} /\ calls'[c].retired = {} /\ ~calls'[c].problem /\ calls'[c].age = Window
    <3>1. ~Ended(calls[c])
      BY <1>4, <2>3, AgedIs
    <3>2. calls[c].at = "queued"
      BY <1>4, <2>3, <3>1, AgedIs
    <3>3. calls[c].seen = {} /\ calls[c].retired = {} /\ ~calls[c].problem /\ calls[c].age = Window
      BY <1>1, <3>2 DEF WalksOf
    <3>4. Window \in 0..Window
      BY <1>3
    <3>5. Older(calls[c].age) = Window
      BY <3>3, <3>4, OlderIs
    <3> QED
      BY <1>4, <3>1, <3>3, <3>5, AgedIs
  <2> QED
    BY <2>1, <2>2, <2>3 DEF WalksOf
<1>6. QueueOf(queue', calls')
  <2>1. \A i \in 1..Len(queue) : queue[i] \in Calls /\ calls[queue[i]].at = "queued"
    BY <1>1, ElementOf DEF QueueOf
  <2>2. \A i \in 1..Len(queue) : calls'[queue[i]].at = "queued"
    BY <1>4, <2>1, AgedIs DEF Ended
  <2> QED
    BY <1>1, <1>2, <2>2 DEF QueueOf
<1>7. SlotsOf(calls', running')
  <2>1. AskingOf(calls') = AskingOf(calls)
    BY <1>4, AgedIs DEF AskingOf, Ended
  <2> QED
    BY <1>1, <1>2, <2>1 DEF SlotsOf
<1>8. \A i \in 1..Len(stamps) : stamps[i] \in 0..Window /\ stamps'[i] = Older(stamps[i])
  BY <1>2, <1>3, ElementOf
<1>9. stamps' \in Seq(0..Window) /\ Len(stamps') = Len(stamps)
  <2>1. \A i \in 1..Len(stamps) : Older(stamps[i]) \in 0..Window
    BY <1>8, OlderIs
  <2>2. stamps' \in [1..Len(stamps) -> 0..Window]
    BY <1>2, <1>3, <2>1
  <2> QED
    BY <1>3, <2>2
<1>10. RateOf(calls', stamps')
  <2>1. PICK g : Covers(g, calls, stamps)
    BY <1>1 DEF RateOf
  <2>2. \A c \in Young(calls') : c \in Young(calls) /\ calls'[c].age = Older(calls[c].age)
    BY <1>4, AgedIs DEF Young
  <2> DEFINE h == [c \in Young(calls') |-> g[c]]
  <2>3. h \in [Young(calls') -> 1..Len(stamps')]
    BY <1>9, <2>1, <2>2 DEF Covers
  <2>4. \A c \in Young(calls') : h[c] = g[c]
    OBVIOUS
  <2> HIDE DEF h
  <2>5. \A c, d \in Young(calls') : h[c] = h[d] => c = d
    BY <2>1, <2>2, <2>4 DEF Covers
  <2>6. \A c \in Young(calls') : stamps'[h[c]] = calls'[c].age
    BY <1>8, <2>1, <2>2, <2>4 DEF Covers
  <2>7. Covers(h, calls', stamps')
    BY <2>3, <2>5, <2>6 DEF Covers
  <2>8. Sorted(stamps')
    BY <1>1, <1>8, <1>9, OlderIs DEF RateOf, Stamped, Sorted
  <2>9. Stamped(stamps')
    BY <1>1, <1>9, <2>8 DEF RateOf, Stamped
  <2> QED
    BY <2>7, <2>9 DEF RateOf
<1>11. TimerOf(timer', stamps') /\ Moves(queue', running', timer')
  <2>1. timer \in 0..Off /\ (timer # Off => Len(stamps) > 0 /\ timer <= Window - stamps[1])
    BY <1>1 DEF TimerOf
  <2>2. timer' \in 0..Off /\ (timer' # Off <=> timer # Off)
    BY <1>2, <1>3, <2>1 DEF Off
  <2>3. ASSUME timer' # Off PROVE Len(stamps') > 0 /\ timer' <= Window - stamps'[1]
    <3>1. stamps[1] \in 0..Window /\ stamps'[1] = Older(stamps[1]) /\ Len(stamps) > 0 /\ timer <= Window - stamps[1]
      BY <1>3, <1>8, <2>1, <2>2, <2>3
    <3> QED
      BY <1>2, <1>3, <1>9, <2>1, <2>2, <2>3, <3>1 DEF Older, Off
  <2>4. TimerOf(timer', stamps')
    BY <2>2, <2>3 DEF TimerOf
  <2>5. Moves(queue', running', timer')
    BY <1>1, <1>2, <2>2 DEF Moves
  <2> QED
    BY <2>4, <2>5
<1> QED
  BY <1>2, <1>5, <1>6, <1>7, <1>10, <1>11 DEF Safe, Limiter

LEMMA NextSafe == Safe /\ [Next]_vars => Safe'
<1> SUFFICES ASSUME Safe, [Next]_vars PROVE Safe'
  OBVIOUS
<1>1. ASSUME NEW c \in Calls, Replied(c) PROVE Safe'
  BY <1>1, AnsweredKeeps DEF Replied
<1>2. ASSUME NEW c \in Calls, NEW kind \in Asked[c], CallGemini(c, kind) PROVE Safe'
  BY <1>2, CallKeeps
<1>3. ASSUME NEW m \in Models, RefusalExpires(m) PROVE Safe'
  BY <1>3 DEF RefusalExpires, Safe
<1>4. ASSUME UNCHANGED vars PROVE Safe'
  BY <1>4 DEF vars, Safe
<1> QED
  BY <1>1, <1>2, <1>3, <1>4, TimerKeeps, TickKeeps DEF Next

LEMMA SafeHolds == Spec => []Safe
BY InitSafe, NextSafe, PTL DEF Spec

-----------------------------------------------------------------------------
(* The theorems.                                                           *)

\* Types, for any constants; in particular `running` counts the calls that
\* hold a slot, whichever way each of them ends (gemini-client.js:121).
THEOREM TypesHold == Spec => []TypeOK
<1>1. Safe => TypeOK
  <2> SUFFICES ASSUME Safe PROVE TypeOK
    OBVIOUS
  <2>1. AskingOf(calls) = Asking
    BY DEF AskingOf, Asking
  <2>2. calls \in [Calls -> Call] /\ queue \in Seq(Calls) /\ stamps \in Seq(0..Window) /\ timer \in 0..Off
    BY DEF Safe, Limiter, WalksOf, QueueOf, RateOf, Stamped, TimerOf
  <2>3. running = Cardinality(Asking)
    BY <2>1 DEF Safe, Limiter, SlotsOf
  <2> QED
    BY <2>2, <2>3 DEF Safe, TypeOK
<1> QED
  BY <1>1, SafeHolds, PTL

\* At most MAX_CONCURRENT calls at a time, and RPM begun in any window, for any
\* limits and any number of calls (gemini-client.js:102).
THEOREM LimitsHold == Spec => []LimitsKept
<1>1. Safe => LimitsKept
  <2> SUFFICES ASSUME Safe PROVE LimitsKept
    OBVIOUS
  <2>1. Cardinality(Asking) <= MaxConcurrent
    <3>1. AskingOf(calls) = Asking
      BY DEF AskingOf, Asking
    <3>2. running = Cardinality(AskingOf(calls)) /\ running \in 0..MaxConcurrent
      BY DEF Safe, Limiter, SlotsOf
    <3> QED
      BY <3>1, <3>2, ClientAssumption
  <2>2. Cardinality(Young(calls)) <= Rpm
    <3>1. PICK g : Covers(g, calls, stamps)
      BY DEF Safe, Limiter, RateOf
    <3>2. Len(stamps) \in Nat /\ Len(stamps) <= Rpm
      BY DEF Safe, Limiter, RateOf, Stamped
    <3>3. g \in Injection(Young(calls), 1..Len(stamps))
      BY <3>1, Fun_IsInj DEF Covers
    <3>4. IsFiniteSet(1..Len(stamps)) /\ Cardinality(1..Len(stamps)) = Len(stamps)
      <4> DEFINE n == Len(stamps)
      <4>1. n \in Nat
        BY <3>2
      <4> HIDE DEF n
      <4>2. IsFiniteSet(1..n) /\ Cardinality(1..n) = n
        BY <4>1, FS_Interval
      <4> QED
        BY <4>2 DEF n
    <3>5. Cardinality(Young(calls)) <= Len(stamps) /\ IsFiniteSet(Young(calls))
      BY <3>3, <3>4, FS_Injection
    <3>6. Cardinality(Young(calls)) \in Nat
      BY <3>5, FS_CardinalityType
    <3> QED
      BY <3>2, <3>5, <3>6, ClientAssumption
  <2> QED
    BY <2>1, <2>2 DEF LimitsKept, Young
<1> QED
  BY <1>1, SafeHolds, PTL

\* No call fails while a key and a model are left that it has no reason not to
\* ask, for any keys, models and faults (gemini-client.js:288-333).
THEOREM FailuresHaveReasons == Spec => []FailsForAReason
<1>1. Safe => FailsForAReason
  BY DEF Safe, Limiter, WalksOf, WalkSound, FailsForAReason
<1> QED
  BY <1>1, SafeHolds, PTL

\* No request is sent twice by one call, for any keys, models and sizes
\* (gemini-client.js:262).
THEOREM NothingRepeated == Spec => []NeverRepeated
<1>1. Safe => NeverRepeated
  <2> SUFFICES ASSUME Safe, NEW c \in Asking, NEW s \in calls[c].seen PROVE s.req # calls[c].req
    BY DEF NeverRepeated
  <2>1. calls[c] \in Call /\ Before(s.req, calls[c].req)
    BY DEF Safe, Limiter, WalksOf, WalkSound, Asking
  <2> QED
    BY <2>1 DEF Before, Call, Request, Keys, Models
<1> QED
  BY <1>1, SafeHolds, PTL

\* What is held against a model is a schema it does not take, whatever
\* malformed calls there are (gemini-client.js:210).
THEOREM RefusalsHold == Spec => []RefusedIsRefused
<1>1. Safe => RefusedIsRefused
  BY DEF Safe, RefusedIsRefused
<1> QED
  BY <1>1, SafeHolds, PTL

\* Where calls wait, every slot is taken or a timer is set that rings in time,
\* for any limits (gemini-client.js:109).
THEOREM QueueAlwaysMoves == Spec => []QueueMoves
<1>1. Safe => QueueMoves
  <2> SUFFICES ASSUME Safe, queue # <<>>, running # MaxConcurrent PROVE stamps # <<>> /\ timer <= Window - stamps[1]
    BY DEF QueueMoves
  <2>1. Len(queue) # 0
    BY DEF Safe, Limiter, QueueOf
  <2>2. timer # Off
    BY <2>1 DEF Safe, Moves
  <2>3. Len(stamps) > 0 /\ timer <= Window - stamps[1]
    BY <2>2 DEF Safe, Limiter, TimerOf
  <2> QED
    BY <2>3
<1> QED
  BY <1>1, SafeHolds, PTL

=============================================================================
