------------------------ MODULE XeroConnectionProofs ------------------------
(***************************************************************************)
(* The tokens of a connection, the work its calls share and the list of    *)
(* its organisations: for any number of calls, organisations, consents,    *)
(* requests and restarts.                                                  *)
(***************************************************************************)
EXTENDS XeroConnection, WellFoundedInduction, TLAPS

\* The types that what is shared and the tokens rely on: all of TypeOK but the
\* organisations and the histories.
Configs  == [type : {"", "oauth"}, token : Token, app : Apps]
Healths  == [needs : BOOLEAN, of : Fingerprint \cup {NoPrint}]
Types ==
  /\ config \in Configs
  /\ health \in Healths
  /\ posts \in Seq(Post)
  /\ refreshing \in 0..Len(posts)
  /\ consents \in 0..MaxGrants
  /\ live \in [Grants -> Nat]
  /\ calls \in [Calls -> Call]
  /\ reconnecting \in Calls \cup {NoCall} /\ renewing \in Calls \cup {NoCall}

-----------------------------------------------------------------------------
(* Calls and tokens.                                                       *)

LEMMA TokenTypes ==
  /\ NoToken \in Token /\ Idle \in Call
  /\ \A tok \in Token : Successor(tok) \in Token /\ tok = <<tok[1], tok[2]>> /\ tok[1] \in 0..MaxGrants /\ tok[2] \in Nat
<1>1. 0 \in 0..MaxGrants
  BY BoundsAssumption
<1>2. NoToken \in Token
  BY <1>1 DEF NoToken, Token
<1>3. Idle \in Call
  BY <1>2 DEF Idle, Call
<1>4. ASSUME NEW tok \in Token
      PROVE  Successor(tok) \in Token /\ tok = <<tok[1], tok[2]>> /\ tok[1] \in 0..MaxGrants /\ tok[2] \in Nat
  BY DEF Token, Successor
<1> QED
  BY <1>2, <1>3, <1>4

LEMMA RevokingType ==
  ASSUME NEW tok \in Token
  PROVE  /\ Revoking(tok) \in Call
         /\ Revoking(tok).pc \in {"revoke", "revoked"} /\ Revoking(tok).on = 0
  BY TokenTypes DEF Revoking, Idle, Call

\* Where a call is after some calls ended.
LEMMA EndedIs ==
  ASSUME NEW cs \in [Calls -> Call], NEW S \in SUBSET Calls
  PROVE  /\ Ended(cs, S) \in [Calls -> Call]
         /\ \A c \in Calls : /\ c \in S \cup Followers(S) => Ended(cs, S)[c] = Idle
                             /\ c \notin S \cup Followers(S) => Ended(cs, S)[c] = cs[c]
  BY TokenTypes DEF Ended

LEMMA ReleasedType ==
  ASSUME Types, NEW S \in SUBSET Calls, Released(S)
  PROVE  reconnecting' \in Calls \cup {NoCall} /\ renewing' \in Calls \cup {NoCall}
  BY DEF Types, Released

LEMMA TypeFacts ==
  ASSUME Types
  PROVE  /\ config.token \in Token /\ config.app \in Apps /\ OnFile \in Fingerprint
         /\ Len(posts) \in Nat /\ refreshing \in Nat
         /\ refreshing # 0 => refreshing \in DOMAIN posts
         /\ \A p \in DOMAIN posts : /\ posts[p].tok \in Token /\ posts[p].app \in Apps
                                    /\ posts[p] \in Post /\ Sent(p) \in Fingerprint
         /\ \A c \in Calls : calls[c] \in Call /\ calls[c].tok \in Token
<1>1. config.token \in Token /\ config.app \in Apps /\ OnFile \in Fingerprint
  BY DEF Types, Configs, OnFile, Fingerprint
<1>2. Len(posts) \in Nat /\ DOMAIN posts = 1..Len(posts) /\ \A p \in DOMAIN posts : posts[p] \in Post
  BY DEF Types
<1>3. refreshing \in Nat /\ (refreshing # 0 => refreshing \in DOMAIN posts)
  BY <1>2 DEF Types
<1>4. \A p \in DOMAIN posts : /\ posts[p].tok \in Token /\ posts[p].app \in Apps
                                /\ posts[p] \in Post /\ Sent(p) \in Fingerprint
  BY <1>2 DEF Post, Sent, Fingerprint
<1>5. \A c \in Calls : calls[c] \in Call /\ calls[c].tok \in Token
  BY DEF Types, Call
<1> QED
  BY <1>1, <1>2, <1>3, <1>4, <1>5

-----------------------------------------------------------------------------
(* What each kind of step does to what the invariants are about.           *)

tokens == <<config, health, posts, refreshing, consents, live, barred, excuse>>
shared == <<refreshing, posts, reconnecting, renewing, calls>>

\* A call c, idle before, waits for the request under way.
Joins(c, op) ==
  /\ refreshing # 0
  /\ calls' = [calls EXCEPT ![c] = [Idle EXCEPT !.pc = "refresh", !.op = op, !.on = refreshing]]
  /\ UNCHANGED tokens

\* A call c, idle before, makes a request with the token on file.
Makes(c, op) ==
  /\ refreshing = 0 /\ config.token # NoToken
  /\ calls' = [calls EXCEPT ![c] = [Idle EXCEPT !.pc = "refresh", !.op = op, !.on = Len(posts) + 1]]
  /\ refreshing' = Len(posts) + 1
  /\ posts' = Append(posts, [app |-> config.app, tok |-> config.token, st |-> "sent"])
  /\ UNCHANGED <<config, health, consents, live, barred, excuse>>

LEMMA RefreshIs ==
  ASSUME NEW c \in Calls, NEW op \in {"cold", "renew", "direct"}, NEW force \in BOOLEAN,
         Refresh(c, op, force), Starts
  PROVE  Joins(c, op) \/ Makes(c, op)
  BY DEF Refresh, MayRefresh, AwaitRefresh, Starts, Joins, Makes, tokens

\* A call that joins another's, or becomes one that leads.
Followed(c, op) ==
  /\ calls' = [calls EXCEPT ![c] = [Idle EXCEPT !.pc = "joined", !.op = op]]
  /\ UNCHANGED <<reconnecting, renewing>> /\ UNCHANGED tokens

LEMMA BeginIs ==
  ASSUME NEW c \in Calls, Begin(c)
  PROVE  /\ calls[c] = Idle
         /\ \/ reconnecting # NoCall /\ Followed(c, "cold")
            \/ renewing # NoCall /\ Followed(c, "renew")
            \/ reconnecting = NoCall /\ reconnecting' = c /\ UNCHANGED renewing /\ (Joins(c, "cold") \/ Makes(c, "cold"))
            \/ renewing = NoCall /\ renewing' = c /\ UNCHANGED reconnecting /\ (Joins(c, "renew") \/ Makes(c, "renew"))
            \/ UNCHANGED <<reconnecting, renewing>> /\ (Joins(c, "direct") \/ Makes(c, "direct"))
            \/ Complete(c) \/ Disconnect(c)
<1>1. CASE ColdRead(c)
  <2>1. CASE reconnecting # NoCall
    BY <1>1, <2>1 DEF ColdRead, Followed, Starts, tokens
  <2>2. CASE reconnecting = NoCall
    <3>1. Refresh(c, "cold", FALSE) /\ Starts /\ reconnecting' = c /\ UNCHANGED renewing /\ calls[c] = Idle
      BY <1>1, <2>2 DEF ColdRead
    <3>2. Joins(c, "cold") \/ Makes(c, "cold")
      BY <3>1, RefreshIs
    <3> QED
      BY <2>2, <3>1, <3>2
  <2> QED
    BY <2>1, <2>2
<1>2. CASE ExpiredRead(c)
  <2>1. CASE renewing # NoCall
    BY <1>2, <2>1 DEF ExpiredRead, Followed, Starts, tokens
  <2>2. CASE renewing = NoCall
    <3>1. Refresh(c, "renew", FALSE) /\ Starts /\ renewing' = c /\ UNCHANGED reconnecting /\ calls[c] = Idle
      BY <1>2, <2>2 DEF ExpiredRead
    <3>2. Joins(c, "renew") \/ Makes(c, "renew")
      BY <3>1, RefreshIs
    <3> QED
      BY <2>2, <3>1, <3>2
  <2> QED
    BY <2>1, <2>2
<1>3. CASE Reconnect(c) \/ KeepAlive(c)
  <2>1. PICK force \in BOOLEAN : Refresh(c, "direct", force)
    BY <1>3 DEF Reconnect, KeepAlive
  <2>2. Starts /\ UNCHANGED <<reconnecting, renewing>> /\ calls[c] = Idle
    BY <1>3 DEF Reconnect, KeepAlive
  <2>3. Joins(c, "direct") \/ Makes(c, "direct")
    BY <2>1, <2>2, RefreshIs
  <2> QED
    BY <2>2, <2>3
<1>4. CASE Complete(c) \/ Disconnect(c)
  BY <1>4 DEF Complete, Disconnect
<1> QED
  BY <1>1, <1>2, <1>3, <1>4 DEF Begin

-----------------------------------------------------------------------------
(* Types.                                                                  *)

LEMMA TypesInit == Init => Types
<1> SUFFICES ASSUME Init PROVE Types
  OBVIOUS
<1>1. config \in Configs
  BY TokenTypes DEF Init, Configs
<1>2. health \in Healths
  BY TokenTypes DEF Init, Healths, Sound
<1>3. posts \in Seq(Post) /\ refreshing \in 0..Len(posts)
  <2>1. posts = <<>> /\ refreshing = 0
    BY DEF Init
  <2> QED
    BY <2>1
<1>4. consents \in 0..MaxGrants /\ live \in [Grants -> Nat]
  <2>1. consents = 0 /\ live = [g \in Grants |-> 0]
    BY DEF Init
  <2> QED
    BY <2>1, BoundsAssumption
<1>5. calls \in [Calls -> Call]
  BY TokenTypes DEF Init
<1> QED
  BY <1>1, <1>2, <1>3, <1>4, <1>5 DEF Init, Types

LEMMA JoinsTypes ==
  ASSUME Types, NEW c \in Calls, NEW op \in {"cold", "renew", "direct"}, Joins(c, op) \/ Makes(c, op),
         reconnecting' \in Calls \cup {NoCall}, renewing' \in Calls \cup {NoCall}
  PROVE  Types'
<1>1. \A n \in Nat : [Idle EXCEPT !.pc = "refresh", !.op = op, !.on = n] \in Call
  BY TokenTypes DEF Idle, Call
<1>2. refreshing \in Nat /\ Len(posts) + 1 \in Nat
  BY TypeFacts
<1>3. calls' \in [Calls -> Call]
  BY <1>1, <1>2 DEF Types, Joins, Makes
<1>4. posts' \in Seq(Post) /\ refreshing' \in 0..Len(posts')
  <2>1. CASE Joins(c, op)
    BY <2>1 DEF Types, Joins, tokens
  <2>2. CASE Makes(c, op)
    <3>1. [app |-> config.app, tok |-> config.token, st |-> "sent"] \in Post
      BY TypeFacts DEF Post
    <3>2. posts' \in Seq(Post) /\ Len(posts') = Len(posts) + 1
      BY <2>2, <3>1 DEF Types, Makes
    <3> QED
      BY <2>2, <3>2, TypeFacts DEF Makes
  <2> QED
    BY <2>1, <2>2
<1> QED
  BY <1>3, <1>4 DEF Types, Joins, Makes, tokens

\* The calls that waited go on when a refresh ends.
LEMMA SucceedsNext ==
  ASSUME Types, refreshing # 0
  PROVE  LET new  == Successor(posts[refreshing].tok)
             next == [c \in Calls |->
                        IF c \notin Awaiting(refreshing) THEN calls[c]
                        ELSE IF calls[c].op = "disconnect" THEN Revoking(new)
                        ELSE [calls[c] EXCEPT !.pc = "list", !.on = 0, !.tok = new]]
         IN new \in Token /\ next \in [Calls -> Call]
<1> DEFINE new == Successor(posts[refreshing].tok)
           next == [c \in Calls |->
                        IF c \notin Awaiting(refreshing) THEN calls[c]
                        ELSE IF calls[c].op = "disconnect" THEN Revoking(new)
                        ELSE [calls[c] EXCEPT !.pc = "list", !.on = 0, !.tok = new]]
<1>2. new \in Token
  BY TypeFacts, TokenTypes
<1> HIDE DEF new
<1>3. \A c \in Calls : [calls[c] EXCEPT !.pc = "list", !.on = 0, !.tok = new] \in Call
  BY <1>2 DEF Types, Call
<1>4. Revoking(new) \in Call
  BY <1>2, RevokingType
<1>5. next \in [Calls -> Call]
  BY <1>3, <1>4 DEF Types
<1> QED
  BY <1>2, <1>5 DEF new

LEMMA WaitersNext ==
  ASSUME Types
  PROVE  [c \in Calls |-> IF c \in Awaiting(refreshing) THEN Revoking(config.token) ELSE calls[c]]
           \in [Calls -> Call]
<1>1. Revoking(config.token) \in Call
  BY RevokingType, TypeFacts
<1> QED
  BY <1>1 DEF Types

LEMMA AnswerTypes ==
  ASSUME Types, RefreshAnswer
  PROVE  Types'
<1>1. CASE RefreshSucceeds
  <2> DEFINE new  == Successor(posts[refreshing].tok)
             done == {c \in Awaiting(refreshing) : calls[c].op = "renew"}
             next == [c \in Calls |->
                        IF c \notin Awaiting(refreshing) THEN calls[c]
                        ELSE IF calls[c].op = "disconnect" THEN Revoking(new)
                        ELSE [calls[c] EXCEPT !.pc = "list", !.on = 0, !.tok = new]]
  <2>1. new \in Token /\ next \in [Calls -> Call]
    BY <1>1, SucceedsNext DEF RefreshSucceeds
  <2>2. config' = Saved(new) /\ calls' = Ended(next, done) /\ Released(done) /\ health' = Sound
        /\ refreshing' = 0 /\ UNCHANGED <<posts, consents, live>>
    BY <1>1 DEF RefreshSucceeds
  <2>3. done \in SUBSET Calls
    BY DEF Awaiting
  <2> HIDE DEF new, done, next
  <2>4. calls' \in [Calls -> Call]
    BY <2>1, <2>2, <2>3, EndedIs
  <2>5. reconnecting' \in Calls \cup {NoCall} /\ renewing' \in Calls \cup {NoCall}
    BY <2>2, <2>3, ReleasedType
  <2>6. config' \in Configs /\ health' \in Healths
    BY <2>1, <2>2, TokenTypes DEF Types, Saved, Sound, Configs, Healths
  <2> QED
    BY <2>2, <2>4, <2>5, <2>6, TypeFacts DEF Types
<1>2. CASE RefreshRefused \/ RefreshTimesOut
  <2> DEFINE done == {c \in Awaiting(refreshing) : calls[c].op # "disconnect"}
             next == [c \in Calls |-> IF c \in Awaiting(refreshing) THEN Revoking(config.token) ELSE calls[c]]
  <2>1. calls' = Ended(next, done) /\ Released(done) /\ refreshing' = 0 /\ refreshing # 0
        /\ UNCHANGED <<config, posts, consents, live>>
    BY <1>2 DEF RefreshRefused, RefreshTimesOut, WaitersFail
  <2>2. next \in [Calls -> Call] /\ done \in SUBSET Calls
    BY WaitersNext DEF Awaiting
  <2> HIDE DEF done, next
  <2>3. calls' \in [Calls -> Call]
    BY <2>1, <2>2, EndedIs
  <2>4. reconnecting' \in Calls \cup {NoCall} /\ renewing' \in Calls \cup {NoCall}
    BY <2>1, <2>2, ReleasedType
  <2>5. Sent(refreshing) \in Fingerprint
    BY <2>1, TypeFacts
  <2>6. health' \in Healths
    <3>1. [needs |-> TRUE, of |-> Sent(refreshing)] \in Healths
      BY <2>5 DEF Healths
    <3> QED
      BY <1>2, <3>1 DEF RefreshRefused, RefreshTimesOut, Refused, Types
  <2> QED
    BY <2>1, <2>3, <2>4, <2>6, TypeFacts DEF Types
<1> QED
  BY <1>1, <1>2 DEF RefreshAnswer

\* What a call that is listing the organisations ends with.
LEMMA EndsTypes ==
  ASSUME Types, NEW c \in Calls, Ends({c}), UNCHANGED <<config, health, refreshing, posts, consents, live>>
  PROVE  Types'
<1>1. calls' \in [Calls -> Call]
  BY EndedIs DEF Ends, Types
<1>2. reconnecting' \in Calls \cup {NoCall} /\ renewing' \in Calls \cup {NoCall}
  BY ReleasedType DEF Ends
<1> QED
  BY <1>1, <1>2 DEF Types

LEMMA CallTypes ==
  ASSUME Types, NEW c \in Calls, Answer(c)
  PROVE  Types'
<1>1. CASE ListReceived(c) \/ ListFails(c)
  BY <1>1, EndsTypes DEF ListReceived, ListFails
<1>2. CASE Exchanged(c)
  <2>1. consents + 1 \in Grants /\ consents + 1 \in 0..MaxGrants
    BY <1>2, BoundsAssumption DEF Exchanged, Types, Grants
  <2>2. <<consents + 1, 1>> \in Token
    BY <2>1 DEF Token
  <2>3. calls' \in [Calls -> Call]
    BY ZenonT(40), <1>2, <2>2 DEF Exchanged, Types, Call
  <2>4. live' \in [Grants -> Nat]
    BY <1>2 DEF Exchanged, Types
  <2>5. config' \in Configs /\ health' \in Healths
    BY <1>2, <2>2, TokenTypes DEF Exchanged, Sound, Types, Configs, Healths
  <2> QED
    BY <1>2, <2>1, <2>3, <2>4, <2>5 DEF Exchanged, Types
<1>3. CASE ExchangeFails(c) \/ RevokeFails(c)
  <2>1. calls' \in [Calls -> Call]
    <3>1. Idle \in Call /\ [calls[c] EXCEPT !.pc = "revoked"] \in Call
      BY TokenTypes, TypeFacts DEF Call
    <3>2. calls' = [calls EXCEPT ![c] = Idle] \/ calls' = [calls EXCEPT ![c] = [calls[c] EXCEPT !.pc = "revoked"]]
      BY <1>3 DEF ExchangeFails, RevokeFails
    <3> QED
      BY <3>1, <3>2 DEF Types
  <2> QED
    BY <1>3, <2>1 DEF ExchangeFails, RevokeFails, Types
<1>4. CASE DisconnectClears(c)
  <2>1. calls' \in [Calls -> Call]
    BY <1>4, TokenTypes DEF DisconnectClears, Types
  <2>2. config' \in Configs /\ health' \in Healths
    BY <1>4, TokenTypes DEF DisconnectClears, Disconnected, Sound, Types, Configs, Healths
  <2> QED
    BY <1>4, <2>1, <2>2 DEF DisconnectClears, Types
<1>5. CASE XeroRevokes(c)
  <2>1. calls' \in [Calls -> Call]
    BY <1>5 DEF XeroRevokes, Types, Call
  <2>2. live' \in [Grants -> Nat]
    <3>1. live' = [live EXCEPT ![calls[c].tok[1]] = 0] \/ live' = live
      BY <1>5 DEF XeroRevokes
    <3> QED
      BY <3>1 DEF Types
  <2> QED
    BY <1>5, <2>1, <2>2 DEF XeroRevokes, Types
<1> QED
  BY <1>1, <1>2, <1>3, <1>4, <1>5 DEF Answer

LEMMA BeginTypes ==
  ASSUME Types, NEW c \in Calls, Begin(c)
  PROVE  Types'
<1>1. CASE Followed(c, "cold") \/ Followed(c, "renew")
  <2>1. calls' \in [Calls -> Call]
    <3>1. \A op \in {"cold", "renew"} : [Idle EXCEPT !.pc = "joined", !.op = op] \in Call
      BY TokenTypes DEF Idle, Call
    <3> QED
      BY <1>1, <3>1 DEF Followed, Types
  <2> QED
    BY <1>1, <2>1 DEF Followed, tokens, Types
<1>2. CASE Complete(c)
  <2>1. [Idle EXCEPT !.pc = "exchange", !.op = "complete"] \in Call
    BY TokenTypes DEF Idle, Call
  <2>2. calls' \in [Calls -> Call]
    BY <1>2, <2>1 DEF Complete, Types
  <2> QED
    BY <1>2, <2>2 DEF Complete, Types
<1>3. CASE Disconnect(c)
  <2>1. [Idle EXCEPT !.pc = "wait", !.op = "disconnect", !.on = refreshing] \in Call
    BY TokenTypes, TypeFacts DEF Idle, Call
  <2>2. Revoking(config.token) \in Call
    BY RevokingType, TypeFacts
  <2>3. calls' \in [Calls -> Call]
    BY <1>3, <2>1, <2>2 DEF Disconnect, AwaitRefresh, Types
  <2> QED
    BY <1>3, <2>3 DEF Disconnect, Types
<1>4. c \in Calls \cup {NoCall} /\ reconnecting \in Calls \cup {NoCall} /\ renewing \in Calls \cup {NoCall}
  BY DEF Types
<1> QED
  BY <1>1, <1>2, <1>3, <1>4, BeginIs, JoinsTypes

LEMMA WorldTypes ==
  ASSUME Types, World
  PROVE  Types'
<1>1. ASSUME NEW p \in DOMAIN posts, XeroRefreshes(p)
      PROVE  Types'
  <2>1. posts' \in Seq(Post) /\ Len(posts') = Len(posts)
    <3>1. \A st \in {"rotated", "refused"} : [posts[p] EXCEPT !.st = st] \in Post
      BY TypeFacts DEF Post
    <3>2. PICK st \in {"rotated", "refused"} : posts' = [posts EXCEPT ![p] = [posts[p] EXCEPT !.st = st]]
      BY <1>1 DEF XeroRefreshes
    <3>3. PICK e \in Post : posts' = [posts EXCEPT ![p] = e]
      BY <3>1, <3>2
    <3> QED
      BY <3>3 DEF Types
  <2>2. live' \in [Grants -> Nat]
    BY <1>1 DEF XeroRefreshes, Types
  <2> QED
    BY <1>1, <2>1, <2>2 DEF XeroRefreshes, memory, Types
<1>2. ASSUME NEW g \in Grants, GrantEnds(g)
      PROVE  Types'
  BY <1>2 DEF GrantEnds, memory, Types
<1>3. CASE Expire
  BY <1>3 DEF Expire, Types
<1>4. ASSUME NEW p \in DOMAIN posts, XeroBars(p)
      PROVE  Types'
  <2>1. [posts[p] EXCEPT !.st = "refused"] \in Post
    BY TypeFacts DEF Post
  <2>2. posts' \in Seq(Post) /\ Len(posts') = Len(posts)
    BY <1>4, <2>1 DEF XeroBars, Types
  <2> QED
    BY <1>4, <2>2 DEF XeroBars, memory, Types
<1> QED
  BY <1>1, <1>2, <1>3, <1>4 DEF World

LEMMA SaveTypes ==
  ASSUME Types, NEW a \in Apps, SaveApp(a)
  PROVE  Types'
  BY DEF SaveApp, Types, Configs, memory

LEMMA TypesStep == Types /\ [Next]_vars => Types'
<1> SUFFICES ASSUME Types, [Next]_vars PROVE Types'
  OBVIOUS
<1>1. CASE Restart
  <2>1. calls' \in [Calls -> Call]
    BY <1>1, TokenTypes DEF Restart
  <2> QED
    BY <1>1, <2>1 DEF Restart, Types
<1>2. CASE UNCHANGED vars
  BY <1>2 DEF vars, memory, Types
<1> QED
  BY <1>1, <1>2, AnswerTypes, CallTypes, BeginTypes, WorldTypes, SaveTypes DEF Next

-----------------------------------------------------------------------------
(* Work that is shared.                                                    *)

\* A call waits for the request under way or for none; what others join is led
\* by a call that waits for a request or is listing.
Waits(c) == calls[c].pc \in {"refresh", "wait"}
Leads(l, op) == l # NoCall => calls[l].op = op /\ calls[l].pc \in {"refresh", "list"}
Sharing ==
  /\ \A c \in Calls : /\ Waits(c) => calls[c].on = refreshing /\ refreshing # 0
                      /\ ~Waits(c) => calls[c].on = 0
                      /\ calls[c].pc = "wait" => calls[c].op = "disconnect"
  /\ Leads(reconnecting, "cold") /\ Leads(renewing, "renew")
  /\ \A c \in Calls : calls[c].pc = "joined" =>
                        \/ calls[c].op = "cold" /\ reconnecting # NoCall
                        \/ calls[c].op = "renew" /\ renewing # NoCall

LEMMA IdleIs == Idle.pc = "idle" /\ Idle.on = 0
  BY DEF Idle

LEMMA SharingInit == Init => Sharing
<1> SUFFICES ASSUME Init PROVE Sharing
  OBVIOUS
<1>1. reconnecting = NoCall /\ renewing = NoCall /\ \A c \in Calls : calls[c] = Idle
  BY DEF Init
<1>2. \A c \in Calls : calls[c].pc = "idle" /\ calls[c].on = 0
  BY <1>1, IdleIs
<1> QED
  BY <1>1, <1>2 DEF Sharing, Waits, Leads

\* Calls that do not lead, nor wait, may change in ways that keep them so.
LEMMA AloneStep ==
  ASSUME Types, Sharing, NEW c \in Calls, NEW r \in Call, calls' = [calls EXCEPT ![c] = r],
         ~Waits(c), calls[c].pc \notin {"list", "joined"},
         r.pc \notin {"refresh", "wait", "joined"}, r.on = 0,
         UNCHANGED <<refreshing, reconnecting, renewing>>
  PROVE  Sharing'
<1>1. calls'[c] = r /\ \A d \in Calls \ {c} : calls'[d] = calls[d]
  BY DEF Types
<1>2. reconnecting # c /\ renewing # c
  BY NoCallAssumption DEF Sharing, Leads, Waits
<1>3. \A d \in Calls : /\ Waits(d)' => calls'[d].on = refreshing' /\ refreshing' # 0
                       /\ ~Waits(d)' => calls'[d].on = 0
                       /\ calls'[d].pc = "wait" => calls'[d].op = "disconnect"
  BY <1>1 DEF Sharing, Waits
<1>4. Leads(reconnecting, "cold")' /\ Leads(renewing, "renew")'
  BY <1>1, <1>2 DEF Sharing, Leads, Types
<1> QED
  BY <1>1, <1>3, <1>4 DEF Sharing

\* An idle call starts to wait, leading what it waits for or not.
LEMMA WaitStep ==
  ASSUME Types, Sharing, NEW c \in Calls, calls[c] = Idle, NEW op, NEW pc \in {"refresh", "wait"},
         pc = "wait" => op = "disconnect",
         calls' = [calls EXCEPT ![c] = [Idle EXCEPT !.pc = pc, !.op = op, !.on = refreshing']],
         refreshing' # 0, refreshing # 0 => refreshing' = refreshing,
         reconnecting' = reconnecting \/ (reconnecting = NoCall /\ reconnecting' = c /\ op = "cold" /\ pc = "refresh"),
         renewing' = renewing \/ (renewing = NoCall /\ renewing' = c /\ op = "renew" /\ pc = "refresh")
  PROVE  Sharing'
<1>1. /\ calls'[c].pc = pc /\ calls'[c].op = op /\ calls'[c].on = refreshing'
      /\ \A d \in Calls \ {c} : calls'[d] = calls[d]
  BY DEF Types, Idle
<1>2. reconnecting # c /\ renewing # c
  BY NoCallAssumption DEF Sharing, Leads, Waits, Idle
<1>3. \A d \in Calls : /\ Waits(d)' => calls'[d].on = refreshing' /\ refreshing' # 0
                       /\ ~Waits(d)' => calls'[d].on = 0
                       /\ calls'[d].pc = "wait" => calls'[d].op = "disconnect"
  BY <1>1 DEF Sharing, Waits
<1>4. Leads(reconnecting, "cold")'
  BY <1>1, <1>2 DEF Sharing, Leads, Types
<1>5. Leads(renewing, "renew")'
  BY <1>1, <1>2 DEF Sharing, Leads, Types
<1>6. (reconnecting # NoCall => reconnecting' # NoCall) /\ (renewing # NoCall => renewing' # NoCall)
  BY NoCallAssumption
<1>7. \A d \in Calls : calls'[d].pc = "joined" =>
                        \/ calls'[d].op = "cold" /\ reconnecting' # NoCall
                        \/ calls'[d].op = "renew" /\ renewing' # NoCall
  BY <1>1, <1>6 DEF Sharing
<1> QED
  BY <1>3, <1>4, <1>5, <1>7 DEF Sharing

LEMMA BeginShares ==
  ASSUME Types, Sharing, NEW c \in Calls, Begin(c)
  PROVE  Sharing'
<1>0. calls[c] = Idle
  BY BeginIs
<1>1. ASSUME NEW op \in {"cold", "renew"}, Followed(c, op),
             op = "cold" => reconnecting # NoCall, op = "renew" => renewing # NoCall
      PROVE  Sharing'
  <2>1. /\ calls'[c].pc = "joined" /\ calls'[c].op = op /\ calls'[c].on = 0
        /\ \A d \in Calls \ {c} : calls'[d] = calls[d]
    BY <1>1 DEF Followed, Types, Idle
  <2>2. UNCHANGED <<refreshing, reconnecting, renewing>>
    BY <1>1 DEF Followed, tokens
  <2>3. reconnecting # c /\ renewing # c
    BY <1>0, NoCallAssumption DEF Sharing, Leads, Waits, Idle
  <2>4. Leads(reconnecting, "cold")' /\ Leads(renewing, "renew")'
    BY <2>1, <2>2, <2>3 DEF Sharing, Leads, Types
  <2>5. \A d \in Calls : /\ Waits(d)' => calls'[d].on = refreshing' /\ refreshing' # 0
                         /\ ~Waits(d)' => calls'[d].on = 0
                         /\ calls'[d].pc = "wait" => calls'[d].op = "disconnect"
    BY <2>1, <2>2 DEF Sharing, Waits
  <2>6. \A d \in Calls : calls'[d].pc = "joined" =>
                        \/ calls'[d].op = "cold" /\ reconnecting' # NoCall
                        \/ calls'[d].op = "renew" /\ renewing' # NoCall
    BY <1>1, <2>1, <2>2 DEF Sharing
  <2> QED
    BY <2>4, <2>5, <2>6 DEF Sharing
<1>2. ASSUME NEW op \in {"cold", "renew", "direct"}, Joins(c, op) \/ Makes(c, op),
             reconnecting' = reconnecting \/ (reconnecting = NoCall /\ reconnecting' = c /\ op = "cold"),
             renewing' = renewing \/ (renewing = NoCall /\ renewing' = c /\ op = "renew")
      PROVE  Sharing'
  <2>1. /\ calls' = [calls EXCEPT ![c] = [Idle EXCEPT !.pc = "refresh", !.op = op, !.on = refreshing']]
        /\ refreshing' # 0 /\ (refreshing # 0 => refreshing' = refreshing)
    <3>1. CASE Joins(c, op)
      BY <3>1 DEF Joins, tokens
    <3>2. CASE Makes(c, op)
      <4>1. Len(posts) + 1 # 0
        BY TypeFacts
      <4> QED
        BY <3>2, <4>1 DEF Makes
    <3> QED
      BY <1>2, <3>1, <3>2
  <2> QED
    BY <1>0, <1>2, <2>1, WaitStep
<1>3. CASE Complete(c)
  <2> DEFINE r == [Idle EXCEPT !.pc = "exchange", !.op = "complete"]
  <2>1. r \in Call /\ r.pc = "exchange" /\ r.on = 0
    BY TokenTypes DEF Idle, Call
  <2>2. calls' = [calls EXCEPT ![c] = r] /\ UNCHANGED <<refreshing, reconnecting, renewing>>
    BY <1>3 DEF Complete
  <2> HIDE DEF r
  <2> QED
    BY <1>0, <2>1, <2>2, IdleIs, AloneStep DEF Waits
<1>4. CASE Disconnect(c)
  <2>1. CASE refreshing # 0
    <3>1. /\ calls' = [calls EXCEPT ![c] = [Idle EXCEPT !.pc = "wait", !.op = "disconnect", !.on = refreshing']]
          /\ UNCHANGED <<refreshing, reconnecting, renewing>>
      BY <1>4, <2>1 DEF Disconnect, AwaitRefresh
    <3> QED
      BY <1>0, <2>1, <3>1, WaitStep
  <2>2. CASE refreshing = 0
    <3>1. calls' = [calls EXCEPT ![c] = Revoking(config.token)] /\ UNCHANGED <<refreshing, reconnecting, renewing>>
      BY <1>4, <2>2 DEF Disconnect
    <3>2. /\ Revoking(config.token) \in Call /\ Revoking(config.token).on = 0
          /\ Revoking(config.token).pc \in {"revoke", "revoked"}
      BY TypeFacts, RevokingType
    <3> QED
      BY <1>0, <3>1, <3>2, IdleIs, AloneStep DEF Waits
  <2> QED
    BY <2>1, <2>2
<1> QED
  BY <1>1, <1>2, <1>3, <1>4, BeginIs

\* The calls of S end, and with them those that joined what a call of S leads;
\* the others may go on to next.
LEMMA EndStep ==
  ASSUME Types, Sharing, NEW S \in SUBSET Calls, NEW next \in [Calls -> Call],
         calls' = Ended(next, S), Released(S),
         \A c \in Calls \ S :
           /\ next[c].pc \in {"refresh", "wait"} => next[c].on = refreshing' /\ refreshing' # 0
           /\ next[c].pc \notin {"refresh", "wait"} => next[c].on = 0
           /\ next[c].pc = "wait" => next[c].op = "disconnect"
           /\ next[c].pc = "joined" => next[c] = calls[c]
           /\ calls[c].pc \in {"refresh", "list"} /\ calls[c].op # "disconnect" =>
                next[c].op = calls[c].op /\ next[c].pc \in {"refresh", "list"}
  PROVE  Sharing'
<1>1. \A c \in Calls : \/ c \in S \cup Followers(S) /\ calls'[c] = Idle
                       \/ c \notin S \cup Followers(S) /\ calls'[c] = next[c]
  BY EndedIs
<1>2. \A c \in Calls : /\ Waits(c)' => calls'[c].on = refreshing' /\ refreshing' # 0
                       /\ ~Waits(c)' => calls'[c].on = 0
                       /\ calls'[c].pc = "wait" => calls'[c].op = "disconnect"
  BY <1>1, IdleIs DEF Waits
<1>3. Leads(reconnecting, "cold")'
  <2> SUFFICES ASSUME reconnecting' # NoCall
               PROVE  calls'[reconnecting'].op = "cold" /\ calls'[reconnecting'].pc \in {"refresh", "list"}
    BY DEF Leads
  <2>1. reconnecting' = reconnecting /\ reconnecting \in Calls \ S
    BY DEF Released, Types
  <2>2. calls[reconnecting].op = "cold" /\ calls[reconnecting].pc \in {"refresh", "list"}
    BY <2>1 DEF Sharing, Leads
  <2>3. reconnecting \notin Followers(S)
    BY <2>2 DEF Followers
  <2> QED
    BY <1>1, <2>1, <2>2, <2>3
<1>4. Leads(renewing, "renew")'
  <2> SUFFICES ASSUME renewing' # NoCall
               PROVE  calls'[renewing'].op = "renew" /\ calls'[renewing'].pc \in {"refresh", "list"}
    BY DEF Leads
  <2>1. renewing' = renewing /\ renewing \in Calls \ S
    BY DEF Released, Types
  <2>2. calls[renewing].op = "renew" /\ calls[renewing].pc \in {"refresh", "list"}
    BY <2>1 DEF Sharing, Leads
  <2>3. renewing \notin Followers(S)
    BY <2>2 DEF Followers
  <2> QED
    BY <1>1, <2>1, <2>2, <2>3
<1>5. ASSUME NEW c \in Calls, calls'[c].pc = "joined"
      PROVE  \/ calls'[c].op = "cold" /\ reconnecting' # NoCall
             \/ calls'[c].op = "renew" /\ renewing' # NoCall
  <2>1. c \notin S \cup Followers(S) /\ calls'[c] = calls[c]
    BY <1>1, <1>5, IdleIs
  <2>2. \/ calls[c].op = "cold" /\ reconnecting # NoCall
        \/ calls[c].op = "renew" /\ renewing # NoCall
    BY <1>5, <2>1 DEF Sharing
  <2> QED
    BY <1>5, <2>1, <2>2 DEF Followers, Released
<1> QED
  BY <1>2, <1>3, <1>4, <1>5 DEF Sharing

\* A call that goes on to list the organisations.
LEMMA ListingIs ==
  ASSUME NEW r \in Call, NEW tok
  PROVE  LET l == [r EXCEPT !.pc = "list", !.on = 0, !.tok = tok]
         IN l.pc = "list" /\ l.on = 0 /\ l.op = r.op
  BY DEF Call

LEMMA AnswerShares ==
  ASSUME Types, Sharing, RefreshAnswer
  PROVE  Sharing'
<1>0. \A c \in Calls : c \in Awaiting(refreshing) /\ refreshing # 0 <=> Waits(c)
  BY DEF Sharing, Awaiting
<1>1. CASE RefreshSucceeds
  <2> DEFINE new  == Successor(posts[refreshing].tok)
             done == {c \in Awaiting(refreshing) : calls[c].op = "renew"}
             next == [c \in Calls |->
                        IF c \notin Awaiting(refreshing) THEN calls[c]
                        ELSE IF calls[c].op = "disconnect" THEN Revoking(new)
                        ELSE [calls[c] EXCEPT !.pc = "list", !.on = 0, !.tok = new]]
  <2>1. new \in Token /\ next \in [Calls -> Call]
    BY <1>1, SucceedsNext DEF RefreshSucceeds
  <2>2. calls' = Ended(next, done) /\ Released(done) /\ refreshing' = 0 /\ refreshing # 0
    BY <1>1 DEF RefreshSucceeds
  <2>3. done \in SUBSET Calls
    BY DEF Awaiting
  <2>4. /\ Revoking(new).pc \in {"revoke", "revoked"} /\ Revoking(new).on = 0
        /\ \A c \in Calls : LET r == [calls[c] EXCEPT !.pc = "list", !.on = 0, !.tok = new]
                            IN r.pc = "list" /\ r.on = 0 /\ r.op = calls[c].op
    BY <2>1, RevokingType, ListingIs, TypeFacts
  <2>5. ASSUME NEW c \in Calls \ done
        PROVE  /\ next[c].pc \notin {"refresh", "wait"} /\ next[c].on = 0
               /\ next[c].pc = "joined" => next[c] = calls[c]
               /\ calls[c].pc \in {"refresh", "list"} /\ calls[c].op # "disconnect" =>
                    next[c].op = calls[c].op /\ next[c].pc \in {"refresh", "list"}
    <3>1. CASE c \notin Awaiting(refreshing)
      BY <1>0, <2>2, <3>1 DEF Sharing, Waits
    <3>2. CASE c \in Awaiting(refreshing) /\ calls[c].op = "disconnect"
      BY <2>4, <3>2
    <3>3. CASE c \in Awaiting(refreshing) /\ calls[c].op # "disconnect"
      BY <2>4, <3>3
    <3> QED
      BY <3>1, <3>2, <3>3
  <2> HIDE DEF new, done, next
  <2> QED
    BY <2>1, <2>2, <2>3, <2>5, EndStep
<1>2. CASE RefreshRefused \/ RefreshTimesOut
  <2> DEFINE done == {c \in Awaiting(refreshing) : calls[c].op # "disconnect"}
             next == [c \in Calls |-> IF c \in Awaiting(refreshing) THEN Revoking(config.token) ELSE calls[c]]
  <2>1. calls' = Ended(next, done) /\ Released(done) /\ refreshing' = 0 /\ refreshing # 0
    BY <1>2 DEF RefreshRefused, RefreshTimesOut, WaitersFail
  <2>2. next \in [Calls -> Call] /\ done \in SUBSET Calls
    BY WaitersNext DEF Awaiting
  <2>3. Revoking(config.token).pc \in {"revoke", "revoked"} /\ Revoking(config.token).on = 0
    BY RevokingType, TypeFacts
  <2>4. ASSUME NEW c \in Calls \ done
        PROVE  /\ next[c].pc \notin {"refresh", "wait"} /\ next[c].on = 0
               /\ next[c].pc = "joined" => next[c] = calls[c]
               /\ calls[c].pc \in {"refresh", "list"} /\ calls[c].op # "disconnect" =>
                    next[c].op = calls[c].op /\ next[c].pc \in {"refresh", "list"}
    <3>1. CASE c \notin Awaiting(refreshing)
      BY <1>0, <2>1, <3>1 DEF Sharing, Waits
    <3>2. CASE c \in Awaiting(refreshing)
      BY <2>3, <3>2
    <3> QED
      BY <3>1, <3>2
  <2> HIDE DEF done, next
  <2> QED
    BY <2>1, <2>2, <2>4, EndStep
<1> QED
  BY <1>1, <1>2 DEF RefreshAnswer

LEMMA CallShares ==
  ASSUME Types, Sharing, NEW c \in Calls, Answer(c)
  PROVE  Sharing' /\ \A d \in Calls : calls'[d].on = calls[d].on
<1>1. CASE ListReceived(c) \/ ListFails(c)
  <2>1. calls' = Ended(calls, {c}) /\ Released({c}) /\ UNCHANGED refreshing /\ calls[c].pc = "list"
    BY <1>1 DEF ListReceived, ListFails, Ends
  <2>2. calls \in [Calls -> Call]
    BY DEF Types
  <2>3. \A d \in Calls \ {c} :
           /\ calls[d].pc \in {"refresh", "wait"} => calls[d].on = refreshing' /\ refreshing' # 0
           /\ calls[d].pc \notin {"refresh", "wait"} => calls[d].on = 0
           /\ calls[d].pc = "wait" => calls[d].op = "disconnect"
    BY <2>1 DEF Sharing, Waits
  <2>4. Sharing'
    BY <2>1, <2>2, <2>3, EndStep
  <2>5. \A d \in {c} \cup Followers({c}) : calls[d].on = 0
    BY <2>1 DEF Followers, Sharing, Waits
  <2>6. \A d \in Calls : (calls'[d] = Idle /\ d \in {c} \cup Followers({c})) \/ calls'[d] = calls[d]
    BY <2>1, <2>2, EndedIs
  <2>7. \A d \in Calls : calls'[d].on = calls[d].on
    BY <2>5, <2>6, IdleIs
  <2> QED
    BY <2>4, <2>7
<1>2. ASSUME NEW r \in Call, calls' = [calls EXCEPT ![c] = r], UNCHANGED <<refreshing, reconnecting, renewing>>,
             calls[c].pc \in {"exchange", "revoke", "revoked"},
             r.pc \in {"idle", "list", "revoked"}, r.on = 0
      PROVE  Sharing' /\ \A d \in Calls : calls'[d].on = calls[d].on
  <2>1. Sharing'
    BY <1>2, AloneStep DEF Waits
  <2>2. calls[c].on = 0
    BY <1>2 DEF Sharing, Waits
  <2> QED
    BY <1>2, <2>1, <2>2 DEF Types
<1>3. CASE Exchanged(c)
  <2> DEFINE r == [calls[c] EXCEPT !.pc = "list", !.tok = <<consents + 1, 1>>]
  <2>1. <<consents + 1, 1>> \in Token
    BY <1>3, BoundsAssumption DEF Exchanged, Types, Token
  <2>2. calls[c].on = 0
    BY <1>3 DEF Exchanged, Sharing, Waits
  <2>3. r \in Call /\ r.pc = "list" /\ r.on = 0
    BY <2>1, <2>2, TypeFacts DEF Call
  <2>4. calls' = [calls EXCEPT ![c] = r]
    BY <1>3 DEF Exchanged, Types
  <2> HIDE DEF r
  <2> QED
    BY <1>2, <1>3, <2>3, <2>4 DEF Exchanged
<1>4. CASE ExchangeFails(c) \/ DisconnectClears(c)
  BY <1>2, <1>4, IdleIs, TokenTypes DEF ExchangeFails, DisconnectClears
<1>5. CASE XeroRevokes(c) \/ RevokeFails(c)
  <2> DEFINE r == [calls[c] EXCEPT !.pc = "revoked"]
  <2>1. calls[c].on = 0
    BY <1>5 DEF XeroRevokes, RevokeFails, Sharing, Waits
  <2>2. r \in Call /\ r.pc = "revoked" /\ r.on = 0
    BY <2>1, TypeFacts DEF Call
  <2>3. calls' = [calls EXCEPT ![c] = r] /\ UNCHANGED <<refreshing, reconnecting, renewing>> /\ calls[c].pc = "revoke"
    BY <1>5 DEF XeroRevokes, RevokeFails
  <2> HIDE DEF r
  <2> QED
    BY <1>2, <2>2, <2>3
<1> QED
  BY <1>1, <1>3, <1>4, <1>5 DEF Answer

LEMMA WorldShares ==
  ASSUME Types, Sharing, World
  PROVE  Sharing' /\ UNCHANGED <<refreshing, calls>> /\ Len(posts') = Len(posts)
<1>1. UNCHANGED <<refreshing, calls, reconnecting, renewing>>
  BY DEF World, XeroRefreshes, XeroBars, GrantEnds, Expire, memory
<1>2. Len(posts') = Len(posts)
  <2>1. ASSUME NEW p \in DOMAIN posts, XeroRefreshes(p)
        PROVE  Len(posts') = Len(posts)
    <3>1. PICK st \in {"rotated", "refused"} : posts' = [posts EXCEPT ![p].st = st]
      BY <2>1 DEF XeroRefreshes
    <3> QED
      BY <3>1 DEF Types
  <2>2. ASSUME NEW p \in DOMAIN posts, XeroBars(p)
        PROVE  Len(posts') = Len(posts)
    BY <2>2 DEF XeroBars, Types
  <2> QED
    BY <2>1, <2>2 DEF World, GrantEnds, Expire
<1> QED
  BY <1>1, <1>2 DEF Sharing, Waits, Leads

LEMMA SharingStep == Types /\ Sharing /\ [Next]_vars => Sharing'
<1> SUFFICES ASSUME Types, Sharing, [Next]_vars PROVE Sharing'
  OBVIOUS
<1>1. CASE Restart
  <2>1. reconnecting' = NoCall /\ renewing' = NoCall /\ \A c \in Calls : calls'[c] = Idle
    BY <1>1 DEF Restart
  <2>2. \A c \in Calls : calls'[c].pc = "idle" /\ calls'[c].on = 0
    BY <2>1, IdleIs
  <2> QED
    BY <2>1, <2>2 DEF Sharing, Waits, Leads
<1>2. CASE UNCHANGED vars
  BY <1>2 DEF vars, memory, Sharing, Waits, Leads
<1>3. ASSUME NEW a \in Apps, SaveApp(a) PROVE Sharing'
  BY <1>3 DEF SaveApp, memory, Sharing, Waits, Leads
<1> QED
  BY <1>1, <1>2, <1>3, AnswerShares, CallShares, BeginShares, WorldShares DEF Next

LEMMA SharingAlways == Spec => [](Types /\ Sharing)
  BY TypesInit, SharingInit, TypesStep, SharingStep, PTL DEF Spec

\* No call waits for good: whoever joined another's work has one to wait for
\* that has a request under way, whatever that one meets.
THEOREM SomeoneIsWaitedFor == Spec => []NobodyStranded
<1>1. Types /\ Sharing => NobodyStranded
  <2> SUFFICES ASSUME Types, Sharing PROVE NobodyStranded
    OBVIOUS
  <2>1. ASSUME NEW c \in Calls, calls[c].pc = "joined"
        PROVE  \E l \in Calls : /\ l = (IF calls[c].op = "cold" THEN reconnecting ELSE renewing)
                                /\ calls[l].op = calls[c].op /\ calls[l].pc \in {"refresh", "list"}
    BY <2>1 DEF Types, Sharing, Leads
  <2> QED
    BY <2>1 DEF NobodyStranded, Sharing, Waits
<1> QED
  BY <1>1, SharingAlways, PTL

\* What a call waits for, seen by SingleFlight.
LEMMA SharedStep ==
  ASSUME Types, Sharing, Sharing', [Next]_vars
  PROVE  [Shared!Next]_(Shared!vars)
<1>0. /\ \A c \in Calls : calls[c].on \in {0, refreshing} /\ calls'[c].on \in {0, refreshing'}
      /\ Len(posts) \in Nat
  BY TypeFacts DEF Sharing
\* A step that leaves who waits as it is.
<1>1. ASSUME refreshing' = refreshing, Len(posts') = Len(posts), \A c \in Calls : calls'[c].on = calls[c].on
      PROVE  UNCHANGED Shared!vars
  BY <1>1 DEF Shared!vars
\* A step that ends the request under way, or finds none.
<1>2. ASSUME refreshing' = 0, Len(posts') = Len(posts)
      PROVE  [Shared!Next]_(Shared!vars)
  <2>1. \A c \in Calls : calls'[c].on = 0
    BY <1>0, <1>2
  <2>2. CASE refreshing = 0
    BY <1>0, <1>1, <1>2, <2>1, <2>2
  <2>3. CASE refreshing # 0
    BY <1>2, <2>1, <2>3 DEF Shared!Next, Shared!Settle
  <2> QED
    BY <2>2, <2>3
\* A call that starts to wait.
<1>3. ASSUME NEW c \in Calls, calls[c] = Idle, NEW r, r.on = refreshing', refreshing' # 0,
             calls' = [calls EXCEPT ![c] = r],
             \/ refreshing # 0 /\ refreshing' = refreshing /\ Len(posts') = Len(posts)
             \/ refreshing = 0 /\ refreshing' = Len(posts) + 1 /\ Len(posts') = Len(posts) + 1
      PROVE  Shared!Start(c) \/ Shared!Join(c)
  <2> DEFINE was == [d \in Calls |-> calls[d].on]
             is  == [d \in Calls |-> calls'[d].on]
  <2>1. was[c] = 0 /\ is = [was EXCEPT ![c] = refreshing']
    BY <1>3, IdleIs DEF Types
  <2> QED
    BY <1>3, <2>1 DEF Shared!Start, Shared!Join
<1>4. ASSUME NEW c \in Calls, NEW op \in {"cold", "renew", "direct"}, calls[c] = Idle, Joins(c, op) \/ Makes(c, op)
      PROVE  Shared!Start(c) \/ Shared!Join(c)
  <2> DEFINE r == [Idle EXCEPT !.pc = "refresh", !.op = op, !.on = refreshing']
  <2>1. r.on = refreshing'
    BY DEF Idle
  <2>2. CASE Joins(c, op)
    <3>1. refreshing # 0 /\ refreshing' = refreshing /\ posts' = posts /\ calls' = [calls EXCEPT ![c] = r]
      BY <2>2 DEF Joins, tokens
    <3> HIDE DEF r
    <3> QED
      BY <1>3, <1>4, <2>1, <3>1
  <2>3. CASE Makes(c, op)
    <3>1. refreshing = 0 /\ refreshing' = Len(posts) + 1 /\ calls' = [calls EXCEPT ![c] = r]
      BY <2>3 DEF Makes
    <3>2. [app |-> config.app, tok |-> config.token, st |-> "sent"] \in Post
      BY TypeFacts DEF Post
    <3>3. Len(posts') = Len(posts) + 1
      BY <2>3, <3>2 DEF Makes, Types
    <3>4. refreshing' # 0
      BY <1>0, <3>1
    <3> HIDE DEF r
    <3> QED
      BY <1>3, <1>4, <2>1, <3>1, <3>3, <3>4
  <2> QED
    BY <1>4, <2>2, <2>3
<1>5. ASSUME NEW c \in Calls, Begin(c)
      PROVE  [Shared!Next]_(Shared!vars)
  <2>0. calls[c] = Idle
    BY <1>5, BeginIs
  <2>1. ASSUME NEW r, r.on = 0, calls' = [calls EXCEPT ![c] = r], UNCHANGED <<refreshing, posts>>
        PROVE  UNCHANGED Shared!vars
    <3>1. \A d \in Calls : calls'[d].on = calls[d].on
      BY <2>0, <2>1, IdleIs DEF Types
    <3> QED
      BY <1>1, <2>1, <3>1
  <2>2. CASE Followed(c, "cold") \/ Followed(c, "renew")
    <3>1. \A op : [Idle EXCEPT !.pc = "joined", !.op = op].on = 0
      BY DEF Idle
    <3>2. UNCHANGED <<refreshing, posts>>
      BY <2>2 DEF Followed, tokens
    <3> QED
      BY <2>1, <2>2, <3>1, <3>2 DEF Followed
  <2>3. CASE Complete(c)
    <3>1. [Idle EXCEPT !.pc = "exchange", !.op = "complete"].on = 0
      BY DEF Idle
    <3> QED
      BY <2>1, <2>3, <3>1 DEF Complete
  <2>4. CASE Disconnect(c)
    <3>1. CASE refreshing = 0
      <4>1. Revoking(config.token).on = 0
        BY TypeFacts, RevokingType
      <4> QED
        BY <2>1, <2>4, <3>1, <4>1 DEF Disconnect
    <3>2. CASE refreshing # 0
      <4> DEFINE r == [Idle EXCEPT !.pc = "wait", !.op = "disconnect", !.on = refreshing]
      <4>1. r.on = refreshing
        BY DEF Idle
      <4>2. calls' = [calls EXCEPT ![c] = r] /\ UNCHANGED <<refreshing, posts>>
        BY <2>4, <3>2 DEF Disconnect, AwaitRefresh
      <4> HIDE DEF r
      <4>3. Shared!Start(c) \/ Shared!Join(c)
        BY <1>3, <2>0, <3>2, <4>1, <4>2
      <4> QED
        BY <4>3 DEF Shared!Next
    <3> QED
      BY <3>1, <3>2
  <2> QED
    BY <1>4, <1>5, <2>0, <2>2, <2>3, <2>4, BeginIs DEF Shared!Next
<1>6. CASE RefreshAnswer
  <2>1. refreshing' = 0 /\ posts' = posts
    BY <1>6 DEF RefreshAnswer, RefreshSucceeds, RefreshRefused, RefreshTimesOut, WaitersFail
  <2> QED
    BY <1>2, <2>1
<1>7. CASE Restart
  BY <1>2, <1>7 DEF Restart
<1>8. CASE World
  BY <1>1, <1>8, WorldShares
<1>9. ASSUME NEW c \in Calls, Answer(c)
      PROVE  UNCHANGED Shared!vars
  <2>1. UNCHANGED <<refreshing, posts>>
    BY <1>9 DEF Answer, ListReceived, ListFails, Exchanged, ExchangeFails, XeroRevokes, RevokeFails, DisconnectClears
  <2> QED
    BY <1>1, <1>9, <2>1, CallShares
<1>10. CASE UNCHANGED vars
  BY <1>1, <1>10 DEF vars, memory
<1>11. ASSUME NEW a \in Apps, SaveApp(a)
       PROVE  UNCHANGED Shared!vars
  BY <1>1, <1>11 DEF SaveApp, memory
<1> QED
  BY <1>5, <1>6, <1>7, <1>8, <1>9, <1>10, <1>11 DEF Next

\* The refresh of oauth.js implements SingleFlight: at most one request to the
\* token endpoint is under way, and every call waits for that one or for none.
THEOREM RefreshIsOneFlight == Spec => RefreshIsShared
<1>1. Init => Shared!Init
  <2> SUFFICES ASSUME Init PROVE Shared!Init
    OBVIOUS
  <2>1. refreshing = 0 /\ posts = <<>> /\ \A c \in Calls : calls[c] = Idle
    BY DEF Init
  <2> QED
    BY <2>1, IdleIs DEF Shared!Init
<1>2. (Types /\ Sharing) /\ (Types /\ Sharing)' /\ [Next]_vars => [Shared!Next]_(Shared!vars)
  BY SharedStep
<1> QED
  BY <1>1, <1>2, SharingAlways, PTL DEF Spec, RefreshIsShared, Shared!Spec

-----------------------------------------------------------------------------
(* The token on file.                                                      *)

Excused(tok) == tok[1] \in excuse

\* What Xero will say, or has said, to each request. A refusal is only ever of
\* a token whose grant was ended or whose successor was lost, or of the Client
\* ID and Secret: a request is made with the token on file, one at a time.
RequestsKnown ==
  \A p \in DOMAIN posts :
    LET tok == posts[p].tok
    IN /\ tok[1] \in 1..consents
       /\ posts[p].st = "sent" => Excused(tok) \/ (p = refreshing /\ Accepted(tok))
       /\ posts[p].st = "rotated" /\ p = refreshing => Excused(tok) \/ Accepted(Successor(tok))
       /\ posts[p].st = "refused" => Excused(tok) \/ Barred(Sent(p))
Tokens ==
  /\ config.token # NoToken => config.token[1] \in 1..consents
  /\ health.needs => Excused(health.of[2]) \/ Barred(health.of)
  /\ RequestsKnown
  /\ TokenOnFileWorks

LEMMA TokensInit == Init => Tokens
<1> SUFFICES ASSUME Init PROVE Tokens
  OBVIOUS
<1>1. config.token = NoToken
  BY DEF Init
<1>2. health.needs = FALSE
  BY DEF Init, Sound
<1>3. DOMAIN posts = {}
  <2>1. posts = <<>>
    BY DEF Init
  <2> QED
    BY <2>1
<1> QED
  BY <1>1, <1>2, <1>3 DEF Tokens, RequestsKnown, TokenOnFileWorks

\* Whoever begins a request makes it with the token on file.
LEMMA BeginTokens ==
  ASSUME Types, Tokens, NEW c \in Calls, Begin(c)
  PROVE  Tokens'
<1>1. CASE UNCHANGED tokens
  BY <1>1 DEF tokens, Tokens, RequestsKnown, TokenOnFileWorks, Excused, Accepted, Barred, Sent
<1>2. ASSUME NEW op, Makes(c, op)
      PROVE  Tokens'
  <2> DEFINE e == [app |-> config.app, tok |-> config.token, st |-> "sent"]
  <2>1. e \in Post
    BY TypeFacts DEF Post
  <2>2. /\ DOMAIN posts' = DOMAIN posts \cup {refreshing'} /\ refreshing' \notin DOMAIN posts
        /\ posts'[refreshing'] = e /\ \A p \in DOMAIN posts : posts'[p] = posts[p]
    BY <1>2, <2>1, TypeFacts DEF Makes, Types
  <2>3. /\ refreshing = 0 /\ config.token # NoToken
        /\ UNCHANGED <<config, health, consents, live, barred, excuse>>
    BY <1>2 DEF Makes
  <2>4. config.token[1] \in 1..consents /\ (Accepted(config.token) \/ Excused(config.token))
    BY <2>3 DEF Tokens, TokenOnFileWorks, Excused
  <2>5. TokenOnFileWorks'
    BY <2>3, <2>4 DEF TokenOnFileWorks, Accepted, Excused
  <2>6. \A p \in DOMAIN posts : p # refreshing
    BY <2>3, TypeFacts DEF Types
  <2>7. RequestsKnown'
    <3> SUFFICES ASSUME NEW p \in DOMAIN posts'
                 PROVE LET tok == posts'[p].tok
                       IN /\ tok[1] \in 1..consents
                          /\ posts'[p].st = "sent" => Excused(tok) \/ (p = refreshing' /\ Accepted(tok))
                          /\ posts'[p].st = "rotated" /\ p = refreshing' => Excused(tok) \/ Accepted(Successor(tok))
                          /\ posts'[p].st = "refused" => Excused(tok) \/ <<posts'[p].app, tok[1]>> \in barred
      BY <2>3 DEF RequestsKnown, Excused, Accepted, Barred, Sent
    <3>1. CASE p = refreshing'
      BY <2>2, <2>4, <3>1
    <3>2. CASE p \in DOMAIN posts
      BY <2>2, <2>6, <3>2 DEF Tokens, RequestsKnown, Barred, Sent
    <3> QED
      BY <2>2, <3>1, <3>2
  <2> QED
    BY <2>3, <2>5, <2>7 DEF Tokens, Excused, Barred
<1>3. CASE Complete(c) \/ Disconnect(c)
  BY <1>1, <1>3 DEF Complete, Disconnect, tokens
<1> QED
  BY <1>1, <1>2, <1>3, BeginIs DEF Followed, Joins

\* The request under way ends.
LEMMA AnswerTokens ==
  ASSUME Types, Tokens, RefreshAnswer
  PROVE  Tokens'
<1> DEFINE tok == posts[refreshing].tok
<1>0. refreshing \in DOMAIN posts /\ refreshing' = 0 /\ UNCHANGED <<posts, consents, live, barred>>
      /\ \A p \in DOMAIN posts : p # refreshing'
  <2>1. refreshing # 0 /\ refreshing' = 0 /\ UNCHANGED <<posts, consents, live, barred>>
    BY DEF RefreshAnswer, RefreshSucceeds, RefreshRefused, RefreshTimesOut, WaitersFail
  <2> QED
    BY <2>1, TypeFacts DEF Types
<1>1. CASE RefreshSucceeds
  <2>1. config' = [config EXCEPT !.token = Successor(tok)] /\ health' = Sound
        /\ UNCHANGED excuse /\ posts[refreshing].st = "rotated"
    BY <1>1 DEF RefreshSucceeds, Saved
  <2>2. config'.token = Successor(tok)
    BY <2>1 DEF Types, Configs
  <2>3. tok[1] \in 1..consents /\ (Excused(tok) \/ Accepted(Successor(tok))) /\ Successor(tok)[1] = tok[1]
    BY <1>0, <2>1 DEF Tokens, RequestsKnown, Successor
  <2>4. TokenOnFileWorks'
    BY <1>0, <2>1, <2>2, <2>3 DEF TokenOnFileWorks, Accepted, Excused
  <2>5. RequestsKnown'
    BY <1>0, <2>1 DEF Tokens, RequestsKnown, Excused, Accepted, Barred, Sent
  <2>6. health'.needs = FALSE
    BY <2>1 DEF Sound
  <2> QED
    BY <1>0, <2>2, <2>3, <2>4, <2>5, <2>6 DEF Tokens
<1>2. CASE RefreshRefused
  <2>1. /\ health' = [needs |-> TRUE, of |-> Sent(refreshing)] /\ UNCHANGED <<config, excuse>>
        /\ posts[refreshing].st = "refused"
    BY <1>2 DEF RefreshRefused, Refused
  <2>2. Excused(Sent(refreshing)[2]) \/ Barred(Sent(refreshing))
    BY <1>0, <2>1 DEF Tokens, RequestsKnown, Sent
  <2>3. posts[refreshing].st # "rotated"
    BY <2>1
  <2>4. TokenOnFileWorks'
    BY <1>0, <2>1, <2>3 DEF Tokens, TokenOnFileWorks, Accepted
  <2>5. RequestsKnown'
    BY <1>0, <2>1 DEF Tokens, RequestsKnown, Excused, Accepted, Barred, Sent
  <2>6. health'.of = Sent(refreshing)
    BY <2>1
  <2>7. health'.of[2][1] \in excuse' \/ <<health'.of[1], health'.of[2][1]>> \in barred'
    BY <1>0, <2>1, <2>2, <2>6 DEF Excused, Barred
  <2> HIDE DEF tok
  <2> QED
    BY <1>0, <2>1, <2>4, <2>5, <2>7 DEF Tokens, Excused, Barred
<1>3. CASE RefreshTimesOut
  <2>1. excuse' = excuse \cup Unanswered /\ UNCHANGED <<config, health>>
    BY <1>3 DEF RefreshTimesOut
  <2>2. posts[refreshing].st # "refused" => tok[1] \in excuse'
    BY <1>0, <2>1, TypeFacts DEF Unanswered, Excused, RefreshTimesOut, RefreshAnswer
  <2>3. posts[refreshing].tok = config.token /\ posts[refreshing].st = "rotated" => config.token[1] \in excuse'
    BY <1>0, <2>1, <2>2
  <2>4. TokenOnFileWorks'
    BY <1>0, <2>1, <2>3 DEF Tokens, TokenOnFileWorks, Accepted, Excused
  <2>5. RequestsKnown'
    BY <1>0, <2>1, <2>2 DEF Tokens, RequestsKnown, Excused, Accepted, Barred, Sent
  <2> QED
    BY <1>0, <2>1, <2>4, <2>5 DEF Tokens, Excused, Barred
<1> QED
  BY <1>1, <1>2, <1>3 DEF RefreshAnswer

\* A grant comes to an end at Xero.
LEMMA GrantLost ==
  ASSUME Types, Tokens, NEW g, \A h \in Grants \ {g} : live'[h] = live[h], excuse' = excuse \cup {g},
         UNCHANGED <<config, health, posts, refreshing, consents, barred>>
  PROVE  Tokens'
<1>1. \A tok : tok[1] \in excuse => tok[1] \in excuse'
  OBVIOUS
<1>2. \A tok : Accepted(tok) => Accepted(tok)' \/ tok[1] \in excuse'
  BY DEF Accepted
<1>3. \A tok : Accepted(Successor(tok)) => Accepted(Successor(tok))' \/ tok[1] \in excuse'
  BY DEF Accepted, Successor
<1>4. TokenOnFileWorks'
  BY <1>1, <1>2 DEF Tokens, TokenOnFileWorks, Accepted
<1>5. RequestsKnown'
  BY <1>1, <1>2, <1>3 DEF Tokens, RequestsKnown, Excused, Accepted, Successor, Barred, Sent
<1> QED
  BY <1>4, <1>5 DEF Tokens, Excused, Barred

LEMMA TokensSame ==
  ASSUME Tokens, UNCHANGED tokens
  PROVE  Tokens'
  BY DEF tokens, Tokens, RequestsKnown, TokenOnFileWorks, Excused, Accepted, Barred, Sent

LEMMA CallTokens ==
  ASSUME Types, Tokens, NEW c \in Calls, Answer(c)
  PROVE  Tokens'
<1>1. CASE ListReceived(c) \/ ListFails(c) \/ ExchangeFails(c) \/ RevokeFails(c)
  BY <1>1, TokensSame DEF ListReceived, ListFails, ExchangeFails, RevokeFails, tokens
<1>2. CASE Exchanged(c)
  <2> DEFINE n == consents + 1
  <2>0. config'.token = <<n, 1>>
    <3>1. config' = [config EXCEPT !.type = "oauth", !.token = <<n, 1>>]
      BY <1>2 DEF Exchanged
    <3> QED
      BY <3>1 DEF Types, Configs
  <2>1. /\ consents \in Nat /\ n \in Grants /\ consents' = n /\ live' = [live EXCEPT ![n] = 1]
        /\ config'.token = <<n, 1>> /\ health' = Sound /\ UNCHANGED <<refreshing, posts, barred, excuse>>
    BY <1>2, <2>0, BoundsAssumption DEF Exchanged, Types, Grants
  <2>2. \A g \in 1..consents : g \in 1..n /\ g # n
    BY <2>1
  <2>3. live'[n] = 1 /\ \A g \in Grants : g # n => live'[g] = live[g]
    BY <2>1 DEF Types
  <2>4. n \in 1..n
    BY <2>1
  <2> HIDE DEF n
  <2>5. TokenOnFileWorks'
    BY <2>1, <2>3 DEF TokenOnFileWorks, Accepted
  <2>6. RequestsKnown'
    BY <2>1, <2>2, <2>3 DEF Tokens, RequestsKnown, Excused, Accepted, Successor, Barred, Sent
  <2>7. health'.needs = FALSE
    BY <2>1 DEF Sound
  <2> QED
    BY <2>1, <2>4, <2>5, <2>6, <2>7 DEF Tokens
<1>3. CASE DisconnectClears(c)
  <2>1. config'.token = NoToken /\ UNCHANGED <<refreshing, posts, consents, live, barred, excuse>>
    BY <1>3 DEF DisconnectClears, Disconnected, Types, Configs
  <2>2. health'.needs = FALSE
    BY <1>3 DEF DisconnectClears, Sound
  <2> QED
    BY <2>1, <2>2 DEF Tokens, RequestsKnown, TokenOnFileWorks, Excused, Accepted, Barred, Sent
<1>4. CASE XeroRevokes(c)
  <2> DEFINE g == calls[c].tok[1]
  <2>1. live' = [live EXCEPT ![g] = 0] \/ live' = live
    BY <1>4 DEF XeroRevokes
  <2>2. \A h \in Grants \ {g} : live'[h] = live[h]
    BY <2>1 DEF Types
  <2>3. excuse' = excuse \cup {g} /\ UNCHANGED <<config, health, posts, refreshing, consents, barred>>
    BY <1>4 DEF XeroRevokes
  <2> HIDE DEF g
  <2> QED
    BY <2>2, <2>3, GrantLost
<1> QED
  BY <1>1, <1>2, <1>3, <1>4 DEF Answer

\* Xero answers a request: it accepts the token on file, or one excused.
LEMMA XeroTokens ==
  ASSUME Types, Tokens, NEW p \in DOMAIN posts, XeroRefreshes(p)
  PROVE  Tokens'
<1> DEFINE tok == posts[p].tok
<1>1. /\ posts[p].st = "sent" /\ UNCHANGED <<config, health, refreshing, consents, barred, excuse>>
      /\ DOMAIN posts' = DOMAIN posts /\ \A q \in DOMAIN posts : q # p => posts'[q] = posts[q]
  BY DEF XeroRefreshes, memory
<1>2. tok \in Token /\ tok[1] \in 1..consents /\ (Excused(tok) \/ (p = refreshing /\ Accepted(tok)))
  BY <1>1, TypeFacts DEF Tokens, RequestsKnown
<1>3. posts'[p].tok = tok /\ posts'[p].app = posts[p].app /\ posts'[p].st \in {"rotated", "refused"}
  BY TypeFacts DEF XeroRefreshes, Post
<1>4. CASE Accepted(tok) /\ ~Barred(Sent(p))
  <2>1. posts'[p].st = "rotated" /\ live' = [live EXCEPT ![tok[1]] = @ + 1] /\ tok[1] \in Grants
    BY <1>4, TypeFacts DEF XeroRefreshes, Accepted, Post
  <2>2. live'[tok[1]] = tok[2] + 1 /\ \A g \in Grants : g # tok[1] => live'[g] = live[g]
    BY <1>4, <2>1 DEF Accepted, Types
  <2>3. TokenOnFileWorks'
    <3> SUFFICES ASSUME config.token # NoToken, ~Excused(config.token)
                 PROVE  \/ Accepted(config.token)'
                        \/ refreshing # 0 /\ posts'[refreshing].tok = config.token /\ posts'[refreshing].st = "rotated"
      BY <1>1 DEF TokenOnFileWorks, Excused
    <3>1. CASE refreshing # 0 /\ posts[refreshing].tok = config.token /\ posts[refreshing].st = "rotated"
      <4>1. refreshing # p /\ refreshing \in DOMAIN posts
        BY <1>1, <3>1, TypeFacts
      <4> QED
        BY <1>1, <3>1, <4>1
    <3>2. CASE Accepted(config.token) /\ config.token[1] # tok[1]
      BY <1>1, <2>2, <3>2 DEF Accepted
    <3>3. CASE Accepted(config.token) /\ config.token[1] = tok[1]
      <4>1. config.token = tok
        BY <1>2, <1>4, <3>3, TypeFacts, TokenTypes DEF Accepted
      <4>2. p = refreshing
        BY <1>2, <4>1
      <4>3. posts'[p].tok = tok /\ posts'[p].st = "rotated"
        BY <1>3, <2>1
      <4>4. refreshing # 0
        BY <4>2, TypeFacts DEF Types
      <4> QED
        BY <4>1, <4>2, <4>3, <4>4
    <3> QED
      BY <3>1, <3>2, <3>3 DEF Tokens, TokenOnFileWorks, Excused
  <2>4. RequestsKnown'
    <3> SUFFICES ASSUME NEW q \in DOMAIN posts, NEW t, t = posts'[q].tok
                 PROVE  /\ t[1] \in 1..consents
                        /\ posts'[q].st = "sent" =>
                             Excused(t) \/ (q = refreshing /\ t[1] \in Grants /\ live'[t[1]] = t[2])
                        /\ posts'[q].st = "rotated" /\ q = refreshing =>
                             Excused(t) \/ (t[1] \in Grants /\ live'[t[1]] = t[2] + 1)
                        /\ posts'[q].st = "refused" => Excused(t) \/ <<posts'[q].app, t[1]>> \in barred
      BY <1>1 DEF RequestsKnown, Excused, Accepted, Successor, Barred, Sent
    <3>1. CASE q = p
      <4>1. t = tok
        BY <1>3, <3>1
      <4> HIDE DEF tok
      <4> QED
        BY <1>2, <1>3, <2>1, <2>2, <3>1, <4>1
    <3>2. CASE q # p
      <4>1. posts'[q] = posts[q] /\ t = posts[q].tok
        BY <1>1, <3>2
      <4>2. q = refreshing => Excused(tok)
        BY <1>2, <3>2
      <4>3. /\ t[1] \in 1..consents
            /\ posts[q].st = "sent" => Excused(t) \/ (q = refreshing /\ t[1] \in Grants /\ live[t[1]] = t[2])
            /\ posts[q].st = "rotated" /\ q = refreshing => Excused(t) \/ (t[1] \in Grants /\ live[t[1]] = t[2] + 1)
            /\ posts[q].st = "refused" => Excused(t) \/ <<posts[q].app, t[1]>> \in barred
        BY <4>1 DEF Tokens, RequestsKnown, Accepted, Successor, Barred, Sent
      <4>4. t[1] = tok[1] => Excused(t) \/ q # refreshing
        BY <4>2 DEF Excused
      <4> HIDE DEF tok
      <4> QED
        BY <2>2, <4>1, <4>3, <4>4
    <3> QED
      BY <3>1, <3>2
  <2> QED
    BY <1>1, <2>3, <2>4 DEF Tokens, Excused, Barred
<1>5. CASE ~(Accepted(tok) /\ ~Barred(Sent(p)))
  <2>1. posts'[p].st = "refused" /\ live' = live
    BY <1>5, TypeFacts DEF XeroRefreshes, Post
  <2>2. Excused(tok) \/ <<posts[p].app, tok[1]>> \in barred
    BY <1>2, <1>5 DEF Barred, Sent
  <2>3. TokenOnFileWorks'
    <3>1. p = refreshing => posts[refreshing].st # "rotated"
      BY <1>1
    <3>2. refreshing # 0 => refreshing \in DOMAIN posts
      BY TypeFacts
    <3> QED
      BY <1>1, <2>1, <3>1, <3>2 DEF Tokens, TokenOnFileWorks, Accepted
  <2>4. RequestsKnown'
    <3> HIDE DEF tok
    <3> QED
      BY <1>1, <1>2, <1>3, <2>1, <2>2 DEF Tokens, RequestsKnown, Excused, Accepted, Successor, Barred, Sent
  <2> QED
    BY <1>1, <2>3, <2>4 DEF Tokens, Excused, Barred
<1> QED
  BY <1>4, <1>5

LEMMA RestartTokens ==
  ASSUME Types, Tokens, Restart
  PROVE  Tokens'
<1>1. /\ excuse' = excuse \cup Unanswered /\ refreshing' = 0
      /\ UNCHANGED <<config, health, posts, consents, live, barred>>
  BY DEF Restart
<1>2. refreshing # 0 /\ posts[refreshing].st # "refused" => posts[refreshing].tok[1] \in excuse'
  BY <1>1 DEF Unanswered
<1>3. TokenOnFileWorks'
  BY <1>1, <1>2 DEF Tokens, TokenOnFileWorks, Accepted
<1>4. RequestsKnown'
  <2>1. \A p \in DOMAIN posts : p # 0
    BY DEF Types
  <2> QED
    BY <1>1, <1>2, <2>1 DEF Tokens, RequestsKnown, Excused, Accepted, Barred, Sent
<1> QED
  BY <1>1, <1>3, <1>4 DEF Tokens, Excused, Barred

\* Xero refuses the Client ID and Secret: the token stays what it was.
LEMMA BarsTokens ==
  ASSUME Types, Tokens, NEW p \in DOMAIN posts, XeroBars(p)
  PROVE  Tokens'
<1>1. /\ posts[p].st = "sent" /\ UNCHANGED <<config, health, refreshing, consents, live, excuse>>
      /\ DOMAIN posts' = DOMAIN posts /\ \A q \in DOMAIN posts : q # p => posts'[q] = posts[q]
      /\ barred' = barred \cup {<<posts[p].app, posts[p].tok[1]>>}
  BY DEF XeroBars, memory
<1>2. posts'[p].tok = posts[p].tok /\ posts'[p].app = posts[p].app /\ posts'[p].st = "refused"
  BY TypeFacts DEF XeroBars, Post
<1>3. TokenOnFileWorks'
  <2>1. refreshing # 0 => refreshing \in DOMAIN posts
    BY TypeFacts
  <2> QED
    BY <1>1, <1>2, <2>1 DEF Tokens, TokenOnFileWorks, Accepted
<1>4. RequestsKnown'
  BY <1>1, <1>2 DEF Tokens, RequestsKnown, Excused, Accepted, Successor, Barred, Sent
<1> QED
  BY <1>1, <1>3, <1>4 DEF Tokens, Excused, Barred

LEMMA TokensStep == Types /\ Tokens /\ [Next]_vars => Tokens'
<1> SUFFICES ASSUME Types, Tokens, [Next]_vars PROVE Tokens'
  OBVIOUS
<1>1. ASSUME NEW g \in Grants, GrantEnds(g)
      PROVE  Tokens'
  <2>1. \A h \in Grants \ {g} : live'[h] = live[h]
    BY <1>1 DEF GrantEnds, Types
  <2> QED
    BY <1>1, <2>1, GrantLost DEF GrantEnds, memory
<1>2. CASE Expire \/ UNCHANGED vars
  BY <1>2, TokensSame DEF Expire, vars, memory, tokens
<1>3. ASSUME NEW a \in Apps, SaveApp(a)
      PROVE  Tokens'
  <2>1. config'.token = config.token /\ UNCHANGED <<health, posts, refreshing, consents, live, barred, excuse>>
    BY <1>3 DEF SaveApp, memory, Types, Configs
  <2> QED
    BY <2>1 DEF Tokens, RequestsKnown, TokenOnFileWorks, Excused, Accepted, Barred, Sent
<1> QED
  BY <1>1, <1>2, <1>3, BeginTokens, AnswerTokens, CallTokens, XeroTokens, BarsTokens, RestartTokens DEF Next, World

LEMMA TokensAlways == Spec => []Tokens
  BY TypesInit, TokensInit, TypesStep, TokensStep, PTL DEF Spec

\* Whoever refreshes, consents and disconnects at once, and whatever restarts,
\* the refresh token on file is the one Xero accepts, unless its grant was
\* ended or an answer of Xero never came.
THEOREM FileIsGood == Spec => []TokenOnFileWorks
<1>1. Tokens => TokenOnFileWorks
  BY DEF Tokens
<1> QED
  BY <1>1, TokensAlways, PTL

\* Nobody is told that Xero refuses the connection because two refreshes met, or
\* for a token or a Secret since replaced (oauth.js:297, reconnect.js:126-128).
THEOREM AskedForAReason == Spec => []NeverAskedInVain
<1>1. Tokens => NeverAskedInVain
  BY DEF Tokens, NeverAskedInVain, KnownRefused, Excused, OnFile
<1> QED
  BY <1>1, TokensAlways, PTL

-----------------------------------------------------------------------------
(* Filtering a list.                                                       *)

\* A set of numbers that is not empty has a least one.
LEMMA Least ==
  ASSUME NEW T \in SUBSET Nat, T # {}
  PROVE  \E n \in T : \A m \in T : ~(m < n)
<1>1. \E n \in T : \A m \in T : ~(<<m, n>> \in OpToRel(<, Nat))
  BY NatLessThanWellFounded, WFMin, Zenon
<1> QED
  BY <1>1, Zenon DEF OpToRel

\* A function that filters s up to its nth element, from the first one on.
Filters(f, n, s, S) ==
  f = [i \in 0..n |-> IF i = 0 THEN <<>>
                      ELSE IF s[i] \in S THEN Append(f[i - 1], s[i]) ELSE f[i - 1]]

LEMMA FilterExists ==
  ASSUME NEW s, NEW S, NEW n \in Nat
  PROVE  \E f : Filters(f, n, s, S)
<1> DEFINE T == {m \in Nat : ~\E f : Filters(f, m, s, S)}
<1> SUFFICES ASSUME T # {} PROVE FALSE
  OBVIOUS
<1>1. PICK m \in T : \A k \in T : ~(k < m)
  BY Least
<1>2. CASE m = 0
  <2> DEFINE f == [i \in 0..0 |-> <<>>]
  <2>1. Filters(f, 0, s, S)
    BY DEF Filters
  <2> QED
    BY <1>1, <1>2, <2>1
<1>3. CASE m # 0
  <2>1. m \in Nat /\ m - 1 \in Nat /\ m - 1 < m
    BY <1>1, <1>3
  <2>2. PICK f : Filters(f, m - 1, s, S)
    BY <1>1, <2>1
  <2> DEFINE last == IF s[m] \in S THEN Append(f[m - 1], s[m]) ELSE f[m - 1]
             g == [i \in 0..m |-> IF i < m THEN f[i] ELSE last]
  <2>3. \A i \in 0..(m - 1) : f[i] = IF i = 0 THEN <<>>
                                     ELSE IF s[i] \in S THEN Append(f[i - 1], s[i]) ELSE f[i - 1]
    BY <2>2, Zenon DEF Filters
  <2>4. ASSUME NEW i \in 0..m
        PROVE  g[i] = IF i = 0 THEN <<>> ELSE IF s[i] \in S THEN Append(g[i - 1], s[i]) ELSE g[i - 1]
    <3>1. CASE i < m
      BY <2>1, <2>3, <3>1
    <3>2. CASE i = m
      BY <2>1, <3>2, <1>3
    <3> QED
      BY <2>1, <3>1, <3>2
  <2>5. Filters(g, m, s, S)
    BY <2>4 DEF Filters
  <2> QED
    BY <1>1, <2>5
<1> QED
  BY <1>2, <1>3

LEMMA FilteredIs ==
  ASSUME NEW A, NEW s \in Seq(A), NEW S
  PROVE  \E f : Filters(f, Len(s), s, S) /\ Filtered(s, S) = f[Len(s)]
<1> DEFINE f == CHOOSE g : Filters(g, Len(s), s, S)
<1>1. Filters(f, Len(s), s, S)
  BY FilterExists
<1>2. Filtered(s, S) = f[Len(s)]
  BY DEF Filtered, Filters
<1> QED
  BY <1>1, <1>2

\* Filtering keeps the elements that belong, and no others.
LEMMA FilteredKeeps ==
  ASSUME NEW A, NEW s \in Seq(A), NEW S
  PROVE  Filtered(s, S) \in Seq(A) /\ In(Filtered(s, S)) = In(s) \cap S
<1>1. PICK f : Filters(f, Len(s), s, S) /\ Filtered(s, S) = f[Len(s)]
  BY FilteredIs
<1> DEFINE Here(n) == {s[i] : i \in 1..n} \cap S
           T == {n \in 0..Len(s) : ~(f[n] \in Seq(A) /\ In(f[n]) = Here(n))}
<1>2. Len(s) \in Nat /\ DOMAIN s = 1..Len(s) /\ \A i \in 1..Len(s) : s[i] \in A
  OBVIOUS
<1>3. \A i \in 0..Len(s) : f[i] = IF i = 0 THEN <<>>
                                  ELSE IF s[i] \in S THEN Append(f[i - 1], s[i]) ELSE f[i - 1]
  BY <1>1, Zenon DEF Filters
<1>4. T = {}
  <2> SUFFICES ASSUME T # {} PROVE FALSE
    OBVIOUS
  <2>0. T \subseteq Nat
    BY <1>2
  <2>1. PICK n \in T : \A m \in T : ~(m < n)
    BY <2>0, Least, Zenon
  <2>2. n # 0
    <3> SUFFICES ASSUME n = 0 PROVE FALSE
      OBVIOUS
    <3>1. f[0] = <<>>
      BY <1>2, <1>3
    <3>2. f[0] \in Seq(A) /\ In(f[0]) = {} /\ Here(0) = {}
      BY <3>1 DEF In
    <3> QED
      BY <2>1, <3>2
  <2>3. n \in 1..Len(s) /\ n - 1 \in 0..Len(s) /\ n - 1 < n
    BY <2>1, <2>2, <1>2
  <2>4. f[n - 1] \in Seq(A) /\ In(f[n - 1]) = Here(n - 1)
    BY <2>1, <2>3
  <2>5. f[n] = IF s[n] \in S THEN Append(f[n - 1], s[n]) ELSE f[n - 1]
    BY <1>3, <2>2, <2>3
  <2> HIDE DEF T
  <2>6. Here(n) = Here(n - 1) \cup ({s[n]} \cap S)
    <3>1. 1..n = 1..(n - 1) \cup {n}
      BY <2>3
    <3> QED
      BY <3>1
  <2>7. f[n] \in Seq(A)
    BY <1>2, <2>3, <2>4, <2>5
  <2>8. In(Append(f[n - 1], s[n])) = In(f[n - 1]) \cup {s[n]}
    <3> DEFINE g == f[n - 1]
    <3>1. g \in Seq(A) /\ Len(g) \in Nat /\ DOMAIN g = 1..Len(g)
      BY <2>4
    <3> HIDE DEF g
    <3>2. /\ DOMAIN Append(g, s[n]) = 1..(Len(g) + 1) /\ Append(g, s[n])[Len(g) + 1] = s[n]
          /\ \A i \in 1..Len(g) : Append(g, s[n])[i] = g[i]
      BY <1>2, <2>3, <3>1
    <3>3. 1..(Len(g) + 1) = 1..Len(g) \cup {Len(g) + 1}
      BY <3>1
    <3> QED
      BY <3>1, <3>2, <3>3 DEF In, g
  <2>9. In(f[n]) = Here(n)
    BY <2>4, <2>5, <2>6, <2>8
  <2> QED
    BY <2>1, <2>7, <2>9 DEF T
<1>5. f[Len(s)] \in Seq(A) /\ In(f[Len(s)]) = Here(Len(s))
  <2>1. Len(s) \in 0..Len(s)
    BY <1>2
  <2> QED
    BY <2>1, <1>4, Zenon
<1> QED
  BY <1>1, <1>2, <1>5 DEF In

-----------------------------------------------------------------------------
(* The organisations.                                                      *)

\* A call that lists the organisations has a token to give them, one that asks
\* Xero to revoke has the token of a grant.
Good(call, n) == /\ call.pc = "list" => call.tok # NoToken
                 /\ call.pc = "revoke" => call.tok[1] \in 1..n
InHand == \A c \in Calls : Good(calls[c], consents)

OrganisationTypes ==
  /\ access \in [Tenants -> Token] /\ stale \subseteq Tenants
  /\ listed \in Seq(Tenants) /\ rows \subseteq Tenants
  /\ crashes \in Nat /\ excuse \subseteq Grants /\ barred \subseteq Apps \X Grants
Organisations == OrganisationTypes /\ InHand /\ OrganisationsAgree

LEMMA IdleGood == ASSUME NEW n PROVE Good(Idle, n)
  BY DEF Good, Idle

LEMMA RevokingGood ==
  ASSUME NEW n, NEW tok \in Token, tok # NoToken => tok[1] \in 1..n
  PROVE  Good(Revoking(tok), n)
  BY DEF Good, Revoking, Idle

LEMMA NextToken == \A tok \in Token : Successor(tok) # NoToken
<1> TAKE tok \in Token
<1>1. tok[2] \in Nat
  BY TokenTypes
<1>2. Successor(tok)[2] # NoToken[2]
  BY <1>1 DEF Successor, NoToken
<1> QED
  BY <1>2

LEMMA HandStep ==
  ASSUME Types, InHand, consents' \in Nat, consents' >= consents,
         \A c \in Calls : calls'[c] = calls[c] \/ calls'[c] = Idle \/ Good(calls'[c], consents')
  PROVE  InHand'
<1>1. consents \in Nat
  BY DEF Types
<1>2. ASSUME NEW c \in Calls PROVE Good(calls'[c], consents')
  <2>1. Good(calls[c], consents')
    <3>1. 1..consents \subseteq 1..consents'
      BY <1>1
    <3> QED
      BY <3>1 DEF InHand, Good
  <2> QED
    BY <2>1, IdleGood
<1> QED
  BY <1>2 DEF InHand

LEMMA AnswerHand ==
  ASSUME Types, Tokens, InHand, RefreshAnswer
  PROVE  InHand'
<1>0. consents \in Nat
  BY DEF Types
<1>1. consents' = consents /\ consents \in Nat
  BY <1>0 DEF RefreshAnswer, RefreshSucceeds, RefreshRefused, RefreshTimesOut
<1>2. Good(Revoking(config.token), consents)
  BY RevokingGood, TypeFacts DEF Tokens
<1>3. CASE RefreshSucceeds
  <2> DEFINE new  == Successor(posts[refreshing].tok)
             done == {c \in Awaiting(refreshing) : calls[c].op = "renew"}
             next == [c \in Calls |->
                        IF c \notin Awaiting(refreshing) THEN calls[c]
                        ELSE IF calls[c].op = "disconnect" THEN Revoking(new)
                        ELSE [calls[c] EXCEPT !.pc = "list", !.on = 0, !.tok = new]]
  <2>1. new \in Token /\ next \in [Calls -> Call] /\ calls' = Ended(next, done)
    BY <1>3, SucceedsNext DEF RefreshSucceeds
  <2>2. done \in SUBSET Calls
    BY DEF Awaiting
  <2>3. new # NoToken /\ new[1] \in 1..consents
    <3>1. posts[refreshing].tok \in Token /\ refreshing \in DOMAIN posts
      BY <1>3, TypeFacts DEF RefreshSucceeds
    <3>2. posts[refreshing].tok[1] \in 1..consents
      BY <3>1 DEF Tokens, RequestsKnown
    <3> QED
      BY <3>1, <3>2, NextToken DEF Successor
  <2>4. Good(Revoking(new), consents)
    BY <2>1, <2>3, RevokingGood
  <2>5. \A c \in Calls : Good([calls[c] EXCEPT !.pc = "list", !.on = 0, !.tok = new], consents)
    BY <2>3, TypeFacts DEF Good, Call
  <2>6. \A c \in Calls : next[c] = calls[c] \/ Good(next[c], consents)
    BY <2>4, <2>5
  <2> HIDE DEF new, done, next
  <2>7. \A c \in Calls : calls'[c] = Idle \/ calls'[c] = next[c]
    BY <2>1, <2>2, EndedIs
  <2> QED
    BY <1>1, <2>6, <2>7, HandStep
<1>4. CASE RefreshRefused \/ RefreshTimesOut
  <2> DEFINE done == {c \in Awaiting(refreshing) : calls[c].op # "disconnect"}
             next == [c \in Calls |-> IF c \in Awaiting(refreshing) THEN Revoking(config.token) ELSE calls[c]]
  <2>1. calls' = Ended(next, done) /\ next \in [Calls -> Call] /\ done \in SUBSET Calls
    BY <1>4, WaitersNext DEF RefreshRefused, RefreshTimesOut, WaitersFail, Awaiting
  <2>2. \A c \in Calls : next[c] = calls[c] \/ Good(next[c], consents)
    BY <1>2
  <2> HIDE DEF done, next
  <2>3. \A c \in Calls : calls'[c] = Idle \/ calls'[c] = next[c]
    BY <2>1, EndedIs
  <2> QED
    BY <1>1, <2>2, <2>3, HandStep
<1> QED
  BY <1>3, <1>4 DEF RefreshAnswer

\* A call begins as this.
Starting(c, call) == calls' = [calls EXCEPT ![c] = call] /\ consents' = consents

LEMMA BeginHand ==
  ASSUME Types, Tokens, InHand, NEW c \in Calls, Begin(c)
  PROVE  InHand'
<1>0. consents \in Nat /\ calls \in [Calls -> Call]
  BY DEF Types
<1>1. CASE Disconnect(c) /\ refreshing = 0
  <2>1. calls' = [calls EXCEPT ![c] = Revoking(config.token)] /\ consents' = consents
    BY <1>1 DEF Disconnect
  <2>2. Good(Revoking(config.token), consents)
    BY RevokingGood, TypeFacts DEF Tokens
  <2> QED
    BY <1>0, <2>1, <2>2, HandStep
<1>2. CASE ~(Disconnect(c) /\ refreshing = 0)
  <2>1. ASSUME NEW call, Starting(c, call), call.pc \notin {"list", "revoke"}
        PROVE  InHand'
    BY <1>0, <2>1, HandStep DEF Starting, Good
  <2>2. CASE Disconnect(c)
    <3> DEFINE call == [Idle EXCEPT !.pc = "wait", !.op = "disconnect", !.on = refreshing]
    <3>1. Starting(c, call)
      BY <1>2, <2>2 DEF Disconnect, AwaitRefresh, Starting
    <3>2. call.pc = "wait"
      BY DEF Idle
    <3> HIDE DEF call
    <3> QED
      BY <2>1, <3>1, <3>2
  <2>3. CASE Complete(c)
    <3> DEFINE call == [Idle EXCEPT !.pc = "exchange", !.op = "complete"]
    <3>1. Starting(c, call)
      BY <2>3 DEF Complete, Starting
    <3>2. call.pc = "exchange"
      BY DEF Idle
    <3> HIDE DEF call
    <3> QED
      BY <2>1, <3>1, <3>2
  <2>4. ASSUME NEW op, Followed(c, op) PROVE InHand'
    <3> DEFINE call == [Idle EXCEPT !.pc = "joined", !.op = op]
    <3>1. Starting(c, call)
      BY <2>4 DEF Followed, Starting, tokens
    <3>2. call.pc = "joined"
      BY DEF Idle
    <3> HIDE DEF call
    <3> QED
      BY <2>1, <3>1, <3>2
  <2>5. ASSUME NEW op, Joins(c, op) PROVE InHand'
    <3> DEFINE call == [Idle EXCEPT !.pc = "refresh", !.op = op, !.on = refreshing]
    <3>1. Starting(c, call)
      BY <2>5 DEF Joins, Starting, tokens
    <3>2. call.pc = "refresh"
      BY DEF Idle
    <3> HIDE DEF call
    <3> QED
      BY <2>1, <3>1, <3>2
  <2>6. ASSUME NEW op, Makes(c, op) PROVE InHand'
    <3> DEFINE call == [Idle EXCEPT !.pc = "refresh", !.op = op, !.on = Len(posts) + 1]
    <3>1. Starting(c, call)
      BY <2>6 DEF Makes, Starting
    <3>2. call.pc = "refresh"
      BY DEF Idle
    <3> HIDE DEF call
    <3> QED
      BY <2>1, <3>1, <3>2
  <2> QED
    BY <2>2, <2>3, <2>4, <2>5, <2>6, BeginIs
<1> QED
  BY <1>1, <1>2

LEMMA CallHand ==
  ASSUME Types, Tokens, InHand, NEW c \in Calls, Answer(c)
  PROVE  InHand'
<1>0. consents \in Nat
  BY DEF Types
<1>1. CASE ListReceived(c) \/ ListFails(c)
  <2>1. calls' = Ended(calls, {c}) /\ consents' = consents
    BY <1>1 DEF ListReceived, ListFails, Ends
  <2>2. \A d \in Calls : calls'[d] = Idle \/ calls'[d] = calls[d]
    BY <2>1, EndedIs DEF Types
  <2> QED
    BY <1>0, <2>1, <2>2, HandStep
<1>2. CASE Exchanged(c)
  <2>1. consents' = consents + 1 /\ calls' = [calls EXCEPT ![c].pc = "list", ![c].tok = <<consents + 1, 1>>]
    BY <1>2 DEF Exchanged
  <2>2. Good(calls'[c], consents')
    <3>1. calls'[c].pc = "list" /\ calls'[c].tok = <<consents + 1, 1>>
      BY <2>1 DEF Types, Call
    <3>2. <<consents + 1, 1>> # NoToken
      BY DEF NoToken
    <3> QED
      BY <3>1, <3>2 DEF Good
  <2>3. \A d \in Calls \ {c} : calls'[d] = calls[d]
    BY <2>1 DEF Types
  <2>4. \A d \in Calls : calls'[d] = calls[d] \/ Good(calls'[d], consents')
    BY <2>2, <2>3
  <2>5. consents' \in Nat /\ consents' >= consents
    BY <1>0, <2>1
  <2> QED
    BY <2>4, <2>5, HandStep
<1>3. CASE ExchangeFails(c) \/ DisconnectClears(c)
  <2>1. calls' = [calls EXCEPT ![c] = Idle] /\ consents' = consents
    BY <1>3 DEF ExchangeFails, DisconnectClears
  <2>2. \A d \in Calls : calls'[d] = calls[d] \/ calls'[d] = Idle
    BY <2>1 DEF Types
  <2> QED
    BY <1>0, <2>1, <2>2, HandStep
<1>4. CASE XeroRevokes(c) \/ RevokeFails(c)
  <2>1. calls' = [calls EXCEPT ![c].pc = "revoked"] /\ consents' = consents
    BY <1>4 DEF XeroRevokes, RevokeFails
  <2>2. calls'[c].pc = "revoked" /\ \A d \in Calls \ {c} : calls'[d] = calls[d]
    BY <2>1 DEF Types, Call
  <2>3. Good(calls'[c], consents')
    BY <2>2 DEF Good
  <2> QED
    BY <1>0, <2>1, <2>2, <2>3, HandStep
<1> QED
  BY <1>1, <1>2, <1>3, <1>4 DEF Answer

LEMMA HandAlways == Types /\ Tokens /\ InHand /\ [Next]_vars => InHand'
<1> SUFFICES ASSUME Types, Tokens, InHand, [Next]_vars PROVE InHand'
  OBVIOUS
<1>0. consents \in Nat
  BY DEF Types
<1>1. CASE Restart
  <2>1. \A c \in Calls : calls'[c] = Idle
    BY <1>1 DEF Restart
  <2>2. consents' = consents
    BY <1>1 DEF Restart
  <2> QED
    BY <1>0, <2>1, <2>2, HandStep
<1>2. CASE World \/ UNCHANGED vars \/ \E a \in Apps : SaveApp(a)
  <2>1. UNCHANGED <<calls, consents>>
    BY <1>2 DEF World, XeroRefreshes, XeroBars, GrantEnds, Expire, SaveApp, memory, vars
  <2> QED
    BY <2>1 DEF InHand
<1> QED
  BY <1>1, <1>2, AnswerHand, BeginHand, CallHand DEF Next

LEMMA InConcat ==
  ASSUME NEW A, NEW s \in Seq(A), NEW t \in Seq(A)
  PROVE  s \o t \in Seq(A) /\ In(s \o t) = In(s) \cup In(t)
<1>1. /\ Len(s) \in Nat /\ Len(t) \in Nat
      /\ DOMAIN s = 1..Len(s) /\ DOMAIN t = 1..Len(t) /\ DOMAIN (s \o t) = 1..(Len(s) + Len(t))
  OBVIOUS
<1>2. /\ \A i \in DOMAIN s : i \in DOMAIN (s \o t) /\ (s \o t)[i] = s[i]
      /\ \A i \in DOMAIN t : Len(s) + i \in DOMAIN (s \o t) /\ (s \o t)[Len(s) + i] = t[i]
  BY <1>1
<1>3. \A i \in DOMAIN (s \o t) : \/ i \in DOMAIN s /\ (s \o t)[i] = s[i]
                                 \/ i - Len(s) \in DOMAIN t /\ (s \o t)[i] = t[i - Len(s)]
  BY <1>1
<1>4. In(s \o t) \subseteq In(s) \cup In(t)
  BY <1>3 DEF In
<1>5. In(s) \subseteq In(s \o t) /\ In(t) \subseteq In(s \o t)
  BY <1>2 DEF In
<1> QED
  BY <1>4, <1>5

\* What OrganisationsAgree comes to: one token, held by those in the list, all
\* of them with a row.
LEMMA AgreeIs ==
  ASSUME OrganisationTypes, OrganisationsAgree
  PROVE  /\ \A t \in Tenants : access[t] # NoToken <=> t \in In(listed)
         /\ In(listed) \subseteq rows
         /\ \A t \in In(listed) : t \in Tenants /\ access[t] = access[listed[1]]
<1>1. In(listed) \subseteq Tenants
  BY DEF OrganisationTypes, In
<1> QED
  BY <1>1 DEF OrganisationsAgree, In

LEMMA AgreeFrom ==
  ASSUME listed' \in Seq(Tenants), NEW tok,
         \A t \in Tenants : access'[t] # NoToken <=> t \in In(listed'),
         In(listed') \subseteq rows',
         \A t \in In(listed') : access'[t] = tok
  PROVE  OrganisationsAgree'
<1>1. In(listed') \subseteq Tenants
  BY DEF In
<1>2. {t \in Tenants : access'[t] # NoToken} = In(listed')
  BY <1>1
<1>3. \A i \in DOMAIN listed' : 1 \in DOMAIN listed'
  OBVIOUS
<1>4. \A i \in DOMAIN listed' : listed'[i] \in rows' /\ access'[listed'[i]] = access'[listed'[1]]
  BY <1>3 DEF In
<1> QED
  BY <1>2, <1>4 DEF OrganisationsAgree

LEMMA RenewedAgree ==
  ASSUME Types, Organisations, NEW tok \in Token, tok # NoToken,
         access' = Renewed(tok), UNCHANGED <<listed, rows>>
  PROVE  access' \in [Tenants -> Token] /\ OrganisationsAgree'
<1>1. OrganisationTypes /\ OrganisationsAgree
  BY DEF Organisations
<1>2. access' \in [Tenants -> Token]
  BY <1>1, TokenTypes DEF Renewed
<1>3. \A t \in Tenants : /\ access'[t] # NoToken <=> access[t] # NoToken
                         /\ access'[t] # NoToken => access'[t] = tok
  BY DEF Renewed
<1>4. listed' \in Seq(Tenants) /\ In(listed') = In(listed) /\ rows' = rows
  BY <1>1 DEF OrganisationTypes
<1>5. OrganisationsAgree'
  BY <1>1, <1>3, <1>4, AgreeIs, AgreeFrom
<1> QED
  BY <1>2, <1>5

LEMMA ListedAgree ==
  ASSUME Types, Organisations, NEW c \in Calls, ListReceived(c)
  PROVE  /\ access' \in [Tenants -> Token] /\ listed' \in Seq(Tenants) /\ rows' \subseteq Tenants
         /\ OrganisationsAgree'
<1> DEFINE tok == calls[c].tok
<1>1. tok \in Token /\ tok # NoToken
  BY TypeFacts DEF ListReceived, Organisations, InHand, Good
<1>2. PICK got \in SUBSET Tenants \ {{}} :
        /\ access' = [t \in Tenants |-> IF t \in got THEN tok ELSE NoToken]
        /\ listed' = Filtered(listed, got) \o Filtered(Order, got \ In(listed))
        /\ rows' = got
  BY DEF ListReceived
<1> HIDE DEF tok
<1>3. access' \in [Tenants -> Token] /\ rows' \subseteq Tenants
  BY <1>1, <1>2, TokenTypes
<1>4. listed \in Seq(Tenants) /\ Order \in Seq(Tenants) /\ In(Order) = Tenants
  BY OrderAssumption DEF Organisations, OrganisationTypes, In
<1>5. /\ Filtered(listed, got) \in Seq(Tenants)
      /\ In(Filtered(listed, got)) = In(listed) \cap got
  BY <1>4, FilteredKeeps
<1>6. /\ Filtered(Order, got \ In(listed)) \in Seq(Tenants)
      /\ In(Filtered(Order, got \ In(listed))) = Tenants \cap (got \ In(listed))
  BY <1>4, FilteredKeeps
<1>7. listed' \in Seq(Tenants) /\ In(listed') = got
  <2> DEFINE kept  == Filtered(listed, got)
             added == Filtered(Order, got \ In(listed))
  <2>1. kept \in Seq(Tenants) /\ added \in Seq(Tenants) /\ listed' = kept \o added
    BY <1>2, <1>5, <1>6
  <2>2. In(kept) \cup In(added) = got
    BY <1>5, <1>6
  <2> HIDE DEF kept, added
  <2>3. kept \o added \in Seq(Tenants) /\ In(kept \o added) = In(kept) \cup In(added)
    BY <2>1, InConcat, ZenonT(40)
  <2> QED
    BY <2>1, <2>2, <2>3
<1>8. \A t \in Tenants : access'[t] # NoToken <=> t \in got
  BY <1>1, <1>2
<1>9. \A t \in got : access'[t] = tok
  BY <1>2
<1>10. OrganisationsAgree'
  BY <1>2, <1>7, <1>8, <1>9, AgreeFrom
<1> QED
  BY <1>3, <1>7, <1>10

LEMMA ClearedAgree ==
  ASSUME Types, Organisations, NEW c \in Calls, DisconnectClears(c)
  PROVE  /\ access' \in [Tenants -> Token] /\ listed' \in Seq(Tenants) /\ rows' \subseteq Tenants
         /\ OrganisationsAgree'
<1> DEFINE left == Tenants \ WalkedOver
<1>1. OrganisationTypes /\ OrganisationsAgree /\ listed \in Seq(Tenants)
  BY DEF Organisations, OrganisationTypes
<1>2. /\ access' = [t \in Tenants |-> IF t \in WalkedOver THEN NoToken ELSE access[t]]
      /\ listed' = Filtered(listed, left) /\ rows' = rows \ WalkedOver
  BY DEF DisconnectClears
<1> HIDE DEF left
<1>3. listed' \in Seq(Tenants) /\ In(listed') = In(listed) \cap left
  BY <1>1, <1>2, FilteredKeeps
<1>4. \A t \in Tenants : access'[t] # NoToken <=> t \in In(listed')
  BY <1>1, <1>2, <1>3, AgreeIs DEF left
<1>5. In(listed') \subseteq rows' /\ \A t \in In(listed') : access'[t] = access[listed[1]]
  BY <1>1, <1>2, <1>3, AgreeIs DEF left
<1>6. OrganisationsAgree'
  BY <1>3, <1>4, <1>5, AgreeFrom
<1>7. access' \in [Tenants -> Token] /\ rows' \subseteq Tenants
  BY <1>1, <1>2, TokenTypes DEF OrganisationTypes
<1> QED
  BY <1>3, <1>6, <1>7

\* The steps that leave the organisations alone.
LEMMA SameAgree ==
  ASSUME OrganisationTypes, OrganisationsAgree, UNCHANGED <<access, listed, rows>>
  PROVE  OrganisationsAgree'
  BY DEF OrganisationTypes, OrganisationsAgree, In

LEMMA ExcuseStep ==
  ASSUME Types, Tokens, InHand, excuse \in SUBSET Grants, Next
  PROVE  excuse' \in SUBSET Grants
<1>1. 1..consents \subseteq Grants
  BY BoundsAssumption DEF Types, Grants
<1>2. Unanswered \subseteq Grants
  BY <1>1, TypeFacts DEF Unanswered, Tokens, RequestsKnown
<1>3. CASE RefreshAnswer
  BY <1>2, <1>3 DEF RefreshAnswer, RefreshSucceeds, RefreshRefused, RefreshTimesOut
<1>4. CASE Restart
  BY <1>2, <1>4 DEF Restart
<1>5. CASE World
  BY <1>5 DEF World, XeroRefreshes, XeroBars, GrantEnds, Expire
<1>8. ASSUME NEW a \in Apps, SaveApp(a) PROVE excuse' \in SUBSET Grants
  BY <1>8 DEF SaveApp
<1>6. ASSUME NEW c \in Calls, Begin(c) PROVE excuse' \in SUBSET Grants
  BY <1>6 DEF Begin, ColdRead, ExpiredRead, Reconnect, KeepAlive, Starts, Complete, Disconnect
<1>7. ASSUME NEW c \in Calls, Answer(c) PROVE excuse' \in SUBSET Grants
  <2>1. CASE XeroRevokes(c)
    <3>1. calls[c].tok[1] \in Grants
      BY <1>1, <2>1 DEF XeroRevokes, InHand, Good
    <3> QED
      BY <2>1, <3>1 DEF XeroRevokes
  <2>2. CASE ~XeroRevokes(c)
    BY <1>7, <2>2 DEF Answer, ListReceived, ListFails, Exchanged, ExchangeFails, RevokeFails, DisconnectClears
  <2> QED
    BY <2>1, <2>2
<1> QED
  BY <1>3, <1>4, <1>5, <1>6, <1>7, <1>8 DEF Next

LEMMA BarredStep ==
  ASSUME Types, Tokens, barred \in SUBSET (Apps \X Grants), [Next]_vars
  PROVE  barred' \in SUBSET (Apps \X Grants)
<1>1. ASSUME NEW p \in DOMAIN posts, XeroBars(p)
      PROVE  barred' \in SUBSET (Apps \X Grants)
  <2>1. posts[p].app \in Apps /\ posts[p].tok[1] \in Grants
    BY TypeFacts, BoundsAssumption DEF Tokens, RequestsKnown, Types, Grants
  <2> QED
    BY <1>1, <2>1 DEF XeroBars
<1>2. ASSUME NEW a \in Apps, SaveApp(a) PROVE barred' = barred
  BY <1>2 DEF SaveApp
<1>3. ASSUME NEW c \in Calls, Begin(c) \/ Answer(c) PROVE barred' = barred
  BY <1>3 DEF Begin, ColdRead, ExpiredRead, Reconnect, KeepAlive, Starts, Complete, Disconnect,
              Answer, ListReceived, ListFails, Exchanged, ExchangeFails, XeroRevokes, RevokeFails, DisconnectClears
<1>4. CASE RefreshAnswer \/ Restart \/ Expire \/ UNCHANGED vars
  BY <1>4 DEF RefreshAnswer, RefreshSucceeds, RefreshRefused, RefreshTimesOut, Restart, Expire, vars
<1>5. ASSUME NEW p \in DOMAIN posts, XeroRefreshes(p) PROVE barred' = barred
  BY <1>5 DEF XeroRefreshes
<1>6. ASSUME NEW g \in Grants, GrantEnds(g) PROVE barred' = barred
  BY <1>6 DEF GrantEnds
<1> QED
  BY <1>1, <1>2, <1>3, <1>4, <1>5, <1>6 DEF Next, World

\* The organisations over the steps that change them, and over all others.
LEMMA ListsStep ==
  ASSUME Types, Tokens, Organisations, [Next]_vars
  PROVE  /\ access' \in [Tenants -> Token] /\ stale' \in SUBSET Tenants
         /\ listed' \in Seq(Tenants) /\ rows' \in SUBSET Tenants
         /\ OrganisationsAgree'
<1> DEFINE Goal == /\ access' \in [Tenants -> Token] /\ stale' \in SUBSET Tenants
                   /\ listed' \in Seq(Tenants) /\ rows' \in SUBSET Tenants
                   /\ OrganisationsAgree'
<1>0. OrganisationTypes /\ OrganisationsAgree
  BY DEF Organisations
<1>1. ASSUME UNCHANGED <<access, listed, rows>>, stale' \in SUBSET Tenants PROVE Goal
  BY <1>0, <1>1, SameAgree DEF OrganisationTypes
<1>2. CASE RefreshSucceeds
  <2> DEFINE new  == Successor(posts[refreshing].tok)
             done == {c \in Awaiting(refreshing) : calls[c].op = "renew"}
  <2>1. /\ access' = IF done = {} THEN access ELSE Renewed(new)
        /\ stale' = IF done = {} THEN stale ELSE {}
        /\ UNCHANGED <<listed, rows>>
    BY <1>2 DEF RefreshSucceeds
  <2>2. new \in Token /\ new # NoToken
    BY <1>2, TypeFacts, TokenTypes, NextToken DEF RefreshSucceeds
  <2> HIDE DEF new, done
  <2>3. stale' \in SUBSET Tenants /\ listed' \in Seq(Tenants) /\ rows' \in SUBSET Tenants
    BY <1>0, <2>1 DEF OrganisationTypes
  <2>4. CASE done = {}
    BY <1>1, <2>1, <2>3, <2>4
  <2>5. CASE done # {}
    <3>1. access' = Renewed(new)
      BY <2>1, <2>5
    <3> QED
      BY <2>1, <2>2, <2>3, <3>1, RenewedAgree
  <2> QED
    BY <2>4, <2>5
<1>3. CASE Restart
  <2>1. /\ access' = [t \in Tenants |-> NoToken] /\ listed' = <<>>
        /\ stale' = {} /\ rows' = rows
    BY <1>3 DEF Restart
  <2>2. OrganisationsAgree'
    BY <2>1 DEF OrganisationsAgree, In
  <2> QED
    BY <1>0, <2>1, <2>2, TokenTypes DEF OrganisationTypes
<1>4. CASE World \/ (\E a \in Apps : SaveApp(a)) \/ RefreshRefused \/ RefreshTimesOut \/ UNCHANGED vars
  <2>1. UNCHANGED <<access, listed, rows>>
    BY <1>4 DEF World, XeroRefreshes, XeroBars, GrantEnds, Expire, SaveApp, memory, RefreshRefused,
                RefreshTimesOut, vars
  <2>2. stale' \in SUBSET Tenants
    BY <1>0, <1>4 DEF World, XeroRefreshes, XeroBars, SaveApp, GrantEnds, Expire, memory, RefreshRefused, RefreshTimesOut, vars,
                      OrganisationTypes
  <2> QED
    BY <1>1, <2>1, <2>2
<1>5. ASSUME NEW c \in Calls, Begin(c) PROVE Goal
  <2>1. UNCHANGED <<access, stale, listed, rows>>
    BY <1>5 DEF Begin, ColdRead, ExpiredRead, Reconnect, KeepAlive, Starts, Complete, Disconnect
  <2> QED
    BY <1>0, <1>1, <2>1 DEF OrganisationTypes
<1>6. ASSUME NEW c \in Calls, Answer(c) PROVE Goal
  <2>1. CASE ListReceived(c)
    BY <2>1, ListedAgree DEF ListReceived
  <2>2. CASE DisconnectClears(c)
    <3>1. stale' \in SUBSET Tenants
      BY <1>0, <2>2 DEF DisconnectClears, OrganisationTypes
    <3> QED
      BY <2>2, <3>1, ClearedAgree
  <2>3. CASE ListFails(c) \/ Exchanged(c) \/ ExchangeFails(c) \/ XeroRevokes(c) \/ RevokeFails(c)
    <3>1. UNCHANGED <<access, stale, listed, rows>>
      BY <2>3 DEF ListFails, Exchanged, ExchangeFails, XeroRevokes, RevokeFails
    <3> QED
      BY <1>0, <1>1, <3>1 DEF OrganisationTypes
  <2> QED
    BY <1>6, <2>1, <2>2, <2>3 DEF Answer
<1> QED
  BY <1>2, <1>3, <1>4, <1>5, <1>6 DEF Next, RefreshAnswer

LEMMA OrganisationsInit == Init => Organisations
<1> SUFFICES ASSUME Init PROVE Organisations
  OBVIOUS
<1>1. InHand
  BY IdleGood DEF Init, InHand
<1>0. /\ access = [t \in Tenants |-> NoToken] /\ stale = {} /\ listed = <<>> /\ rows = {}
      /\ crashes = 0 /\ excuse = {} /\ barred = {}
  BY DEF Init
<1>2. OrganisationTypes
  BY <1>0, TokenTypes DEF OrganisationTypes
<1>3. OrganisationsAgree
  BY <1>0 DEF OrganisationsAgree, In
<1> QED
  BY <1>1, <1>2, <1>3 DEF Organisations

LEMMA OrganisationsStep == Types /\ Tokens /\ Organisations /\ [Next]_vars => Organisations'
<1> SUFFICES ASSUME Types, Tokens, Organisations, [Next]_vars PROVE Organisations'
  OBVIOUS
<1>0. OrganisationTypes /\ InHand
  BY DEF Organisations
<1>1. InHand'
  BY <1>0, HandAlways
<1>2. crashes' \in Nat
  <2>1. crashes' = crashes \/ crashes' = crashes + 1
    BY DEF Next, RefreshAnswer, RefreshSucceeds, RefreshRefused, RefreshTimesOut, Restart, World, XeroRefreshes,
           XeroBars, SaveApp, GrantEnds, Expire, Begin, ColdRead, ExpiredRead, Reconnect, KeepAlive, Starts, Complete, Disconnect,
           Answer, ListReceived, ListFails, Exchanged, ExchangeFails, XeroRevokes, RevokeFails,
           DisconnectClears, vars
  <2> QED
    BY <1>0, <2>1 DEF OrganisationTypes
<1>3. excuse' \in SUBSET Grants
  <2>1. CASE Next
    BY <1>0, <2>1, ExcuseStep DEF OrganisationTypes
  <2>2. CASE UNCHANGED vars
    BY <1>0, <2>2 DEF OrganisationTypes, vars
  <2> QED
    BY <2>1, <2>2
<1>5. barred' \in SUBSET (Apps \X Grants)
  BY <1>0, BarredStep DEF OrganisationTypes
<1>4. OrganisationTypes' /\ OrganisationsAgree'
  BY <1>2, <1>3, <1>5, ListsStep DEF OrganisationTypes
<1> QED
  BY <1>1, <1>4 DEF Organisations

LEMMA OrganisationsAlways == Spec => [](Types /\ Organisations)
  BY TypesInit, TokensInit, OrganisationsInit, TypesStep, TokensStep, OrganisationsStep, PTL DEF Spec

\* What is kept of a connection has its type.
THEOREM ConnectionTypes == Spec => []TypeOK
<1>1. Types /\ Organisations => TypeOK
  BY DEF Types, Configs, Healths, Organisations, OrganisationTypes, TypeOK
<1> QED
  BY <1>1, OrganisationsAlways, PTL

\* The tokens in memory, the list of organisations and the table of them never
\* drift apart, whatever lists Xero sends and wherever a disconnect stops.
THEOREM OneListOfOrganisations == Spec => []OrganisationsAgree
<1>1. Organisations => OrganisationsAgree
  BY DEF Organisations
<1> QED
  BY <1>1, OrganisationsAlways, PTL
=============================================================================
