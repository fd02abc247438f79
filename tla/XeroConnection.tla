--------------------------- MODULE XeroConnection ---------------------------
(***************************************************************************)
(* One account's OAuth connection to Xero: main/xero/oauth.js,             *)
(* main/xero/reconnect.js, main/utils/token-cache.js,                      *)
(* main/routes/xero-oauth.js and main/jobs/xero-keepalive.js.              *)
(*                                                                         *)
(* Xero replaces the refresh token at every use. A grant is one consent;   *)
(* its refresh tokens are <<grant, 1>>, <<grant, 2>>, ... in the order     *)
(* they are issued, and the access token issued with a refresh token has   *)
(* its name. Every request is made with the Client ID and Secret on file   *)
(* at the time, which Xero may refuse too. A call is one asynchronous      *)
(* function under way; it is cut at its awaits, where everything else may  *)
(* happen.                                                                 *)
(***************************************************************************)
EXTENDS Naturals, Sequences, FiniteSets

CONSTANTS Calls,     \* calls that can be under way
          NoCall,
          Tenants,   \* the organisations
          Order,     \* the sequence in which Xero lists them
          Apps,      \* what may be on file as Client ID and Secret
          MaxGrants, \* bound on consents
          MaxBarred, \* bound on the refusals of a Client ID and Secret
          MaxPosts,  \* bound on requests to the token endpoint
          MaxCrashes \* bound on restarts

ASSUME NoCallAssumption == NoCall \notin Calls
ASSUME OrderAssumption == Order \in Seq(Tenants) /\ Tenants = {Order[i] : i \in DOMAIN Order}
ASSUME BoundsAssumption == MaxGrants \in Nat /\ MaxPosts \in Nat /\ MaxCrashes \in Nat /\ MaxBarred \in Nat

VARIABLES
  config,       \* users.js: connection type, refresh token, Client ID and Secret
  health,       \* token-cache: needsReconnect, and the fingerprint it was said of
  access,       \* token-cache: [tenant -> access token] in memory
  stale,        \* the tenants whose access token is past its half hour
  listed,       \* token-cache: the tenants in memory, in order
  rows,         \* the table xero_tenants
  refreshing,   \* oauth.js _refreshing: the request under way, 0 for none
  reconnecting, \* token-cache _reconnecting: the call that leads it
  renewing,     \* token-cache _refreshing: the call that leads it
  calls,        \* [Calls -> Call]
  posts,        \* requests made to the token endpoint, oldest first
  consents,     \* how many grants people gave
  live,         \* Xero: [grant -> index of the refresh token it accepts, 0 for none]
  barred,       \* Xero: the <<app, grant>> it refuses, whatever the token
  crashes,
  excuse        \* history: grants ended at Xero, or with an answer that never came

memory == <<access, stale, listed, refreshing, reconnecting, renewing, calls>>
vars   == <<config, health, rows, memory, posts, consents, live, barred, crashes, excuse>>

Grants  == 1..MaxGrants
NoToken == <<0, 0>>
Token   == (0..MaxGrants) \X Nat
Successor(tok) == <<tok[1], tok[2] + 1>>
Accepted(tok)  == tok[1] \in Grants /\ live[tok[1]] = tok[2]

\* credentialFingerprint: the Client ID and Secret, and the refresh token.
Fingerprint == Apps \X Token
OnFile      == <<config.app, config.token>>
Barred(f)   == <<f[1], f[2][1]>> \in barred

Call == [pc  : {"idle", "joined", "refresh", "list", "exchange", "wait", "revoke", "revoked"},
         op  : {"none", "cold", "renew", "direct", "complete", "disconnect"},
         on  : Nat,            \* the request awaited
         tok : Token]          \* the token in hand

Idle == [pc |-> "idle", op |-> "none", on |-> 0, tok |-> NoToken]
Post == [app : Apps, tok : Token, st : {"sent", "rotated", "refused"}]
Sent(p) == <<posts[p].app, posts[p].tok>>

\* A token was issued: nothing is said of any fingerprint.
NoPrint == <<>>
Sound == [needs |-> FALSE, of |-> NoPrint]

\* The configuration without a connection.
Disconnected == [config EXCEPT !.type = "", !.token = NoToken]

TypeOK ==
  /\ config \in [type : {"", "oauth"}, token : Token, app : Apps]
  /\ health \in [needs : BOOLEAN, of : Fingerprint \cup {NoPrint}]
  /\ access \in [Tenants -> Token] /\ stale \subseteq Tenants
  /\ listed \in Seq(Tenants) /\ rows \subseteq Tenants
  /\ refreshing \in 0..Len(posts)
  /\ reconnecting \in Calls \cup {NoCall} /\ renewing \in Calls \cup {NoCall}
  /\ calls \in [Calls -> Call]
  /\ posts \in Seq(Post)
  /\ consents \in 0..MaxGrants
  /\ live \in [Grants -> Nat] /\ barred \subseteq Apps \X Grants
  /\ crashes \in Nat /\ excuse \subseteq Grants

Init ==
  /\ config \in [type : {""}, token : {NoToken}, app : Apps] /\ health = Sound
  /\ access = [t \in Tenants |-> NoToken] /\ stale = {} /\ listed = <<>> /\ rows = {}
  /\ refreshing = 0 /\ reconnecting = NoCall /\ renewing = NoCall
  /\ calls = [c \in Calls |-> Idle]
  /\ posts = <<>> /\ consents = 0
  /\ live = [g \in Grants |-> 0] /\ barred = {}
  /\ crashes = 0 /\ excuse = {}

-----------------------------------------------------------------------------
(* The shared refresh, oauth.js refreshAuthCodeToken.                      *)

\* Xero refused what is on file before; only a person asking tries it again.
KnownRefused == health.needs /\ health.of = OnFile

MayRefresh(force) ==
  \/ refreshing # 0
  \/ config.token # NoToken /\ (force \/ ~KnownRefused) /\ Len(posts) < MaxPosts

AwaitRefresh(c, op, p) ==
  calls' = [calls EXCEPT ![c] = [Idle EXCEPT !.pc = IF op = "disconnect" THEN "wait" ELSE "refresh",
                                             !.op = op, !.on = p]]

\* Mutant of Refresh: every call makes a request of its own.
RefreshAlone(c, op, force) ==
  /\ config.token # NoToken /\ (force \/ ~KnownRefused) /\ Len(posts) < MaxPosts
  /\ AwaitRefresh(c, op, Len(posts) + 1)
  /\ refreshing' = Len(posts) + 1
  /\ posts' = Append(posts, [app |-> config.app, tok |-> config.token, st |-> "sent"])

\* A call shares the request under way, or makes one with the token on file.
Refresh(c, op, force) ==
  /\ MayRefresh(force)
  /\ IF refreshing # 0
     THEN AwaitRefresh(c, op, refreshing) /\ UNCHANGED <<refreshing, posts>>
     ELSE /\ AwaitRefresh(c, op, Len(posts) + 1)
          /\ refreshing' = Len(posts) + 1
          /\ posts' = Append(posts, [app |-> config.app, tok |-> config.token, st |-> "sent"])

Starts == UNCHANGED <<config, health, access, stale, listed, rows, consents, live, barred, crashes, excuse>>

\* getValidToken without a token in memory: one reconnect for all who ask.
ColdRead(c) ==
  /\ calls[c] = Idle
  /\ \E t \in Tenants : access[t] = NoToken
  /\ IF reconnecting # NoCall
     THEN /\ calls' = [calls EXCEPT ![c] = [Idle EXCEPT !.pc = "joined", !.op = "cold"]]
          /\ UNCHANGED <<reconnecting, refreshing, posts>>
     ELSE /\ config.type = "oauth"
          /\ reconnecting' = c
          /\ Refresh(c, "cold", FALSE)
  /\ UNCHANGED renewing /\ Starts

\* getValidToken with a token past its time: one renewal for all who ask.
ExpiredRead(c) ==
  /\ calls[c] = Idle
  /\ stale # {}
  /\ IF renewing # NoCall
     THEN /\ calls' = [calls EXCEPT ![c] = [Idle EXCEPT !.pc = "joined", !.op = "renew"]]
          /\ UNCHANGED <<renewing, refreshing, posts>>
     ELSE renewing' = c /\ Refresh(c, "renew", FALSE)
  /\ UNCHANGED reconnecting /\ Starts

\* A reconnect asked for directly: a send with no organisation in memory, or,
\* with force, the Test button.
Reconnect(c) ==
  /\ calls[c] = Idle
  /\ config.type = "oauth"
  /\ \E force \in BOOLEAN : Refresh(c, "direct", force)
  /\ UNCHANGED <<reconnecting, renewing>> /\ Starts

\* The daily job: only a connection on file that nothing is said against.
KeepAlive(c) ==
  /\ calls[c] = Idle
  /\ config.type = "oauth" /\ config.token # NoToken /\ ~health.needs
  /\ Refresh(c, "direct", FALSE)
  /\ UNCHANGED <<reconnecting, renewing>> /\ Starts

-----------------------------------------------------------------------------
(* How calls end.                                                          *)

\* The calls that share what a call of S leads. Mutant: its failure is not theirs.
NoFollowers(S) == {}
Followers(S) == {c \in Calls : /\ calls[c].pc = "joined"
                               /\ \/ calls[c].op = "cold" /\ reconnecting \in S
                                  \/ calls[c].op = "renew" /\ renewing \in S}

\* cs after the calls of S ended, and with them those that shared their work.
Ended(cs, S) == [c \in Calls |-> IF c \in S \cup Followers(S) THEN Idle ELSE cs[c]]

Released(S) == /\ reconnecting' = IF reconnecting \in S THEN NoCall ELSE reconnecting
               /\ renewing' = IF renewing \in S THEN NoCall ELSE renewing

Ends(S) == calls' = Ended(calls, S) /\ Released(S)

\* A disconnect about to ask Xero to revoke; with no token there is nothing to ask.
Revoking(tok) == [Idle EXCEPT !.pc = IF tok = NoToken THEN "revoked" ELSE "revoke",
                              !.op = "disconnect", !.tok = tok]

Awaiting(p) == {c \in Calls : calls[c].on = p}

\* Mutant of Renewed: only one organisation gets the new token.
RenewedOne(tok) == LET t == CHOOSE u \in stale : TRUE
                   IN [access EXCEPT ![t] = tok]
\* The new token, for every organisation of the connection.
Renewed(tok) == [t \in Tenants |-> IF access[t] = NoToken THEN NoToken ELSE tok]

\* Mutant of Saved: the new refresh token is not written.
NotSaved(tok) == config
Saved(tok) == [config EXCEPT !.token = tok]

\* The answer with the next token: saved before anything else, then everyone
\* who waited goes on.
RefreshSucceeds ==
  /\ refreshing # 0
  /\ posts[refreshing].st = "rotated"
  /\ LET new  == Successor(posts[refreshing].tok)
         done == {c \in Awaiting(refreshing) : calls[c].op = "renew"}
         next == [c \in Calls |->
                    IF c \notin Awaiting(refreshing) THEN calls[c]
                    ELSE IF calls[c].op = "disconnect" THEN Revoking(new)
                    ELSE [calls[c] EXCEPT !.pc = "list", !.on = 0, !.tok = new]]
     IN /\ config' = Saved(new)
        /\ calls' = Ended(next, done) /\ Released(done)
        /\ access' = IF done = {} THEN access ELSE Renewed(new)
        /\ stale' = IF done = {} THEN stale ELSE {}
  /\ health' = Sound
  /\ refreshing' = 0
  /\ UNCHANGED <<listed, rows, posts, consents, live, barred, crashes, excuse>>

\* Everyone who waited fails, but a disconnect, which goes on regardless.
WaitersFail ==
  LET done == {c \in Awaiting(refreshing) : calls[c].op # "disconnect"}
      next == [c \in Calls |-> IF c \in Awaiting(refreshing) THEN Revoking(config.token) ELSE calls[c]]
  IN /\ calls' = Ended(next, done) /\ Released(done)
     /\ refreshing' = 0

\* Mutant of Refused: the refusal is put down to whatever is on file now.
RefusedNow == OnFile
\* A refusal is about what was sent, any part of which may have been replaced:
\* invalid_grant is of the token, invalid_client of the Client ID and Secret.
Refused == Sent(refreshing)

RefreshRefused ==
  /\ refreshing # 0
  /\ posts[refreshing].st = "refused"
  /\ health' = [needs |-> TRUE, of |-> Refused]
  /\ WaitersFail
  /\ UNCHANGED <<config, access, stale, listed, rows, posts, consents, live, barred, crashes, excuse>>

\* No answer within ten seconds, whatever Xero made of the request.
Unanswered == IF refreshing # 0 /\ posts[refreshing].st # "refused"
              THEN {posts[refreshing].tok[1]} ELSE {}

RefreshTimesOut ==
  /\ refreshing # 0
  /\ excuse' = excuse \cup Unanswered
  /\ WaitersFail
  /\ UNCHANGED <<config, health, access, stale, listed, rows, posts, consents, live, barred, crashes>>

-----------------------------------------------------------------------------
(* The organisations, oauth.js _listAndCacheTenants.                       *)

ListFails(c) ==
  /\ calls[c].pc = "list"
  /\ Ends({c})
  /\ UNCHANGED <<config, health, access, stale, listed, rows, refreshing, posts,
                 consents, live, barred, crashes, excuse>>

In(s) == {s[i] : i \in DOMAIN s}

\* What is left of s when only those of S stay.
Filtered(s, S) ==
  LET upto[i \in 0..Len(s)] ==
        IF i = 0 THEN <<>>
        ELSE IF s[i] \in S THEN Append(upto[i - 1], s[i]) ELSE upto[i - 1]
  IN upto[Len(s)]

\* cacheToken for each organisation listed, then pruneTenants. Xero made the
\* list at some moment since the token was issued: any list may arrive, and an
\* empty one is an error.
ListReceived(c) ==
  \E got \in SUBSET Tenants \ {{}} :
    LET tok == calls[c].tok
    IN /\ calls[c].pc = "list"
       /\ access' = [t \in Tenants |-> IF t \in got THEN tok ELSE NoToken]
       /\ stale' = {}
       /\ listed' = Filtered(listed, got) \o Filtered(Order, got \ In(listed))
       /\ rows' = got
       /\ Ends({c})
       /\ UNCHANGED <<config, health, refreshing, posts, consents, live, barred, crashes, excuse>>

-----------------------------------------------------------------------------
(* Consent and disconnect.                                                 *)

\* POST /oauth/complete, with the code of a new consent.
Complete(c) ==
  /\ calls[c] = Idle
  /\ consents < MaxGrants
  /\ calls' = [calls EXCEPT ![c] = [Idle EXCEPT !.pc = "exchange", !.op = "complete"]]
  /\ UNCHANGED <<config, health, access, stale, listed, rows, refreshing, reconnecting, renewing, posts,
                 consents, live, barred, crashes, excuse>>

Exchanged(c) ==
  LET tok == <<consents + 1, 1>>
  IN /\ calls[c].pc = "exchange"
     /\ consents < MaxGrants
     /\ <<config.app, consents + 1>> \notin barred
     /\ consents' = consents + 1
     /\ live' = [live EXCEPT ![consents + 1] = 1]
     /\ config' = [config EXCEPT !.type = "oauth", !.token = tok]
     /\ health' = Sound
     /\ calls' = [calls EXCEPT ![c].pc = "list", ![c].tok = tok]
     /\ UNCHANGED <<access, stale, listed, rows, refreshing, reconnecting, renewing, posts,
                    barred, crashes, excuse>>

\* The code is refused, or its answer is lost: a grant nobody here has a token of.
ExchangeFails(c) ==
  /\ calls[c].pc = "exchange"
  /\ calls' = [calls EXCEPT ![c] = Idle]
  /\ UNCHANGED <<config, health, access, stale, listed, rows, refreshing, reconnecting, renewing, posts,
                 consents, live, barred, crashes, excuse>>

\* POST /api/setup with another Client ID or Secret: the token and the mark stay.
SaveApp(a) ==
  /\ a # config.app
  /\ config' = [config EXCEPT !.app = a]
  /\ UNCHANGED <<health, rows, memory, posts, consents, live, barred, crashes, excuse>>

\* DELETE /oauth/disconnect: a refresh under way is waited for first.
Disconnect(c) ==
  /\ calls[c] = Idle
  /\ IF refreshing # 0
     THEN AwaitRefresh(c, "disconnect", refreshing)
     ELSE calls' = [calls EXCEPT ![c] = Revoking(config.token)]
  /\ UNCHANGED <<config, health, access, stale, listed, rows, refreshing, reconnecting, renewing, posts,
                 consents, live, barred, crashes, excuse>>

\* removeTenant takes the organisation out of the list that is being walked,
\* so the walk steps over the one after it.
WalkedOver == {listed[i] : i \in {j \in DOMAIN listed : j % 2 = 1}}

\* After Xero answered, or did not: what is kept here is cleared either way.
DisconnectClears(c) ==
  LET left == Tenants \ WalkedOver
  IN /\ calls[c].pc = "revoked"
     /\ access' = [t \in Tenants |-> IF t \in WalkedOver THEN NoToken ELSE access[t]]
     /\ listed' = Filtered(listed, left)
     /\ stale' = stale \ WalkedOver
     /\ rows' = rows \ WalkedOver
     /\ config' = Disconnected
     /\ health' = Sound
     /\ calls' = [calls EXCEPT ![c] = Idle]
     /\ UNCHANGED <<refreshing, reconnecting, renewing, posts, consents, live, barred, crashes, excuse>>

\* The revocation does not reach Xero, or its answer is lost.
RevokeFails(c) ==
  /\ calls[c].pc = "revoke"
  /\ calls' = [calls EXCEPT ![c].pc = "revoked"]
  /\ UNCHANGED <<config, health, access, stale, listed, rows, refreshing, reconnecting, renewing, posts,
                 consents, live, barred, crashes, excuse>>

-----------------------------------------------------------------------------
(* A restart, and Xero.                                                    *)

\* The process ends and starts again: what was only in memory is gone, and a
\* request it had made is still on its way.
Restart ==
  /\ crashes < MaxCrashes
  /\ crashes' = crashes + 1
  /\ excuse' = excuse \cup Unanswered
  /\ access' = [t \in Tenants |-> NoToken] /\ stale' = {} /\ listed' = <<>>
  /\ refreshing' = 0 /\ reconnecting' = NoCall /\ renewing' = NoCall
  /\ calls' = [c \in Calls |-> Idle]
  /\ UNCHANGED <<config, health, rows, posts, consents, live, barred>>

XeroRefreshes(p) ==
  LET tok == posts[p].tok
  IN /\ posts[p].st = "sent"
     /\ IF Accepted(tok) /\ ~Barred(Sent(p))
        THEN /\ posts' = [posts EXCEPT ![p].st = "rotated"]
             /\ live' = [live EXCEPT ![tok[1]] = @ + 1]
        ELSE posts' = [posts EXCEPT ![p].st = "refused"] /\ UNCHANGED live
     /\ UNCHANGED <<config, health, rows, memory, consents, barred, crashes, excuse>>

\* invalid_client, unauthorized_client: the Client ID and Secret are refused,
\* now and from now on. They were mistyped or replaced at Xero, or are not
\* those of the app the grant was given to. The grant lives on.
XeroBars(p) ==
  /\ posts[p].st = "sent" /\ Cardinality(barred) < MaxBarred
  /\ posts' = [posts EXCEPT ![p].st = "refused"]
  /\ barred' = barred \cup {<<posts[p].app, posts[p].tok[1]>>}
  /\ UNCHANGED <<config, health, rows, memory, consents, live, crashes, excuse>>

\* Revoking the current token ends the grant. What revoking one that was just
\* replaced does is not written anywhere: either.
XeroRevokes(c) ==
  LET g == calls[c].tok[1]
  IN /\ calls[c].pc = "revoke"
     /\ live' \in {[live EXCEPT ![g] = 0]} \cup (IF Accepted(calls[c].tok) THEN {} ELSE {live})
     /\ excuse' = excuse \cup {g}
     /\ calls' = [calls EXCEPT ![c].pc = "revoked"]
     /\ UNCHANGED <<config, health, access, stale, listed, rows, refreshing, reconnecting, renewing, posts,
                    consents, barred, crashes>>

\* Sixty days without a refresh, or a person ends the app's access at Xero.
\* Nobody here can tell before a request of the grant is on its way.
GrantEnds(g) ==
  /\ live[g] # 0
  /\ \E p \in DOMAIN posts : posts[p].st = "sent" /\ posts[p].tok[1] = g
  /\ live' = [live EXCEPT ![g] = 0]
  /\ excuse' = excuse \cup {g}
  /\ UNCHANGED <<config, health, rows, memory, posts, consents, barred, crashes>>

\* The half hour of an access token: longer than any call that holds it.
Expire ==
  \E tok \in {access[t] : t \in Tenants \ stale} \ {NoToken} :
    /\ \A c \in Calls : calls[c].tok # tok
    /\ stale' = stale \cup {t \in Tenants : access[t] = tok}
    /\ UNCHANGED <<config, health, rows, access, listed, refreshing, reconnecting, renewing, calls,
                   posts, consents, live, barred, crashes, excuse>>

-----------------------------------------------------------------------------
RefreshAnswer == RefreshSucceeds \/ RefreshRefused \/ RefreshTimesOut

\* What each request comes to: it is answered, or its ten seconds pass.
Answer(c) == \/ ListReceived(c) \/ ListFails(c)
             \/ Exchanged(c) \/ ExchangeFails(c)
             \/ XeroRevokes(c) \/ RevokeFails(c)
             \/ DisconnectClears(c)

Begin(c) == \/ ColdRead(c) \/ ExpiredRead(c) \/ Reconnect(c) \/ KeepAlive(c)
            \/ Complete(c) \/ Disconnect(c)

World == \/ \E p \in DOMAIN posts : XeroRefreshes(p) \/ XeroBars(p)
         \/ \E g \in Grants : GrantEnds(g)
         \/ Expire

Next == RefreshAnswer \/ Restart \/ World \/ (\E a \in Apps : SaveApp(a)) \/ \E c \in Calls : Begin(c) \/ Answer(c)

Spec == Init /\ [][Next]_vars

-----------------------------------------------------------------------------
(* Properties.                                                             *)

\* The refresh token on file is one Xero accepts, whoever refreshes, connects
\* and disconnects at once, unless its grant was ended or an answer was lost
\* (the comment at oauth.js:302: "the new token must be persisted before this
\* function returns, or the connection silently breaks").
TokenOnFileWorks ==
  config.token # NoToken =>
    \/ Accepted(config.token)
    \/ config.token[1] \in excuse
    \/ refreshing # 0 /\ posts[refreshing].tok = config.token /\ posts[refreshing].st = "rotated"

\* People are told that Xero refuses what is on file (reconnect.js
\* getConnectionStatus) only when it does: the grant was ended or an answer was
\* lost, or the very Client ID and Secret on file are refused. Never because
\* two refreshes met ("a lost race must not look like one", oauth.js:297), nor
\* for a token or a Secret since replaced (reconnect.js:126-128).
NeverAskedInVain == config.token # NoToken /\ KnownRefused =>
  config.token[1] \in excuse \/ Barred(OnFile)

\* The organisations with a token in memory, the list in memory and the rows
\* never drift apart, and all of them hold the same token: "every tenant on it
\* gets the new one" (token-cache.js:123).
OrganisationsAgree ==
  /\ {t \in Tenants : access[t] # NoToken} = In(listed)
  /\ \A i \in DOMAIN listed : listed[i] \in rows /\ access[listed[i]] = access[listed[1]]

\* The refresh is shared as SingleFlight says: one request at a time, and no
\* call waits for one that is over.
Shared == INSTANCE SingleFlight WITH Callers <- Calls, run <- refreshing, started <- Len(posts),
                                     awaits <- [c \in Calls |-> calls[c].on]
RefreshIsShared == Shared!Spec

\* A call that shares another's work has someone to wait for, who has a request
\* under way: whatever that one meets (a refusal, a refresh shared with a
\* disconnect, a restart), nobody is left waiting for good.
NobodyStranded ==
  \A c \in Calls :
    /\ calls[c].pc = "joined" =>
         \E l \in Calls : /\ l = (IF calls[c].op = "cold" THEN reconnecting ELSE renewing)
                          /\ calls[l].op = calls[c].op /\ calls[l].pc \in {"refresh", "list"}
    /\ calls[c].pc \in {"refresh", "wait"} => calls[c].on = refreshing

\* Once a person has disconnected and nothing is under way, nothing of the
\* connection is left: "the local state is cleared either way"
\* (xero-oauth.js:140). The code does not keep it.
DisconnectForgets ==
  config.type = "" /\ (\A c \in Calls : calls[c] = Idle) =>
    config.token = NoToken /\ listed = <<>> /\ rows = {}

\* A new consent replaces the old connection. The code does not keep it: a
\* refresh of the old one that is under way writes its token over the new one.
LatestConsentKept ==
  [][\A g \in Grants : config.token[1] = g => config'.token[1] = 0 \/ config'.token[1] >= g]_vars
=============================================================================
