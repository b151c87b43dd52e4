------------------------ MODULE CloudflareTokenProofs ------------------------
(***************************************************************************)
(* The connection to Cloudflare for any number of isolates, requests and   *)
(* grants.  PresentsOnce needs to know where a refresh token can be: the   *)
(* newest one of a grant is in the column, or known to one request         *)
(* (RotationInv).  ColumnAsAsked and DisconnectForgets speak of writers    *)
(* that do not overlap; then there is one at a time, and what the column   *)
(* holds follows from how far that one has come (ConnectionInv).           *)
(***************************************************************************)
EXTENDS CloudflareToken, TLAPS

Token == [grant : Grants, number : Nat \ {0}]

\* What a request carries, if it is not idle.
Plain == [stage : {"await", "read", "consent", "disconnect", "uncache_disconnected"},
          isolate : Isolates]
Carrying == [stage : {"exchange", "store", "cache", "revoked", "uncache",
                      "connect", "cache_connected"},
             isolate : Isolates, token : Token]

TypeOK ==
  /\ cloudflare_oauth_token \in Token \cup {None}
  /\ live \in [Grants -> Nat]
  /\ granted \in Nat /\ granted <= MaxGrants
  /\ cachedAccessToken \in [Isolates -> Grants \cup {None}]
  /\ refreshPromise \in [Isolates -> Requests \cup {None}]
  /\ req \in [Requests -> {Idle} \cup Plain \cup Carrying]
  /\ asked \in Grants \cup {None}
  /\ disturbed \in BOOLEAN
  /\ used \in [Isolates -> SUBSET Token]
  /\ forgotten \in [Isolates -> SUBSET Grants]

Stage(r, stage) == req[r].stage = stage
Carries(r) == req[r].stage \in {"exchange", "store", "cache", "revoked", "uncache",
                               "connect", "cache_connected"}

\* One refresh at a time in an isolate: whoever refreshes is its refreshPromise.
OneRefresh ==
  \A r \in Requests : req[r].stage \in RefreshStages => refreshPromise[req[r].isolate] = r

\* Nothing mentions a grant that has not been given.
GrantsAreGiven ==
  /\ \A g \in Grants : g > granted => live[g] = 0
  /\ cloudflare_oauth_token # None => cloudflare_oauth_token.grant <= granted
  /\ \A r \in Requests : Carries(r) => req[r].token.grant <= granted
  /\ \A i \in Isolates : /\ \A token \in used[i] : token.grant <= granted
                         /\ \A g \in forgotten[i] : g <= granted
  /\ asked # None => asked <= granted

\* No token runs ahead of the one that Cloudflare accepts, and a replaced one is behind.
NotAhead(token) == live[token.grant] = 0 \/ token.number <= live[token.grant]
TokensNotAhead ==
  /\ cloudflare_oauth_token # None => NotAhead(cloudflare_oauth_token)
  /\ \A r \in Requests : Stage(r, "exchange") => NotAhead(req[r].token)
  /\ \A i \in Isolates : \A token \in used[i] :
       live[token.grant] = 0 \/ token.number < live[token.grant]

\* Every token of this grant in the column, about to be presented or replaced is older
\* than number.
AllBelow(grant, number) ==
  /\ cloudflare_oauth_token # None /\ cloudflare_oauth_token.grant = grant
       => cloudflare_oauth_token.number < number
  /\ \A s \in Requests : Stage(s, "exchange") /\ req[s].token.grant = grant
       => req[s].token.number < number
  /\ \A i \in Isolates : \A token \in used[i] : token.grant = grant => token.number < number

\* The answer to an exchange is the newest token of its grant, and known to one request.
RotatedIsNewest ==
  \A r \in Requests : Stage(r, "store") =>
    /\ live[req[r].token.grant] \in {0, req[r].token.number + 1}
    /\ AllBelow(req[r].token.grant, req[r].token.number + 1)
    /\ \A s \in Requests : Stage(s, "store") /\ req[s].token.grant = req[r].token.grant => s = r

\* The token of a new grant is known to the callback alone.
ConnectedIsNew ==
  \A r \in Requests : Stage(r, "connect") =>
    /\ req[r].token.number = 1 /\ live[req[r].token.grant] \in {0, 1}
    /\ AllBelow(req[r].token.grant, 1)
    /\ \A s \in Requests \ {r} : Carries(s) => req[s].token.grant # req[r].token.grant

\* What is in the column has not been replaced by anyone, and what an isolate is about
\* to present has not been replaced by it.
Newer(token, i) == \A old \in used[i] : old.grant = token.grant => old.number < token.number
NotReplaced ==
  /\ cloudflare_oauth_token # None => \A i \in Isolates : Newer(cloudflare_oauth_token, i)
  /\ \A r \in Requests : Stage(r, "exchange") => Newer(req[r].token, req[r].isolate)

RotationInv ==
  /\ TypeOK /\ OneRefresh /\ GrantsAreGiven /\ TokensNotAhead
  /\ RotatedIsNewest /\ ConnectedIsNew /\ NotReplaced

\* As long as writers have not overlapped there is one at a time.
SoleWriter == \A r, s \in Requests : Writes(r) /\ Writes(s) => r = s

Asked ==
  IF cloudflare_oauth_token = None THEN asked = None \/ live[asked] = 0
  ELSE /\ cloudflare_oauth_token.grant = asked
       /\ live[asked] \in {0, cloudflare_oauth_token.number}

\* What the column holds at each stage of the writer: only an exchange puts it out of date,
\* until its answer is stored.
ColumnFollows ==
  /\ (\A r \in Requests : ~Stage(r, "store")) => Asked
  /\ \A r \in Requests :
       /\ Stage(r, "exchange") \/ Stage(r, "store") \/ Stage(r, "revoked")
            => cloudflare_oauth_token = req[r].token /\ asked = req[r].token.grant
       /\ Stage(r, "revoked") => live[req[r].token.grant] = 0
       /\ Stage(r, "uncache_disconnected") => cloudflare_oauth_token = None

\* A grant that an isolate was told to forget is nowhere any more.
ForgottenIsGone ==
  \A i \in Isolates :
    /\ cachedAccessToken[i] \notin forgotten[i]
    /\ cloudflare_oauth_token # None => cloudflare_oauth_token.grant \notin forgotten[i]
    /\ \A r \in Requests : Carries(r) => req[r].token.grant \notin forgotten[i]

Connection == SoleWriter /\ ColumnFollows /\ ForgottenIsGone
ConnectionInv == RotationInv /\ (~disturbed => Connection)

-----------------------------------------------------------------------------
(* What the proofs keep needing                                            *)

LEMMA Carrier ==
  ASSUME TypeOK, NEW r \in Requests, Carries(r)
  PROVE  /\ req[r] \in Carrying
         /\ req[r].isolate \in Isolates /\ req[r].token \in Token
         /\ req[r].token.grant \in Grants
         /\ req[r].token.number \in Nat /\ req[r].token.number >= 1
<1>1. req[r] \in Carrying
  BY DEF TypeOK, Carries, Idle, Plain
<1> QED
  BY <1>1 DEF Carrying, Token

\* One request goes on to a given state, the others stay where they are.
LEMMA GoesOn ==
  ASSUME TypeOK, NEW r \in Requests, NEW state \in {Idle} \cup Plain \cup Carrying, Goes(r, state)
  PROVE  /\ req' \in [Requests -> {Idle} \cup Plain \cup Carrying]
         /\ req'[r] = state
         /\ \A s \in Requests \ {r} : req'[s] = req[s]
BY DEF TypeOK, Goes

\* A token is carried on to the next stage.
LEMMA StageTyped ==
  ASSUME TypeOK, NEW r \in Requests, Carries(r),
         NEW stage \in {"exchange", "store", "cache", "revoked", "uncache", "connect",
                        "cache_connected"}
  PROVE  /\ [req[r] EXCEPT !.stage = stage] \in Carrying
         /\ [req[r] EXCEPT !.stage = stage].stage = stage
         /\ [req[r] EXCEPT !.stage = stage].isolate = req[r].isolate
         /\ [req[r] EXCEPT !.stage = stage].token = req[r].token
BY Carrier DEF Carrying

\* Steps by which no token is learned or replaced: requests are dropped or go on with
\* what they carry, and nothing is added to what has been used.
Quiet ==
  /\ \A s \in Requests : Carries(s)' =>
       Carries(s) /\ req'[s].token = req[s].token /\ req'[s].isolate = req[s].isolate
  /\ \A s \in Requests, stage \in {"exchange", "store", "connect"} :
       Stage(s, stage)' => Stage(s, stage)
  /\ cloudflare_oauth_token' \in {cloudflare_oauth_token, None}
  /\ granted' = granted
  /\ \A g \in Grants : live'[g] \in {live[g], 0}
  /\ \A i \in Isolates : /\ used'[i] \subseteq used[i]
                         /\ \A g \in forgotten'[i] : g <= granted
  /\ asked' \in {asked, None}

LEMMA QuietStep ==
  ASSUME RotationInv, Quiet, TypeOK', OneRefresh'
  PROVE  RotationInv'
<1> USE DEF RotationInv, Quiet
<1>1. \A s \in Requests, stage \in {"exchange", "store", "connect"} :
        Stage(s, stage) => Carries(s)
  BY DEF Stage, Carries
<1>2. \A s \in Requests, stage \in {"exchange", "store", "connect"} :
        Stage(s, stage)' => /\ Stage(s, stage) /\ req'[s].token = req[s].token
                            /\ req'[s].isolate = req[s].isolate
  BY DEF Stage, Carries
<1>3. \A s \in Requests : Carries(s) => req[s].token \in Token
  BY Carrier
<1>4. \A g \in Grants : live[g] \in Nat
  BY DEF TypeOK
<1>5. GrantsAreGiven'
  BY <1>4 DEF GrantsAreGiven, Grants, TypeOK
<1>6. TokensNotAhead'
  BY <1>1, <1>2, <1>3, <1>4 DEF TokensNotAhead, NotAhead, Token, TypeOK
<1>7. \A g \in Grants, n \in Nat : AllBelow(g, n) => AllBelow(g, n)'
  BY <1>2 DEF AllBelow
<1>8. RotatedIsNewest'
  BY <1>1, <1>2, <1>3, <1>7 DEF RotatedIsNewest, Token
<1>9. ConnectedIsNew'
  BY <1>1, <1>2, <1>3, <1>7 DEF ConnectedIsNew, Token
<1>10. NotReplaced'
  <2>1. \A s \in Requests : Stage(s, "exchange")' =>
          /\ Newer(req[s].token, req[s].isolate)
          /\ req'[s].token = req[s].token /\ req'[s].isolate = req[s].isolate
          /\ req[s].isolate \in Isolates
    BY <1>1, <1>2, Carrier DEF NotReplaced
  <2> QED
    BY <2>1 DEF NotReplaced, Newer
<1> QED
  BY <1>5, <1>6, <1>8, <1>9, <1>10

-----------------------------------------------------------------------------
(* The steps                                                               *)

LEMMA QuietActions ==
  ASSUME RotationInv
  PROVE  /\ \A r \in Requests, i \in Isolates :
              Join(r, i) \/ Refresh(r, i) \/ BeginCallback(r, i) \/ BeginDisconnect(r, i)
                => RotationInv'
         /\ \A r \in Requests :
              (\/ Refused(r) \/ ExchangeFails(r) \/ RotationLost(r) \/ CacheRotated(r)
               \/ ClearRevoked(r) \/ UncacheRevoked(r)) => RotationInv'
         /\ \A r \in Requests :
              (\/ CallbackFails(r) \/ CacheConnected(r) \/ ClearConnected(r)
               \/ UncacheDisconnected(r)) => RotationInv'
         /\ \A i \in Isolates : Expires(i) \/ Evict(i) => RotationInv'
         /\ \A g \in Grants : Revoke(g) => RotationInv'
<1> USE DEF RotationInv, ghosts
<1>1. ASSUME NEW r \in Requests, NEW i \in Isolates, Join(r, i) PROVE RotationInv'
  <2>1. TypeOK'
    BY <1>1 DEF Join, TypeOK, Goes, Idle, Plain, Carrying
  <2>2. OneRefresh'
    BY <1>1 DEF Join, OneRefresh, TypeOK, Goes, RefreshStages, Idle, Plain, Carrying
  <2>3. Quiet
    BY <1>1 DEF Join, Quiet, TypeOK, Goes, Stage, Carries, Idle, Plain, Carrying,
       GrantsAreGiven, Grants
  <2> QED
    BY <2>1, <2>2, <2>3, QuietStep
<1>2. ASSUME NEW r \in Requests, NEW i \in Isolates, Refresh(r, i) PROVE RotationInv'
  <2>1. TypeOK'
    BY <1>2 DEF Refresh, TypeOK, Goes, Enters, Idle, Plain, Carrying
  <2>2. OneRefresh'
    BY <1>2, CloudflareAssumption DEF Refresh, OneRefresh, TypeOK, Goes, RefreshStages, Idle,
       Plain, Carrying
  <2>3. Quiet
    BY <1>2 DEF Refresh, Quiet, TypeOK, Goes, Stage, Carries, Idle, Plain, Carrying,
       GrantsAreGiven, Grants
  <2> QED
    BY <2>1, <2>2, <2>3, QuietStep
<1>3. ASSUME NEW r \in Requests, NEW i \in Isolates, BeginCallback(r, i) PROVE RotationInv'
  <2>1. TypeOK'
    BY <1>3 DEF BeginCallback, TypeOK, Goes, Enters, Idle, Plain, Carrying
  <2>2. OneRefresh'
    BY <1>3 DEF BeginCallback, OneRefresh, TypeOK, Goes, RefreshStages, Idle, Plain, Carrying
  <2>3. Quiet
    BY <1>3 DEF BeginCallback, Quiet, TypeOK, Goes, Stage, Carries, Idle, Plain, Carrying,
       GrantsAreGiven, Grants
  <2> QED
    BY <2>1, <2>2, <2>3, QuietStep
<1>4. ASSUME NEW r \in Requests, NEW i \in Isolates, BeginDisconnect(r, i) PROVE RotationInv'
  <2>1. TypeOK'
    BY <1>4 DEF BeginDisconnect, TypeOK, Goes, Enters, Idle, Plain, Carrying
  <2>2. OneRefresh'
    BY <1>4 DEF BeginDisconnect, OneRefresh, TypeOK, Goes, RefreshStages, Idle, Plain, Carrying
  <2>3. Quiet
    BY <1>4 DEF BeginDisconnect, Quiet, TypeOK, Goes, Stage, Carries, Idle, Plain, Carrying,
       GrantsAreGiven, Grants
  <2> QED
    BY <2>1, <2>2, <2>3, QuietStep
<1>5. ASSUME NEW r \in Requests, Refused(r) PROVE RotationInv'
  <2>1. TypeOK'
    BY <1>5 DEF Refused, TypeOK, Goes, Idle, Plain, Carrying
  <2>2. OneRefresh'
    BY <1>5 DEF Refused, OneRefresh, TypeOK, Goes, RefreshStages, Idle, Plain, Carrying
  <2>3. Quiet
    BY <1>5 DEF Refused, Quiet, TypeOK, Goes, Stage, Carries, Idle, Plain, Carrying,
       GrantsAreGiven, Grants
  <2> QED
    BY <2>1, <2>2, <2>3, QuietStep
<1>6. ASSUME NEW r \in Requests, ExchangeFails(r) PROVE RotationInv'
  <2>1. TypeOK'
    BY <1>6 DEF ExchangeFails, TypeOK, Settle, Idle, Plain, Carrying
  <2>2. OneRefresh'
    BY <1>6 DEF ExchangeFails, OneRefresh, TypeOK, Settle, RefreshStages, Idle, Plain, Carrying
  <2>3. Quiet
    BY <1>6 DEF ExchangeFails, Quiet, TypeOK, Settle, Stage, Carries, Idle, Plain, Carrying,
       GrantsAreGiven, Grants
  <2> QED
    BY <2>1, <2>2, <2>3, QuietStep
<1>7. ASSUME NEW r \in Requests, RotationLost(r) PROVE RotationInv'
  <2>1. TypeOK'
    BY <1>7 DEF RotationLost, TypeOK, Settle, Idle, Plain, Carrying
  <2>2. OneRefresh'
    BY <1>7 DEF RotationLost, OneRefresh, TypeOK, Settle, RefreshStages, Idle, Plain, Carrying
  <2>3. Quiet
    BY <1>7 DEF RotationLost, Quiet, TypeOK, Settle, Stage, Carries, Idle, Plain, Carrying,
       GrantsAreGiven, Grants
  <2> QED
    BY <2>1, <2>2, <2>3, QuietStep
<1>8. ASSUME NEW r \in Requests, CacheRotated(r) PROVE RotationInv'
  <2>1. TypeOK'
    BY <1>8, Carrier DEF CacheRotated, Carries, TypeOK, Settle, Idle, Plain, Carrying
  <2>2. OneRefresh'
    BY <1>8 DEF CacheRotated, OneRefresh, TypeOK, Settle, RefreshStages, Idle, Plain, Carrying
  <2>3. Quiet
    BY <1>8 DEF CacheRotated, Quiet, TypeOK, Settle, Stage, Carries, Idle, Plain, Carrying,
       GrantsAreGiven, Grants
  <2> QED
    BY <2>1, <2>2, <2>3, QuietStep
<1>9. ASSUME NEW r \in Requests, ClearRevoked(r) PROVE RotationInv'
  <2>1. TypeOK'
    BY <1>9 DEF ClearRevoked, TypeOK, Goes, Idle, Plain, Carrying
  <2>2. OneRefresh'
    BY <1>9 DEF ClearRevoked, OneRefresh, TypeOK, Goes, RefreshStages, Idle, Plain, Carrying
  <2>3. Quiet
    BY <1>9 DEF ClearRevoked, Quiet, TypeOK, Goes, Stage, Carries, Idle, Plain, Carrying,
       GrantsAreGiven, Grants
  <2> QED
    BY <2>1, <2>2, <2>3, QuietStep
<1>10. ASSUME NEW r \in Requests, UncacheRevoked(r) PROVE RotationInv'
  <2>1. TypeOK'
    BY <1>10 DEF UncacheRevoked, TypeOK, Settle, Idle, Plain, Carrying
  <2>2. OneRefresh'
    BY <1>10 DEF UncacheRevoked, OneRefresh, TypeOK, Settle, RefreshStages, Idle, Plain, Carrying
  <2>3. Quiet
    BY <1>10 DEF UncacheRevoked, Quiet, TypeOK, Settle, Stage, Carries, Idle, Plain, Carrying,
       GrantsAreGiven, Grants
  <2> QED
    BY <2>1, <2>2, <2>3, QuietStep
<1>11. ASSUME NEW r \in Requests, CallbackFails(r) PROVE RotationInv'
  <2>1. TypeOK'
    BY <1>11 DEF CallbackFails, TypeOK, Goes, Idle, Plain, Carrying
  <2>2. OneRefresh'
    BY <1>11 DEF CallbackFails, OneRefresh, TypeOK, Goes, RefreshStages, Idle, Plain, Carrying
  <2>3. Quiet
    BY <1>11 DEF CallbackFails, Quiet, TypeOK, Goes, Stage, Carries, Idle, Plain, Carrying,
       GrantsAreGiven, Grants
  <2> QED
    BY <2>1, <2>2, <2>3, QuietStep
<1>12. ASSUME NEW r \in Requests, CacheConnected(r) PROVE RotationInv'
  <2>1. TypeOK'
    BY <1>12, Carrier DEF CacheConnected, Carries, TypeOK, Goes, Idle, Plain, Carrying
  <2>2. OneRefresh'
    BY <1>12 DEF CacheConnected, OneRefresh, TypeOK, Goes, RefreshStages, Idle, Plain, Carrying
  <2>3. Quiet
    BY <1>12 DEF CacheConnected, Quiet, TypeOK, Goes, Stage, Carries, Idle, Plain, Carrying,
       GrantsAreGiven, Grants
  <2> QED
    BY <2>1, <2>2, <2>3, QuietStep
<1>13. ASSUME NEW r \in Requests, ClearConnected(r) PROVE RotationInv'
  <2>1. TypeOK'
    BY <1>13 DEF ClearConnected, TypeOK, Goes, Idle, Plain, Carrying
  <2>2. OneRefresh'
    BY <1>13 DEF ClearConnected, OneRefresh, TypeOK, Goes, RefreshStages, Idle, Plain, Carrying
  <2>3. Quiet
    BY <1>13 DEF ClearConnected, Quiet, TypeOK, Goes, Stage, Carries, Idle, Plain, Carrying,
       GrantsAreGiven, Grants
  <2> QED
    BY <2>1, <2>2, <2>3, QuietStep
<1>14. ASSUME NEW r \in Requests, UncacheDisconnected(r) PROVE RotationInv'
  <2>1. TypeOK'
    BY <1>14, CloudflareAssumption DEF UncacheDisconnected, Grants, TypeOK, Goes, Idle, Plain,
       Carrying
  <2>2. OneRefresh'
    BY <1>14 DEF UncacheDisconnected, OneRefresh, TypeOK, Goes, RefreshStages, Idle, Plain,
       Carrying
  <2>3. Quiet
    BY <1>14 DEF UncacheDisconnected, Quiet, TypeOK, Goes, Stage, Carries, Idle, Plain,
       Carrying, GrantsAreGiven, Grants
  <2> QED
    BY <2>1, <2>2, <2>3, QuietStep
<1>15. ASSUME NEW i \in Isolates, Expires(i) PROVE RotationInv'
  <2>1. TypeOK'
    BY <1>15 DEF Expires, TypeOK, Idle, Plain, Carrying
  <2>2. OneRefresh'
    BY <1>15 DEF Expires, OneRefresh, TypeOK, RefreshStages, Idle, Plain, Carrying
  <2>3. Quiet
    BY <1>15 DEF Expires, Quiet, TypeOK, Stage, Carries, Idle, Plain, Carrying, GrantsAreGiven,
       Grants
  <2> QED
    BY <2>1, <2>2, <2>3, QuietStep
<1>16. ASSUME NEW i \in Isolates, Evict(i) PROVE RotationInv'
  <2>1. TypeOK'
    BY <1>16 DEF Evict, TypeOK, Idle, Plain, Carrying
  <2>2. OneRefresh'
    BY <1>16 DEF Evict, OneRefresh, TypeOK, RefreshStages, Idle, Plain, Carrying
  <2>3. Quiet
    BY <1>16 DEF Evict, Quiet, TypeOK, Stage, Carries, Idle, Plain, Carrying, GrantsAreGiven,
       Grants
  <2> QED
    BY <2>1, <2>2, <2>3, QuietStep
<1>17. ASSUME NEW g \in Grants, Revoke(g) PROVE RotationInv'
  <2>1. TypeOK'
    BY <1>17 DEF Revoke, TypeOK, Idle, Plain, Carrying
  <2>2. OneRefresh'
    BY <1>17 DEF Revoke, OneRefresh, TypeOK, RefreshStages, Idle, Plain, Carrying
  <2>3. Quiet
    BY <1>17 DEF Revoke, Quiet, TypeOK, Stage, Carries, Idle, Plain, Carrying, GrantsAreGiven,
       Grants
  <2> QED
    BY <2>1, <2>2, <2>3, QuietStep
<1> QED
  BY <1>1, <1>2, <1>3, <1>4, <1>5, <1>6, <1>7, <1>8, <1>9, <1>10, <1>11, <1>12, <1>13, <1>14,
     <1>15, <1>16, <1>17

\* The column is read: an empty one ends the refresh, its token will be presented.
LEMMA ReadTokenStep ==
  ASSUME RotationInv, NEW r \in Requests, ReadToken(r)
  PROVE  RotationInv'
<1> USE DEF RotationInv, ghosts
<1>1. CASE cloudflare_oauth_token = None
  <2>1. TypeOK'
    BY <1>1 DEF ReadToken, TypeOK, Settle
  <2>2. OneRefresh'
    BY <1>1 DEF ReadToken, OneRefresh, TypeOK, Settle, RefreshStages, Idle, Plain, Carrying
  <2>3. Quiet
    BY <1>1 DEF ReadToken, Quiet, TypeOK, Settle, Stage, Carries, Idle, GrantsAreGiven
  <2> QED
    BY <2>1, <2>2, <2>3, QuietStep
<1>2. CASE cloudflare_oauth_token # None
  <2> DEFINE token == cloudflare_oauth_token
             state == [stage |-> "exchange", isolate |-> req[r].isolate, token |-> token]
  <2>1. token \in Token /\ req[r].isolate \in Isolates /\ state \in Carrying
    BY <1>2 DEF TypeOK, ReadToken, Idle, Plain, Carrying
  <2>2. /\ req' \in [Requests -> {Idle} \cup Plain \cup Carrying]
        /\ req'[r] = state /\ \A s \in Requests \ {r} : req'[s] = req[s]
    <3>1. Goes(r, state)
      BY <1>2 DEF ReadToken
    <3> QED
      BY <2>1, <3>1, GoesOn
  <2>3. /\ UNCHANGED <<cloudflare_oauth_token, live, granted, cachedAccessToken, ghosts>>
        /\ UNCHANGED refreshPromise /\ req[r].stage = "read"
    BY <1>2 DEF ReadToken
  <2>4. TypeOK'
    BY <2>2, <2>3 DEF TypeOK
  <2>5. OneRefresh'
    BY <2>2, <2>3 DEF OneRefresh, RefreshStages
  <2>6. GrantsAreGiven'
    BY <1>2, <2>2, <2>3 DEF GrantsAreGiven, Carries
  <2>7. TokensNotAhead'
    BY <1>2, <2>2, <2>3 DEF TokensNotAhead, NotAhead, Stage
  <2>8. \A g \in Grants, n \in Nat : AllBelow(g, n) => AllBelow(g, n)'
    BY <1>2, <2>2, <2>3 DEF AllBelow, Stage
  <2>9. \A s \in Requests : Stage(s, "store") \/ Stage(s, "connect") => req[s].token \in Token
    BY Carrier DEF Stage, Carries
  <2>10. \A s \in Requests, stage \in {"store", "connect"} :
           Stage(s, stage)' => s # r /\ Stage(s, stage) /\ req'[s] = req[s]
    BY <2>2 DEF Stage
  <2>11. RotatedIsNewest'
    BY <2>3, <2>8, <2>9, <2>10 DEF RotatedIsNewest, Token
  <2>12. ConnectedIsNew'
    <3>1. ASSUME NEW s \in Requests, Stage(s, "connect")
          PROVE  token.grant # req[s].token.grant
      BY <1>2, <2>1, <3>1 DEF ConnectedIsNew, AllBelow, Token
    <3>2. \A s, q \in Requests : Stage(s, "connect")' /\ q # s /\ Carries(q)' =>
            req'[q].token.grant # req'[s].token.grant
      BY <2>2, <2>10, <3>1 DEF ConnectedIsNew, Carries
    <3> QED
      BY <2>3, <2>8, <2>9, <2>10, <3>2 DEF ConnectedIsNew, Token
  <2>13. NotReplaced'
    BY <1>2, <2>1, <2>2, <2>3 DEF NotReplaced, Newer, Stage
  <2> QED
    BY <2>4, <2>5, <2>6, <2>7, <2>11, <2>12, <2>13
<1> QED
  BY <1>1, <1>2

\* Cloudflare takes a token: nobody else has one that is as new.
LEMMA ExchangeStep ==
  ASSUME RotationInv, NEW r \in Requests, Exchange(r)
  PROVE  RotationInv'
<1> USE DEF RotationInv, ghosts
<1> DEFINE token == req[r].token
<1>1. /\ Stage(r, "exchange") /\ Carries(r) /\ req[r].isolate \in Isolates
      /\ token \in Token /\ token.grant \in Grants /\ token.number \in Nat /\ token.number >= 1
  BY Carrier DEF Exchange, Stage, Carries
<1>2. /\ req' \in [Requests -> {Idle} \cup Plain \cup Carrying]
      /\ req'[r].stage = "store" /\ req'[r].token = token
      /\ req'[r].isolate = req[r].isolate
      /\ \A s \in Requests \ {r} : req'[s] = req[s]
  <2> DEFINE state == [req[r] EXCEPT !.stage = "store"]
  <2>1. Goes(r, state)
    BY DEF Exchange
  <2>2. /\ state \in Carrying /\ state.stage = "store" /\ state.token = token
        /\ state.isolate = req[r].isolate
    BY <1>1, StageTyped
  <2> QED
    BY <2>1, <2>2, GoesOn
<1>3. /\ UNCHANGED <<cloudflare_oauth_token, granted, cachedAccessToken, refreshPromise, ghosts>>
      /\ live[token.grant] = token.number
      /\ live' = [live EXCEPT ![token.grant] = token.number + 1]
  BY DEF Exchange
<1>4. /\ live' \in [Grants -> Nat] /\ live'[token.grant] = token.number + 1
      /\ \A g \in Grants \ {token.grant} : live'[g] = live[g]
  BY <1>1, <1>3 DEF TypeOK
<1>5. TypeOK'
  BY <1>2, <1>3, <1>4 DEF TypeOK
<1>6. OneRefresh'
  BY <1>1, <1>2, <1>3 DEF OneRefresh, RefreshStages, Stage
<1>7. GrantsAreGiven'
  BY <1>1, <1>2, <1>3, <1>4 DEF GrantsAreGiven, Carries
<1>8. TokensNotAhead'
  <2>1. ASSUME NEW t \in Token, NotAhead(t) PROVE NotAhead(t)'
    BY <1>1, <1>3, <1>4, <2>1 DEF NotAhead, Token, TypeOK
  <2>2. \A s \in Requests : Stage(s, "exchange") => req[s].token \in Token
    BY Carrier DEF Stage, Carries
  <2>3. \A i \in Isolates : \A t \in used[i] :
          live'[t.grant] = 0 \/ t.number < live'[t.grant]
    BY <1>1, <1>3, <1>4 DEF TokensNotAhead, TypeOK, Token
  <2> QED
    BY <1>2, <1>3, <2>1, <2>2, <2>3 DEF TokensNotAhead, Stage, TypeOK
<1>9. \A g \in Grants, n \in Nat : AllBelow(g, n) => AllBelow(g, n)'
  BY <1>2, <1>3 DEF AllBelow, Stage
<1>10. AllBelow(token.grant, token.number + 1)'
  <2>1. \A s \in Requests : Stage(s, "exchange") => req[s].token \in Token
    BY Carrier DEF Stage, Carries
  <2>2. \A s \in Requests : Stage(s, "exchange") /\ req[s].token.grant = token.grant
                              => req[s].token.number < token.number + 1
    BY <1>1, <1>3, <2>1 DEF TokensNotAhead, NotAhead, Token
  <2>3. cloudflare_oauth_token # None /\ cloudflare_oauth_token.grant = token.grant
          => cloudflare_oauth_token.number < token.number + 1
    BY <1>1, <1>3 DEF TokensNotAhead, NotAhead, TypeOK, Token
  <2>4. \A i \in Isolates : \A t \in used[i] : t.grant = token.grant => t.number < token.number + 1
    BY <1>1, <1>3 DEF TokensNotAhead, TypeOK, Token
  <2> QED
    BY <1>2, <1>3, <2>2, <2>3, <2>4 DEF AllBelow, Stage
<1>11. \A s \in Requests : Stage(s, "store") => s # r /\ req[s].token.grant # token.grant
  BY <1>1, <1>3, Carrier DEF RotatedIsNewest, AllBelow, Stage, Carries
<1>12. \A s \in Requests : Stage(s, "store") \/ Stage(s, "connect") => req[s].token \in Token
  BY Carrier DEF Stage, Carries
<1>13. RotatedIsNewest'
  <2>1. ASSUME NEW s \in Requests, Stage(s, "store"), s # r
        PROVE  /\ live'[req[s].token.grant] \in {0, req[s].token.number + 1}
               /\ AllBelow(req[s].token.grant, req[s].token.number + 1)'
    <3>1. /\ req[s].token.grant \in Grants \ {token.grant} /\ req[s].token.number + 1 \in Nat
          /\ live[req[s].token.grant] \in {0, req[s].token.number + 1}
          /\ AllBelow(req[s].token.grant, req[s].token.number + 1)
      BY <1>11, <1>12, <2>1 DEF RotatedIsNewest, Token
    <3>2. live'[req[s].token.grant] = live[req[s].token.grant]
      BY <1>4, <3>1
    <3>3. req'[s] = req[s]
      BY <1>2, <2>1
    <3> QED
      BY <1>9, <3>1, <3>2, <3>3
  <2> QED
    BY <1>1, <1>2, <1>4, <1>10, <1>11, <2>1 DEF RotatedIsNewest, Stage
<1>14. ConnectedIsNew'
  <2>1. \A s \in Requests : Stage(s, "connect") => s # r /\ req[s].token.grant # token.grant
    BY <1>1 DEF ConnectedIsNew, Stage
  <2>2. ASSUME NEW s \in Requests, Stage(s, "connect"), s # r
        PROVE  /\ live'[req[s].token.grant] \in {0, 1} /\ req[s].token.number = 1
               /\ AllBelow(req[s].token.grant, 1)'
    <3>1. /\ req[s].token.grant \in Grants \ {token.grant} /\ req[s].token.number = 1
          /\ live[req[s].token.grant] \in {0, 1} /\ AllBelow(req[s].token.grant, 1)
      BY <1>12, <2>1, <2>2 DEF ConnectedIsNew, Token
    <3>2. live'[req[s].token.grant] = live[req[s].token.grant] /\ req'[s] = req[s]
      BY <1>2, <1>4, <2>2, <3>1
    <3> QED
      BY <1>9, <3>1, <3>2
  <2>3. \A s, q \in Requests : Stage(s, "connect") /\ q # s /\ Carries(q)' =>
          req'[q].token.grant # req[s].token.grant
    BY <1>1, <1>2 DEF ConnectedIsNew, Carries
  <2> QED
    BY <1>2, <2>1, <2>2, <2>3 DEF ConnectedIsNew, Stage
<1>15. NotReplaced'
  BY <1>2, <1>3 DEF NotReplaced, Newer, Stage
<1> QED
  BY <1>5, <1>6, <1>7, <1>8, <1>13, <1>14, <1>15

\* The answer is stored: the column has the newest token of its grant.
LEMMA StoreRotatedStep ==
  ASSUME RotationInv, NEW r \in Requests, StoreRotated(r)
  PROVE  RotationInv'
<1> USE DEF RotationInv, ghosts
<1> DEFINE token == req[r].token
           i == req[r].isolate
           new == Rotated(token)
<1>1. /\ Stage(r, "store") /\ Carries(r) /\ i \in Isolates
      /\ token \in Token /\ token.grant \in Grants /\ token.number \in Nat /\ token.number >= 1
  BY Carrier DEF StoreRotated, Stage, Carries
<1>2. /\ req' \in [Requests -> {Idle} \cup Plain \cup Carrying]
      /\ req'[r].stage = "cache" /\ req'[r].token = token /\ req'[r].isolate = i
      /\ \A s \in Requests \ {r} : req'[s] = req[s]
  <2> DEFINE state == [req[r] EXCEPT !.stage = "cache"]
  <2>1. Goes(r, state)
    BY DEF StoreRotated
  <2>2. /\ state \in Carrying /\ state.stage = "cache" /\ state.token = token
        /\ state.isolate = i
    BY <1>1, StageTyped
  <2> QED
    BY <2>1, <2>2, GoesOn
<1>3. /\ new \in Token /\ new.grant = token.grant /\ new.number = token.number + 1
  BY <1>1 DEF Rotated, Token
<1>4. /\ UNCHANGED <<live, granted, cachedAccessToken, refreshPromise, asked, disturbed, forgotten>>
      /\ cloudflare_oauth_token' = new
      /\ used' = [used EXCEPT ![i] = @ \cup {token}]
  BY DEF StoreRotated
<1>5. /\ used' \in [Isolates -> SUBSET Token] /\ used'[i] = used[i] \cup {token}
      /\ \A j \in Isolates \ {i} : used'[j] = used[j]
  BY <1>1, <1>4 DEF TypeOK
<1>6. /\ live[token.grant] \in {0, token.number + 1}
      /\ AllBelow(token.grant, token.number + 1)
      /\ \A s \in Requests : Stage(s, "store") /\ req[s].token.grant = token.grant => s = r
  BY <1>1 DEF RotatedIsNewest
<1>7. TypeOK'
  BY <1>2, <1>3, <1>4, <1>5 DEF TypeOK
<1>8. OneRefresh'
  BY <1>1, <1>2, <1>4 DEF OneRefresh, RefreshStages, Stage
<1>9. GrantsAreGiven'
  BY <1>1, <1>2, <1>3, <1>4, <1>5 DEF GrantsAreGiven, Carries
<1>10. TokensNotAhead'
  <2>1. NotAhead(new)
    BY <1>1, <1>3, <1>6 DEF NotAhead
  <2>2. \A j \in Isolates : \A t \in used'[j] : live[t.grant] = 0 \/ t.number < live[t.grant]
    BY <1>1, <1>5, <1>6 DEF TokensNotAhead
  <2> QED
    BY <1>2, <1>4, <2>1, <2>2 DEF TokensNotAhead, NotAhead, Stage
<1>11. ASSUME NEW g \in Grants \ {token.grant}, NEW n \in Nat, AllBelow(g, n)
       PROVE  AllBelow(g, n)'
  BY <1>2, <1>3, <1>4, <1>5, <1>11 DEF AllBelow, Stage
<1>12. \A s \in Requests, stage \in {"store", "connect"} :
         Stage(s, stage)' => /\ s # r /\ Stage(s, stage) /\ req'[s] = req[s]
                             /\ req[s].token \in Token /\ req[s].token.grant # token.grant
  <2>1. \A s \in Requests : Stage(s, "connect") /\ s # r => req[s].token.grant # token.grant
    BY <1>1 DEF ConnectedIsNew
  <2> QED
    BY <1>2, <1>6, <2>1, Carrier DEF Stage, Carries
<1>13. RotatedIsNewest'
  BY <1>4, <1>11, <1>12 DEF RotatedIsNewest, Token
<1>14. ConnectedIsNew'
  <2>1. \A s, q \in Requests : Stage(s, "connect")' /\ q # s /\ Carries(q)' =>
          req'[q].token.grant # req'[s].token.grant
    BY <1>1, <1>2, <1>12 DEF ConnectedIsNew, Carries
  <2> QED
    BY <1>4, <1>11, <1>12, <2>1 DEF ConnectedIsNew, Token
<1>15. NotReplaced'
  <2>1. \A j \in Isolates : \A old \in used'[j] : old.grant = new.grant => old.number < new.number
    BY <1>1, <1>3, <1>5, <1>6 DEF AllBelow
  <2>2. ASSUME NEW s \in Requests, Stage(s, "exchange")'
        PROVE  Newer(req[s].token, req[s].isolate)' /\ req'[s] = req[s]
    <3>1. s # r /\ Stage(s, "exchange") /\ req'[s] = req[s] /\ req[s].isolate \in Isolates
      BY <1>2, <2>2, Carrier DEF Stage, Carries
    <3>2. req[s].isolate # i
      BY <1>1, <3>1 DEF OneRefresh, RefreshStages, Stage
    <3> QED
      BY <1>5, <3>1, <3>2 DEF NotReplaced, Newer
  <2> QED
    BY <1>4, <2>1, <2>2 DEF NotReplaced, Newer
<1> QED
  BY <1>7, <1>8, <1>9, <1>10, <1>13, <1>14, <1>15

\* Cloudflare answers a consent: its grant is new to everybody.
LEMMA ExchangeCodeStep ==
  ASSUME RotationInv, NEW r \in Requests, ExchangeCode(r)
  PROVE  RotationInv'
<1> USE DEF RotationInv, ghosts
<1> DEFINE new == granted + 1
           token == [grant |-> new, number |-> 1]
           state == [stage |-> "connect", isolate |-> req[r].isolate, token |-> token]
<1>1. /\ new \in Grants /\ token \in Token /\ token.grant = new /\ token.number = 1
      /\ req[r].stage = "consent" /\ req[r].isolate \in Isolates /\ state \in Carrying
  BY CloudflareAssumption DEF ExchangeCode, TypeOK, Grants, Token, Idle, Plain, Carrying
<1>2. /\ req' \in [Requests -> {Idle} \cup Plain \cup Carrying]
      /\ req'[r].stage = "connect" /\ req'[r].token = token
      /\ \A s \in Requests \ {r} : req'[s] = req[s]
  <2>1. Goes(r, state)
    BY DEF ExchangeCode
  <2> QED
    BY <1>1, <2>1, GoesOn
<1>3. /\ UNCHANGED <<cloudflare_oauth_token, cachedAccessToken, refreshPromise, ghosts>>
      /\ granted' = new /\ live' = [live EXCEPT ![new] = 1]
  BY DEF ExchangeCode
<1>4. /\ live' \in [Grants -> Nat] /\ live'[new] = 1
      /\ \A g \in Grants \ {new} : live'[g] = live[g]
  BY <1>1, <1>3 DEF TypeOK
<1>5. /\ cloudflare_oauth_token # None => cloudflare_oauth_token.grant \in Grants \ {new}
      /\ \A s \in Requests : Carries(s) => req[s].token \in Token /\ req[s].token.grant # new
      /\ \A i \in Isolates : \A t \in used[i] : t \in Token /\ t.grant # new
  BY Carrier DEF GrantsAreGiven, TypeOK, Token, Grants
<1>6. TypeOK'
  BY <1>1, <1>2, <1>3, <1>4 DEF TypeOK, Grants
<1>7. OneRefresh'
  BY <1>1, <1>2, <1>3 DEF OneRefresh, RefreshStages
<1>8. GrantsAreGiven'
  <2>1. \A s \in Requests : Carries(s)' => req'[s].token.grant <= new
    BY <1>1, <1>2, <1>5 DEF GrantsAreGiven, Carries, TypeOK, Token, Grants
  <2>2. \A n \in Grants : n <= granted => n <= new
    BY <1>1 DEF TypeOK, Grants
  <2>3. \A g \in Grants : g > new => live'[g] = 0
    BY <1>1, <1>4 DEF GrantsAreGiven, TypeOK, Grants
  <2>4. \A i \in Isolates : /\ \A t \in used[i] : t.grant <= new
                            /\ \A g \in forgotten[i] : g <= new
    BY <1>5, <2>2 DEF GrantsAreGiven, TypeOK, Token
  <2>5. /\ cloudflare_oauth_token # None => cloudflare_oauth_token.grant <= new
        /\ asked # None => asked <= new
    BY <1>5, <2>2 DEF GrantsAreGiven, TypeOK
  <2> QED
    BY <1>3, <2>1, <2>3, <2>4, <2>5 DEF GrantsAreGiven
<1>9. \A s \in Requests, stage \in {"exchange", "store"} :
        Stage(s, stage)' => /\ s # r /\ Stage(s, stage) /\ Carries(s) /\ req'[s] = req[s]
                            /\ req[s].token \in Token /\ req[s].token.grant \in Grants \ {new}
  <2>1. ASSUME NEW s \in Requests, NEW stage \in {"exchange", "store"}, Stage(s, stage)'
        PROVE  s # r /\ Stage(s, stage) /\ Carries(s) /\ req'[s] = req[s]
    BY <1>2, <2>1 DEF Stage, Carries
  <2> QED
    BY <1>5, <2>1, Carrier
<1>10. TokensNotAhead'
  <2>1. ASSUME NEW t \in Token, t.grant # new, NotAhead(t) PROVE NotAhead(t)'
    BY <1>4, <2>1 DEF NotAhead, Token
  <2>2. \A i \in Isolates : \A t \in used[i] : live'[t.grant] = 0 \/ t.number < live'[t.grant]
    BY <1>4, <1>5 DEF TokensNotAhead, Token
  <2>3. cloudflare_oauth_token # None => NotAhead(cloudflare_oauth_token)'
    BY <1>3, <1>5, <2>1 DEF TokensNotAhead, TypeOK, NotAhead
  <2>4. ASSUME NEW s \in Requests, Stage(s, "exchange")' PROVE NotAhead(req[s].token)'
    <3>1. req'[s] = req[s] /\ NotAhead(req[s].token) /\ req[s].token \in Token /\ req[s].token.grant # new
      BY <1>9, <2>4 DEF TokensNotAhead
    <3> QED
      BY <2>1, <3>1
  <2> QED
    BY <1>3, <2>2, <2>3, <2>4 DEF TokensNotAhead
<1>11. \A g \in Grants, n \in Nat : AllBelow(g, n) => AllBelow(g, n)'
  BY <1>3, <1>9 DEF AllBelow
<1>12. \A g \in Grants : g = new => AllBelow(g, 1)'
  BY <1>3, <1>5, <1>9 DEF AllBelow
<1>13. RotatedIsNewest'
  <2>1. ASSUME NEW s \in Requests, Stage(s, "store")'
        PROVE  /\ live'[req[s].token.grant] \in {0, req[s].token.number + 1}
               /\ AllBelow(req[s].token.grant, req[s].token.number + 1)' /\ req'[s] = req[s]
               /\ \A q \in Requests : Stage(q, "store") /\ req[q].token.grant = req[s].token.grant
                                        => q = s
    <3>1. Stage(s, "store") /\ req'[s] = req[s] /\ req[s].token.grant \in Grants \ {new}
          /\ req[s].token.number + 1 \in Nat
      BY <1>9, <2>1 DEF Token
    <3>2. live'[req[s].token.grant] = live[req[s].token.grant]
      BY <1>4, <3>1
    <3>3. AllBelow(req[s].token.grant, req[s].token.number + 1)
      BY <3>1 DEF RotatedIsNewest
    <3> QED
      BY <1>11, <3>1, <3>2, <3>3 DEF RotatedIsNewest
  <2> QED
    BY <1>9, <2>1 DEF RotatedIsNewest
<1>14. ConnectedIsNew'
  <2>1. ASSUME NEW s \in Requests \ {r}, Stage(s, "connect")'
        PROVE  /\ req'[s] = req[s] /\ req[s].token.grant # new /\ req[s].token.number = 1
               /\ live'[req[s].token.grant] \in {0, 1} /\ AllBelow(req[s].token.grant, 1)'
               /\ \A q \in Requests \ {s} : Carries(q) => req[q].token.grant # req[s].token.grant
    <3>1. Stage(s, "connect") /\ Carries(s) /\ req'[s] = req[s]
      BY <1>2, <2>1 DEF Stage, Carries
    <3>2. req[s].token.grant \in Grants \ {new}
      BY <1>5, <3>1, Carrier
    <3>3. live'[req[s].token.grant] = live[req[s].token.grant]
      BY <1>4, <3>2
    <3>4. AllBelow(req[s].token.grant, 1)
      BY <3>1 DEF ConnectedIsNew
    <3> QED
      BY <1>11, <3>1, <3>2, <3>3, <3>4 DEF ConnectedIsNew
  <2>2. \A q \in Requests \ {r} : Carries(q)' => Carries(q) /\ req'[q] = req[q]
    BY <1>2 DEF Carries
  <2>3. /\ req'[r].token.number = 1 /\ live'[req'[r].token.grant] = 1
        /\ AllBelow(req[r].token.grant, 1)'
        /\ \A q \in Requests \ {r} : Carries(q)' => req'[q].token.grant # req'[r].token.grant
    BY <1>1, <1>2, <1>4, <1>5, <1>12, <2>2
  <2> QED
    BY <1>1, <1>2, <2>1, <2>2, <2>3 DEF ConnectedIsNew
<1>15. NotReplaced'
  BY <1>3, <1>9, Carrier DEF NotReplaced, Newer
<1> QED
  BY <1>6, <1>7, <1>8, <1>10, <1>13, <1>14, <1>15

\* The token of the new grant is stored, whatever was in the column.
LEMMA StoreConnectedStep ==
  ASSUME RotationInv, NEW r \in Requests, StoreConnected(r)
  PROVE  RotationInv'
<1> USE DEF RotationInv, ghosts
<1> DEFINE token == req[r].token
<1>1. /\ Stage(r, "connect") /\ Carries(r) /\ req[r].isolate \in Isolates
      /\ token \in Token /\ token.grant \in Grants /\ token.number = 1
      /\ live[token.grant] \in {0, 1} /\ AllBelow(token.grant, 1)
      /\ \A s \in Requests \ {r} : Carries(s) => req[s].token.grant # token.grant
  BY Carrier DEF StoreConnected, Stage, Carries, ConnectedIsNew
<1>2. /\ req' \in [Requests -> {Idle} \cup Plain \cup Carrying]
      /\ req'[r].stage = "cache_connected" /\ req'[r].token = token
      /\ \A s \in Requests \ {r} : req'[s] = req[s]
  <2> DEFINE state == [req[r] EXCEPT !.stage = "cache_connected"]
  <2>1. Goes(r, state)
    BY DEF StoreConnected
  <2>2. state \in Carrying /\ state.stage = "cache_connected" /\ state.token = token
    BY <1>1, StageTyped
  <2> QED
    BY <2>1, <2>2, GoesOn
<1>3. /\ UNCHANGED <<live, granted, cachedAccessToken, refreshPromise, disturbed, used, forgotten>>
      /\ cloudflare_oauth_token' = token /\ asked' = token.grant
  BY DEF StoreConnected
<1>4. TypeOK'
  BY <1>1, <1>2, <1>3 DEF TypeOK
<1>5. OneRefresh'
  BY <1>1, <1>2, <1>3 DEF OneRefresh, RefreshStages
<1>6. GrantsAreGiven'
  BY <1>1, <1>2, <1>3 DEF GrantsAreGiven, Carries
<1>7. \A s \in Requests, stage \in {"exchange", "store", "connect"} :
        Stage(s, stage)' => /\ s # r /\ Stage(s, stage) /\ Carries(s) /\ req'[s] = req[s]
                            /\ req[s].token \in Token /\ req[s].token.grant # token.grant
                            /\ req[s].isolate \in Isolates
  <2>1. ASSUME NEW s \in Requests, NEW stage \in {"exchange", "store", "connect"}, Stage(s, stage)'
        PROVE  s # r /\ Stage(s, stage) /\ Carries(s) /\ req'[s] = req[s]
    BY <1>2, <2>1 DEF Stage, Carries
  <2> QED
    BY <1>1, <2>1, Carrier
<1>8. TokensNotAhead'
  <2>1. NotAhead(token)
    BY <1>1 DEF NotAhead
  <2> QED
    BY <1>3, <1>7, <2>1 DEF TokensNotAhead, NotAhead
<1>9. ASSUME NEW g \in Grants \ {token.grant}, NEW n \in Nat, AllBelow(g, n)
      PROVE  AllBelow(g, n)'
  BY <1>3, <1>7, <1>9 DEF AllBelow
<1>10. RotatedIsNewest'
  BY <1>3, <1>7, <1>9 DEF RotatedIsNewest, Token
<1>11. ConnectedIsNew'
  <2>1. \A s, q \in Requests : Stage(s, "connect")' /\ q # s /\ Carries(q)' =>
          req'[q].token.grant # req'[s].token.grant
    BY <1>1, <1>2, <1>7 DEF ConnectedIsNew, Carries
  <2> QED
    BY <1>3, <1>7, <1>9, <2>1 DEF ConnectedIsNew, Token
<1>12. NotReplaced'
  <2>1. \A j \in Isolates : \A old \in used[j] : old.grant = token.grant => old.number < 1
    BY <1>1 DEF AllBelow
  <2> QED
    BY <1>1, <1>3, <1>7, <2>1 DEF NotReplaced, Newer
<1> QED
  BY <1>4, <1>5, <1>6, <1>8, <1>10, <1>11, <1>12

LEMMA InitRotation == Init => RotationInv
<1> SUFFICES ASSUME Init PROVE RotationInv
  OBVIOUS
<1> USE DEF Init
<1>1. TypeOK
  <2>1. granted \in Nat /\ granted <= MaxGrants /\ live \in [Grants -> Nat]
    BY CloudflareAssumption
  <2> QED
    BY <2>1 DEF TypeOK
<1>2. \A r \in Requests : ~Carries(r) /\ req[r].stage = "idle"
  BY DEF Carries, Idle
<1> QED
  BY <1>1, <1>2 DEF RotationInv, OneRefresh, RefreshStages, GrantsAreGiven, TokensNotAhead,
     RotatedIsNewest, ConnectedIsNew, NotReplaced, Stage

LEMMA RotationStep == RotationInv /\ [Next]_vars => RotationInv'
<1> SUFFICES ASSUME RotationInv, [Next]_vars PROVE RotationInv'
  OBVIOUS
<1>1. CASE UNCHANGED vars
  <2>1. TypeOK' /\ OneRefresh'
    BY <1>1 DEF RotationInv, vars, TypeOK, OneRefresh
  <2>2. Quiet
    BY <1>1 DEF RotationInv, vars, Quiet, Stage, Carries, GrantsAreGiven
  <2> QED
    BY <2>1, <2>2, QuietStep
<1>2. ASSUME NEW r \in Requests, NEW i \in Isolates,
             Join(r, i) \/ Refresh(r, i) \/ BeginCallback(r, i) \/ BeginDisconnect(r, i)
      PROVE  RotationInv'
  BY <1>2, QuietActions
<1>3. ASSUME NEW r \in Requests,
             \/ ReadToken(r) \/ Exchange(r) \/ StoreRotated(r) \/ ExchangeCode(r)
             \/ StoreConnected(r)
      PROVE  RotationInv'
  BY <1>3, ReadTokenStep, ExchangeStep, StoreRotatedStep, ExchangeCodeStep, StoreConnectedStep
<1>4. ASSUME NEW r \in Requests,
             \/ Refused(r) \/ ExchangeFails(r) \/ RotationLost(r) \/ CacheRotated(r)
             \/ ClearRevoked(r) \/ UncacheRevoked(r)
      PROVE  RotationInv'
  BY <1>4, QuietActions
<1>7. ASSUME NEW r \in Requests,
             \/ CallbackFails(r) \/ CacheConnected(r) \/ ClearConnected(r)
             \/ UncacheDisconnected(r)
      PROVE  RotationInv'
  BY <1>7, QuietActions
<1>5. ASSUME NEW i \in Isolates, Expires(i) \/ Evict(i) PROVE RotationInv'
  BY <1>5, QuietActions
<1>6. ASSUME NEW g \in Grants, Revoke(g) PROVE RotationInv'
  BY <1>6, QuietActions
<1> QED
  BY <1>1, <1>2, <1>3, <1>4, <1>5, <1>6, <1>7 DEF Next

\* Refresh tokens are accepted once.  However requests of several isolates interleave with
\* callbacks, disconnects, evictions and revocations, an isolate never presents a token that
\* it has replaced: refreshPromise lets one refresh of an isolate run at a time, and what is
\* in the column is newer than everything that was replaced there.
THEOREM TokensPresentedOnce == Spec => []PresentsOnce
<1>1. RotationInv => PresentsOnce
  BY Carrier DEF RotationInv, PresentsOnce, NotReplaced, Newer, Stage, Carries, TypeOK, Token
<1> QED
  BY <1>1, InitRotation, RotationStep, PTL DEF Spec

-----------------------------------------------------------------------------
(* The connection                                                          *)

LEMMA TokenIsNotNone == \A token \in Token : token # None
BY CloudflareAssumption DEF Token, Grants

\* Beside the one writer there is nobody who knows a token.
LEMMA Alone ==
  ASSUME SoleWriter, NEW r \in Requests, Writes(r)
  PROVE  \A s \in Requests \ {r} :
           /\ ~Writes(s) /\ ~Carries(s)
           /\ \A stage \in {"exchange", "store", "revoked", "uncache_disconnected"} : ~Stage(s, stage)
BY DEF SoleWriter, Writes, Carries, Stage, RefreshStages, CallbackStages, DisconnectStages

\* The same after a step of the writer that leaves everyone else alone: what has to be
\* seen to is the writer and the column.
LEMMA AloneStep ==
  ASSUME SoleWriter, NEW r \in Requests, Writes(r), \A s \in Requests \ {r} : req'[s] = req[s]
  PROVE  /\ SoleWriter'
         /\ \A s \in Requests \ {r} :
              /\ ~Carries(s)'
              /\ \A stage \in {"exchange", "store", "revoked", "uncache_disconnected"} : ~Stage(s, stage)'
BY Alone DEF SoleWriter, Writes, Carries, Stage

\* A refresh begins only without another writer: refreshPromise is None, and another
\* isolate's refresh disturbs.
LEMMA RefreshAlone ==
  ASSUME TypeOK, OneRefresh, SoleWriter, NEW r \in Requests, NEW i \in Isolates,
         Refresh(r, i), ~disturbed'
  PROVE  SoleWriter'
<1>1. \A s \in Requests \ {r} : ~Writes(s)
  <2>1. \A s \in Requests \ {r} : Writes(s) => req[s].stage \in RefreshStages /\ req[s].isolate = i
    BY DEF Refresh, Enters
  <2>2. \A s \in Requests : refreshPromise[i] # s
    BY CloudflareAssumption DEF Refresh
  <2> QED
    BY <2>1, <2>2 DEF OneRefresh
<1>2. \A s \in Requests \ {r} : req'[s] = req[s]
  BY DEF Refresh, Goes, TypeOK
<1> QED
  BY <1>1, <1>2 DEF SoleWriter, Writes

\* The writer reads the column, learns from it what it will present, or ends.
LEMMA ReadTokenConnected ==
  ASSUME TypeOK, Connection, NEW r \in Requests, ReadToken(r)
  PROVE  Connection'
<1> USE DEF Connection, ghosts
<1>1. /\ Writes(r) /\ req[r].stage = "read"
      /\ UNCHANGED <<cloudflare_oauth_token, live, granted, cachedAccessToken, ghosts>>
  BY DEF ReadToken, Writes, RefreshStages
<1>2. Asked
  BY <1>1, Alone DEF ColumnFollows, Stage
<1>3. CASE cloudflare_oauth_token = None
  <2>1. \A s \in Requests : req'[s] \in {req[s], Idle}
    BY <1>3 DEF ReadToken, Settle
  <2>2. SoleWriter'
    BY <2>1 DEF SoleWriter, Writes, RefreshStages, CallbackStages, DisconnectStages, Idle
  <2>3. ColumnFollows'
    BY <1>1, <1>2, <2>1 DEF ColumnFollows, Asked, Stage, Idle
  <2>4. ForgottenIsGone'
    BY <1>1, <2>1 DEF ForgottenIsGone, Carries, Idle
  <2> QED
    BY <2>2, <2>3, <2>4
<1>4. CASE cloudflare_oauth_token # None
  <2>1. /\ req'[r].stage = "exchange" /\ req'[r].token = cloudflare_oauth_token
        /\ \A s \in Requests \ {r} : req'[s] = req[s]
    BY <1>4 DEF ReadToken, Goes, TypeOK
  <2>2. SoleWriter' /\ \A s \in Requests \ {r} :
          /\ ~Carries(s)'
          /\ \A stage \in {"exchange", "store", "revoked", "uncache_disconnected"} : ~Stage(s, stage)'
    BY <1>1, <2>1, AloneStep
  <2>3. ColumnFollows'
    BY <1>1, <1>2, <1>4, <2>1, <2>2 DEF ColumnFollows, Asked, Stage
  <2>4. ForgottenIsGone'
    BY <1>1, <1>4, <2>1, <2>2 DEF ForgottenIsGone
  <2> QED
    BY <2>2, <2>3, <2>4
<1> QED
  BY <1>3, <1>4

\* The four steps of a writer that put a token or take one out, each with what it leaves
\* in the column.
LEMMA RefusedConnected ==
  ASSUME TypeOK, Connection, NEW r \in Requests, Refused(r)
  PROVE  ColumnFollows'
<1> USE DEF Connection, ghosts
<1>1. /\ Writes(r) /\ Stage(r, "exchange") /\ Carries(r) /\ live[req[r].token.grant] # req[r].token.number
      /\ UNCHANGED <<cloudflare_oauth_token, live, granted, cachedAccessToken, ghosts>>
  BY DEF Refused, Writes, RefreshStages, Stage, Carries
<1>2. /\ req'[r].stage = "revoked" /\ req'[r].token = req[r].token
      /\ \A s \in Requests \ {r} : req'[s] = req[s]
  <2> DEFINE state == [req[r] EXCEPT !.stage = "revoked"]
  <2>1. Goes(r, state)
    BY DEF Refused
  <2>2. state \in Carrying /\ state.stage = "revoked" /\ state.token = req[r].token
    BY <1>1, StageTyped
  <2> QED
    BY <2>1, <2>2, GoesOn
<1>3. \A s \in Requests \ {r} :
        \A stage \in {"exchange", "store", "revoked", "uncache_disconnected"} : ~Stage(s, stage)'
  BY <1>1, <1>2, AloneStep
<1>4. Asked /\ cloudflare_oauth_token = req[r].token /\ asked = req[r].token.grant
  BY <1>1, Alone DEF ColumnFollows, Stage
<1>5. live[asked] = 0 /\ req[r].token # None
  BY <1>1, <1>4, Carrier, TokenIsNotNone DEF Asked
<1> QED
  BY <1>1, <1>2, <1>3, <1>4, <1>5 DEF ColumnFollows, Asked, Stage

LEMMA StoreRotatedConnected ==
  ASSUME RotationInv, Connection, NEW r \in Requests, StoreRotated(r)
  PROVE  ColumnFollows'
<1> USE DEF RotationInv, Connection, ghosts
<1> DEFINE token == req[r].token
<1>1. /\ Writes(r) /\ Stage(r, "store") /\ Carries(r) /\ token \in Token
      /\ live[token.grant] \in {0, token.number + 1} /\ asked = token.grant
      /\ cloudflare_oauth_token' = Rotated(token) /\ UNCHANGED <<live, asked>>
  BY Carrier DEF StoreRotated, Writes, RefreshStages, Stage, Carries, RotatedIsNewest,
     ColumnFollows
<1>2. /\ req'[r].stage = "cache" /\ \A s \in Requests \ {r} : req'[s] = req[s]
  BY <1>1, StageTyped, GoesOn DEF StoreRotated
<1>3. \A s \in Requests \ {r} :
        \A stage \in {"exchange", "store", "revoked", "uncache_disconnected"} : ~Stage(s, stage)'
  BY <1>1, <1>2, AloneStep
<1>4. /\ Rotated(token).grant = token.grant /\ Rotated(token).number = token.number + 1
      /\ Rotated(token) # None
  BY <1>1, TokenIsNotNone DEF Rotated, Token
<1> QED
  BY <1>1, <1>2, <1>3, <1>4 DEF ColumnFollows, Asked, Stage

LEMMA ExchangeCodeConnected ==
  ASSUME RotationInv, Connection, NEW r \in Requests, ExchangeCode(r)
  PROVE  ColumnFollows'
<1> USE DEF RotationInv, Connection, ghosts
<1>1. /\ Writes(r) /\ req[r].stage = "consent"
      /\ live' = [live EXCEPT ![granted + 1] = 1] /\ UNCHANGED <<cloudflare_oauth_token, asked>>
  BY DEF ExchangeCode, Writes, CallbackStages
<1>2. /\ req'[r].stage = "connect" /\ \A s \in Requests \ {r} : req'[s] = req[s]
  BY DEF ExchangeCode, Goes, TypeOK
<1>3. \A s \in Requests \ {r} :
        \A stage \in {"exchange", "store", "revoked", "uncache_disconnected"} : ~Stage(s, stage)'
  BY <1>1, <1>2, AloneStep
<1>4. Asked
  BY <1>1, Alone DEF ColumnFollows, Stage
<1>5. asked # None => live'[asked] = live[asked]
  BY <1>1 DEF GrantsAreGiven, TypeOK, Grants
<1>6. cloudflare_oauth_token # None => asked # None
  BY <1>4, CloudflareAssumption DEF Asked, TypeOK, Token, Grants
<1> QED
  BY <1>1, <1>2, <1>3, <1>4, <1>5, <1>6 DEF ColumnFollows, Asked, Stage

LEMMA StoreConnectedConnected ==
  ASSUME RotationInv, Connection, NEW r \in Requests, StoreConnected(r)
  PROVE  ColumnFollows'
<1> USE DEF RotationInv, Connection, ghosts
<1> DEFINE token == req[r].token
<1>1. /\ Writes(r) /\ Stage(r, "connect") /\ Carries(r) /\ token \in Token
      /\ token.number = 1 /\ live[token.grant] \in {0, 1}
      /\ cloudflare_oauth_token' = token /\ asked' = token.grant /\ UNCHANGED live
  BY Carrier DEF StoreConnected, Writes, CallbackStages, Stage, Carries, ConnectedIsNew
<1>2. /\ req'[r].stage = "cache_connected" /\ \A s \in Requests \ {r} : req'[s] = req[s]
  BY <1>1, StageTyped, GoesOn DEF StoreConnected
<1>3. \A s \in Requests \ {r} :
        \A stage \in {"exchange", "store", "revoked", "uncache_disconnected"} : ~Stage(s, stage)'
  BY <1>1, <1>2, AloneStep
<1> QED
  BY <1>1, <1>2, <1>3, TokenIsNotNone DEF ColumnFollows, Asked, Stage

\* Every step of writers that do not overlap leaves the column as it should be.
LEMMA ConnectionStep ==
  ASSUME RotationInv, Connection, [Next]_vars, ~disturbed'
  PROVE  Connection'
<1> USE DEF RotationInv, Connection, ghosts
<1>1. ASSUME NEW r \in Requests, NEW i \in Isolates, Join(r, i) PROVE Connection'
  <2>1. SoleWriter'
    BY <1>1 DEF Join, Goes, SoleWriter, TypeOK, Idle, Plain, Carrying,
       Writes, RefreshStages, CallbackStages, DisconnectStages
  <2>2. ColumnFollows'
    BY <1>1, CloudflareAssumption DEF Join, Goes, ColumnFollows, Asked, SoleWriter, Stage,
       TypeOK, Idle, Plain, Carrying,
       Writes, RefreshStages, CallbackStages, DisconnectStages
  <2>3. ForgottenIsGone'
    BY <1>1, CloudflareAssumption DEF Join, Goes, ForgottenIsGone, TypeOK, Carries, Grants,
       Idle, Plain, Carrying
  <2> QED
    BY <2>1, <2>2, <2>3
<1>2. ASSUME NEW r \in Requests, NEW i \in Isolates, Refresh(r, i) PROVE Connection'
  <2>1. SoleWriter'
    BY <1>2, RefreshAlone
  <2>2. ColumnFollows'
    BY <1>2, CloudflareAssumption DEF Refresh, Goes, Enters, ColumnFollows, Asked, SoleWriter,
       Stage, TypeOK, Idle, Plain, Carrying,
       Writes, RefreshStages, CallbackStages, DisconnectStages
  <2>3. ForgottenIsGone'
    BY <1>2, CloudflareAssumption DEF Refresh, Goes, Enters, ForgottenIsGone, TypeOK, Carries,
       Grants, Idle, Plain, Carrying
  <2> QED
    BY <2>1, <2>2, <2>3
<1>3. ASSUME NEW r \in Requests, NEW i \in Isolates, BeginCallback(r, i) PROVE Connection'
  <2>1. SoleWriter'
    BY <1>3 DEF BeginCallback, Goes, Enters, SoleWriter, TypeOK, Idle, Plain, Carrying,
       Writes, RefreshStages, CallbackStages, DisconnectStages
  <2>2. ColumnFollows'
    BY <1>3, CloudflareAssumption DEF BeginCallback, Goes, Enters, ColumnFollows, Asked,
       SoleWriter, Stage, TypeOK, Idle, Plain, Carrying,
       Writes, RefreshStages, CallbackStages, DisconnectStages
  <2>3. ForgottenIsGone'
    BY <1>3, CloudflareAssumption DEF BeginCallback, Goes, Enters, ForgottenIsGone, TypeOK,
       Carries, Grants, Idle, Plain, Carrying
  <2> QED
    BY <2>1, <2>2, <2>3
<1>4. ASSUME NEW r \in Requests, NEW i \in Isolates, BeginDisconnect(r, i) PROVE Connection'
  <2>1. SoleWriter'
    BY <1>4 DEF BeginDisconnect, Goes, Enters, SoleWriter, TypeOK, Idle, Plain, Carrying,
       Writes, RefreshStages, CallbackStages, DisconnectStages
  <2>2. ColumnFollows'
    BY <1>4, CloudflareAssumption DEF BeginDisconnect, Goes, Enters, ColumnFollows, Asked,
       SoleWriter, Stage, TypeOK, Idle, Plain, Carrying,
       Writes, RefreshStages, CallbackStages, DisconnectStages
  <2>3. ForgottenIsGone'
    BY <1>4, CloudflareAssumption DEF BeginDisconnect, Goes, Enters, ForgottenIsGone, TypeOK,
       Carries, Grants, Idle, Plain, Carrying
  <2> QED
    BY <2>1, <2>2, <2>3
<1>5. ASSUME NEW r \in Requests, Exchange(r) PROVE Connection'
  <2>1. SoleWriter'
    BY <1>5 DEF Exchange, Goes, SoleWriter, TypeOK, Idle, Plain, Carrying,
       Writes, RefreshStages, CallbackStages, DisconnectStages
  <2>2. ColumnFollows'
    BY <1>5, CloudflareAssumption DEF Exchange, Goes, ColumnFollows, Asked, SoleWriter, Stage,
       TypeOK, Token, Idle, Plain, Carrying,
       Writes, RefreshStages, CallbackStages, DisconnectStages
  <2>3. ForgottenIsGone'
    BY <1>5, CloudflareAssumption DEF Exchange, Goes, ForgottenIsGone, TypeOK, Carries, Token,
       Grants, Idle, Plain, Carrying
  <2> QED
    BY <2>1, <2>2, <2>3
<1>6. ASSUME NEW r \in Requests, Refused(r) PROVE Connection'
  <2>1. SoleWriter'
    BY <1>6 DEF Refused, Goes, SoleWriter, TypeOK, Idle, Plain, Carrying,
       Writes, RefreshStages, CallbackStages, DisconnectStages
  <2>2. ColumnFollows'
    BY <1>6, RefusedConnected
  <2>3. ForgottenIsGone'
    BY <1>6, CloudflareAssumption DEF Refused, Goes, ForgottenIsGone, TypeOK, Carries, Grants,
       Idle, Plain, Carrying
  <2> QED
    BY <2>1, <2>2, <2>3
<1>7. ASSUME NEW r \in Requests, ExchangeFails(r) PROVE Connection'
  <2>1. SoleWriter'
    BY <1>7 DEF ExchangeFails, Settle, SoleWriter, TypeOK, Idle, Plain, Carrying,
       Writes, RefreshStages, CallbackStages, DisconnectStages
  <2>2. ColumnFollows'
    BY <1>7, CloudflareAssumption DEF ExchangeFails, Settle, ColumnFollows, Asked, SoleWriter,
       Stage, TypeOK, Idle, Plain, Carrying,
       Writes, RefreshStages, CallbackStages, DisconnectStages
  <2>3. ForgottenIsGone'
    BY <1>7, CloudflareAssumption DEF ExchangeFails, Settle, ForgottenIsGone, TypeOK, Carries,
       Grants, Idle, Plain, Carrying
  <2> QED
    BY <2>1, <2>2, <2>3
<1>8. ASSUME NEW r \in Requests, StoreRotated(r) PROVE Connection'
  <2>1. SoleWriter'
    BY <1>8 DEF StoreRotated, Goes, SoleWriter, TypeOK, Idle, Plain, Carrying,
       Writes, RefreshStages, CallbackStages, DisconnectStages
  <2>2. ColumnFollows'
    BY <1>8, StoreRotatedConnected
  <2>3. ForgottenIsGone'
    BY <1>8, CloudflareAssumption DEF StoreRotated, Goes, ForgottenIsGone, TypeOK, Carries,
       Token, Rotated, Grants, Idle, Plain, Carrying
  <2> QED
    BY <2>1, <2>2, <2>3
<1>9. ASSUME NEW r \in Requests, CacheRotated(r) PROVE Connection'
  <2>1. SoleWriter'
    BY <1>9 DEF CacheRotated, Settle, SoleWriter, TypeOK, Idle, Plain, Carrying,
       Writes, RefreshStages, CallbackStages, DisconnectStages
  <2>2. ColumnFollows'
    BY <1>9, CloudflareAssumption DEF CacheRotated, Settle, ColumnFollows, Asked, SoleWriter,
       Stage, TypeOK, Idle, Plain, Carrying,
       Writes, RefreshStages, CallbackStages, DisconnectStages
  <2>3. ForgottenIsGone'
    BY <1>9, CloudflareAssumption DEF CacheRotated, Settle, ForgottenIsGone, TypeOK, Carries,
       Grants, Idle, Plain, Carrying
  <2> QED
    BY <2>1, <2>2, <2>3
<1>10. ASSUME NEW r \in Requests, ClearRevoked(r) PROVE Connection'
  <2>1. SoleWriter'
    BY <1>10 DEF ClearRevoked, Goes, SoleWriter, TypeOK, Idle, Plain, Carrying,
       Writes, RefreshStages, CallbackStages, DisconnectStages
  <2>2. ColumnFollows'
    BY <1>10, CloudflareAssumption DEF ClearRevoked, Goes, ColumnFollows, Asked, SoleWriter,
       Stage, TypeOK, Token, Idle, Plain, Carrying,
       Writes, RefreshStages, CallbackStages, DisconnectStages
  <2>3. ForgottenIsGone'
    BY <1>10, CloudflareAssumption DEF ClearRevoked, Goes, ForgottenIsGone, TypeOK, Carries,
       Grants, Idle, Plain, Carrying
  <2> QED
    BY <2>1, <2>2, <2>3
<1>11. ASSUME NEW r \in Requests, UncacheRevoked(r) PROVE Connection'
  <2>1. SoleWriter'
    BY <1>11 DEF UncacheRevoked, Settle, SoleWriter, TypeOK, Idle, Plain, Carrying,
       Writes, RefreshStages, CallbackStages, DisconnectStages
  <2>2. ColumnFollows'
    BY <1>11, CloudflareAssumption DEF UncacheRevoked, Settle, ColumnFollows, Asked, SoleWriter,
       Stage, TypeOK, Idle, Plain, Carrying,
       Writes, RefreshStages, CallbackStages, DisconnectStages
  <2>3. ForgottenIsGone'
    BY <1>11, CloudflareAssumption DEF UncacheRevoked, Settle, ForgottenIsGone, TypeOK, Carries,
       Grants, Idle, Plain, Carrying
  <2> QED
    BY <2>1, <2>2, <2>3
<1>12. ASSUME NEW r \in Requests, ExchangeCode(r) PROVE Connection'
  <2>1. SoleWriter'
    BY <1>12 DEF ExchangeCode, Goes, SoleWriter, TypeOK, Idle, Plain, Carrying,
       Writes, RefreshStages, CallbackStages, DisconnectStages
  <2>2. ColumnFollows'
    BY <1>12, ExchangeCodeConnected
  <2>3. ForgottenIsGone'
    BY <1>12, CloudflareAssumption DEF ExchangeCode, Goes, ForgottenIsGone, TypeOK, Carries,
       Token, GrantsAreGiven, Grants, Idle, Plain, Carrying
  <2> QED
    BY <2>1, <2>2, <2>3
<1>13. ASSUME NEW r \in Requests, CallbackFails(r) PROVE Connection'
  <2>1. SoleWriter'
    BY <1>13 DEF CallbackFails, Goes, SoleWriter, TypeOK, Idle, Plain, Carrying,
       Writes, RefreshStages, CallbackStages, DisconnectStages
  <2>2. ColumnFollows'
    BY <1>13, CloudflareAssumption DEF CallbackFails, Goes, ColumnFollows, Asked, SoleWriter,
       Stage, TypeOK, Idle, Plain, Carrying,
       Writes, RefreshStages, CallbackStages, DisconnectStages
  <2>3. ForgottenIsGone'
    BY <1>13, CloudflareAssumption DEF CallbackFails, Goes, ForgottenIsGone, TypeOK, Carries,
       Grants, Idle, Plain, Carrying
  <2> QED
    BY <2>1, <2>2, <2>3
<1>14. ASSUME NEW r \in Requests, StoreConnected(r) PROVE Connection'
  <2>1. SoleWriter'
    BY <1>14 DEF StoreConnected, Goes, SoleWriter, TypeOK, Idle, Plain, Carrying,
       Writes, RefreshStages, CallbackStages, DisconnectStages
  <2>2. ColumnFollows'
    BY <1>14, StoreConnectedConnected
  <2>3. ForgottenIsGone'
    BY <1>14, CloudflareAssumption DEF StoreConnected, Goes, ForgottenIsGone, TypeOK, Carries,
       Grants, Idle, Plain, Carrying
  <2> QED
    BY <2>1, <2>2, <2>3
<1>15. ASSUME NEW r \in Requests, CacheConnected(r) PROVE Connection'
  <2>1. SoleWriter'
    BY <1>15 DEF CacheConnected, Goes, SoleWriter, TypeOK, Idle, Plain, Carrying,
       Writes, RefreshStages, CallbackStages, DisconnectStages
  <2>2. ColumnFollows'
    BY <1>15, CloudflareAssumption DEF CacheConnected, Goes, ColumnFollows, Asked, SoleWriter,
       Stage, TypeOK, Idle, Plain, Carrying,
       Writes, RefreshStages, CallbackStages, DisconnectStages
  <2>3. ForgottenIsGone'
    BY <1>15, CloudflareAssumption DEF CacheConnected, Goes, ForgottenIsGone, TypeOK, Carries,
       Grants, Idle, Plain, Carrying
  <2> QED
    BY <2>1, <2>2, <2>3
<1>16. ASSUME NEW r \in Requests, ClearConnected(r) PROVE Connection'
  <2>1. SoleWriter'
    BY <1>16 DEF ClearConnected, Goes, SoleWriter, TypeOK, Idle, Plain, Carrying,
       Writes, RefreshStages, CallbackStages, DisconnectStages
  <2>2. ColumnFollows'
    BY <1>16, CloudflareAssumption DEF ClearConnected, Goes, ColumnFollows, Asked, SoleWriter,
       Stage, TypeOK, Idle, Plain, Carrying,
       Writes, RefreshStages, CallbackStages, DisconnectStages
  <2>3. ForgottenIsGone'
    BY <1>16, CloudflareAssumption DEF ClearConnected, Goes, ForgottenIsGone, TypeOK, Carries,
       Grants, Idle, Plain, Carrying
  <2> QED
    BY <2>1, <2>2, <2>3
<1>17. ASSUME NEW r \in Requests, UncacheDisconnected(r) PROVE Connection'
  <2>1. SoleWriter'
    BY <1>17 DEF UncacheDisconnected, Goes, SoleWriter, TypeOK, Idle, Plain, Carrying,
       Writes, RefreshStages, CallbackStages, DisconnectStages
  <2>2. ColumnFollows'
    BY <1>17, CloudflareAssumption DEF UncacheDisconnected, Goes, ColumnFollows, Asked,
       SoleWriter, Stage, TypeOK, Idle, Plain, Carrying,
       Writes, RefreshStages, CallbackStages, DisconnectStages
  <2>3. ForgottenIsGone'
    BY <1>17, CloudflareAssumption DEF UncacheDisconnected, Goes, ForgottenIsGone, TypeOK,
       Carries, Grants, ColumnFollows, SoleWriter, Stage, Idle, Plain, Carrying,
       Writes, RefreshStages, CallbackStages, DisconnectStages
  <2> QED
    BY <2>1, <2>2, <2>3
<1>18. ASSUME NEW i \in Isolates, Expires(i) PROVE Connection'
  <2>1. SoleWriter'
    BY <1>18 DEF Expires, SoleWriter, TypeOK,
       Writes, RefreshStages, CallbackStages, DisconnectStages
  <2>2. ColumnFollows'
    BY <1>18, CloudflareAssumption DEF Expires, ColumnFollows, Asked, SoleWriter, Stage, TypeOK,
       Writes, RefreshStages, CallbackStages, DisconnectStages
  <2>3. ForgottenIsGone'
    BY <1>18, CloudflareAssumption DEF Expires, ForgottenIsGone, Carries, TypeOK, Grants
  <2> QED
    BY <2>1, <2>2, <2>3
<1>19. ASSUME NEW i \in Isolates, Evict(i) PROVE Connection'
  <2>1. SoleWriter'
    BY <1>19 DEF Evict, SoleWriter, TypeOK, Idle, Plain, Carrying,
       Writes, RefreshStages, CallbackStages, DisconnectStages
  <2>2. ColumnFollows'
    BY <1>19, CloudflareAssumption DEF Evict, ColumnFollows, Asked, SoleWriter, Stage, TypeOK,
       Idle, Plain, Carrying,
       Writes, RefreshStages, CallbackStages, DisconnectStages
  <2>3. ForgottenIsGone'
    BY <1>19, CloudflareAssumption DEF Evict, ForgottenIsGone, TypeOK, Carries, Grants, Idle,
       Plain, Carrying
  <2> QED
    BY <2>1, <2>2, <2>3
<1>20. ASSUME NEW g \in Grants, Revoke(g) PROVE Connection'
  <2>1. SoleWriter'
    BY <1>20 DEF Revoke, SoleWriter, TypeOK,
       Writes, RefreshStages, CallbackStages, DisconnectStages
  <2>2. ColumnFollows'
    BY <1>20, CloudflareAssumption DEF Revoke, ColumnFollows, Asked, SoleWriter, Stage, TypeOK,
       Token,
       Writes, RefreshStages, CallbackStages, DisconnectStages
  <2>3. ForgottenIsGone'
    BY <1>20, CloudflareAssumption DEF Revoke, ForgottenIsGone, Carries, TypeOK, Grants
  <2> QED
    BY <2>1, <2>2, <2>3
<1>21. ASSUME NEW r \in Requests, ReadToken(r) PROVE Connection'
  BY <1>21, ReadTokenConnected
<1>22. ASSUME NEW r \in Requests, RotationLost(r) PROVE Connection'
  BY <1>22 DEF RotationLost
<1>23. CASE UNCHANGED vars
  BY <1>23 DEF vars, SoleWriter, ColumnFollows, Asked, ForgottenIsGone, Stage, Carries, Writes
<1> QED
  BY <1>1, <1>2, <1>3, <1>4, <1>5, <1>6, <1>7, <1>8, <1>9, <1>10, <1>11, <1>12, <1>13, <1>14,
     <1>15, <1>16, <1>17, <1>18, <1>19, <1>20, <1>21, <1>22, <1>23 DEF Next

\* Once writers have overlapped it is remembered.
LEMMA DisturbedStays ==
  ASSUME TypeOK, [Next]_vars, disturbed PROVE disturbed'
BY DEF Next, vars, ghosts, TypeOK, Join, Refresh, Enters, ReadToken, Exchange, Refused,
   ExchangeFails,
   RotationLost, StoreRotated, CacheRotated, ClearRevoked, UncacheRevoked, BeginCallback,
   ExchangeCode, CallbackFails, StoreConnected, CacheConnected, BeginDisconnect, ClearConnected,
   UncacheDisconnected, Expires, Evict, Revoke

LEMMA ConnectionInvariant == Spec => []ConnectionInv
<1>1. Init => ConnectionInv
  <2> SUFFICES ASSUME Init PROVE ConnectionInv
    OBVIOUS
  <2>1. RotationInv
    BY InitRotation
  <2>2. \A r \in Requests : req[r].stage = "idle"
    BY DEF Init, Idle
  <2>3. Connection
    BY <2>2 DEF Init, Connection, SoleWriter, ColumnFollows, Asked, ForgottenIsGone, Stage,
       Carries,
       Writes, RefreshStages, CallbackStages, DisconnectStages
  <2> QED
    BY <2>1, <2>3 DEF ConnectionInv
<1>2. ConnectionInv /\ [Next]_vars => ConnectionInv'
  BY RotationStep, ConnectionStep, DisturbedStays DEF ConnectionInv, RotationInv
<1> QED
  BY <1>1, <1>2, PTL DEF Spec

\* Between requests the column is what the administrator asked for, in the form Cloudflare
\* accepts next, as long as writers have not overlapped and no rotation was lost half-way.
THEOREM ColumnFollowsAdministrator == Spec => []ColumnAsAsked
<1>1. ConnectionInv => ColumnAsAsked
  BY DEF ConnectionInv, Connection, ColumnFollows, Asked, ColumnAsAsked, Stage, Writes,
     RefreshStages
<1> QED
  BY <1>1, ConnectionInvariant, PTL

\* An isolate that was told to disconnect serves nothing with the access tokens of before,
\* however often it is refreshed or connected anew afterwards.
THEOREM DisconnectIsRemembered == Spec => []DisconnectForgets
<1>1. ConnectionInv => DisconnectForgets
  BY DEF ConnectionInv, Connection, ForgottenIsGone, DisconnectForgets
<1> QED
  BY <1>1, ConnectionInvariant, PTL
=============================================================================
