--------------------------- MODULE CloudflareToken ---------------------------
(***************************************************************************)
(* The connection to Cloudflare: one refresh token in the settings row,    *)
(* an access token in the memory of every isolate of the worker, and the   *)
(* requests that refresh it (getCloudflareAccessToken), set it up          *)
(* (callback) and drop it (disconnect).                                    *)
(*                                                                         *)
(* Cloudflare is external: a consent starts a grant, every refresh token   *)
(* of a grant is accepted once and answered with the next one.             *)
(***************************************************************************)
EXTENDS Naturals, FiniteSets

CONSTANTS
  Isolates, Requests,
  MaxGrants,  \* consents the administrator gives
  MaxSpent,   \* refreshes of one grant
  None

ASSUME CloudflareAssumption ==
  /\ MaxGrants \in Nat /\ MaxSpent \in Nat
  /\ None \notin Requests \cup (1..MaxGrants) /\ None \notin [grant : 1..MaxGrants, number : Nat]

VARIABLES
  cloudflare_oauth_token, \* the column of the settings row: a refresh token or None
  live,            \* Cloudflare: grant -> number of the refresh token it accepts, 0 if revoked
  granted,         \* grants given so far
  cachedAccessToken, \* isolate -> grant of its unexpired access token, or None
  refreshPromise,  \* isolate -> the request that refreshes, or None
  req,
  asked,     \* history: the grant the administrator connected last, None after a disconnect
  disturbed, \* history: writers of the column overlapped, or one of them failed half-way
  used,      \* history: isolate -> tokens it exchanged and replaced in the column
  forgotten  \* history: isolate -> grants it was told to forget

vars == <<cloudflare_oauth_token, live, granted, cachedAccessToken, refreshPromise, req,
          asked, disturbed, used, forgotten>>
ghosts == <<asked, disturbed, used, forgotten>>

Grants == 1..MaxGrants
Idle == [stage |-> "idle"]

RefreshStages == {"read", "exchange", "store", "cache", "revoked", "uncache"}
CallbackStages == {"consent", "connect", "cache_connected"}
DisconnectStages == {"disconnect", "uncache_disconnected"}

Init ==
  /\ cloudflare_oauth_token = None
  /\ live = [g \in Grants |-> 0]
  /\ granted = 0
  /\ cachedAccessToken = [i \in Isolates |-> None]
  /\ refreshPromise = [i \in Isolates |-> None]
  /\ req = [r \in Requests |-> Idle]
  /\ asked = None /\ disturbed = FALSE
  /\ used = [i \in Isolates |-> {}] /\ forgotten = [i \in Isolates |-> {}]

Goes(r, state) == req' = [req EXCEPT ![r] = state]

\* A request that will write the column, or has not finished with it.
Writes(r) == req[r].stage \in RefreshStages \cup CallbackStages \cup DisconnectStages

\* Request r of isolate i becomes a writer: the only overlap the code rules out is that
\* of two refreshes of one isolate.
Enters(r, i, stage) ==
  disturbed' = (disturbed \/ \E s \in Requests \ {r} :
    Writes(s) /\ ~(stage = "read" /\ req[s].stage \in RefreshStages /\ req[s].isolate = i))

-----------------------------------------------------------------------------
(* getCloudflareAccessToken                                                *)

\* A proxied request or the lookup of a zone asks for an access token.  The cached one is
\* good until a minute before it expires and is not followed further; without it, the
\* request joins the refresh that is running in the isolate ...
Join(r, i) ==
  /\ req[r] = Idle /\ cachedAccessToken[i] = None /\ refreshPromise[i] # None
  /\ Goes(r, [stage |-> "await", isolate |-> i])
  /\ UNCHANGED <<cloudflare_oauth_token, live, granted, cachedAccessToken, refreshPromise, ghosts>>

\* Mutant of Refresh: the running one is not looked for.
RefreshAlways(r, i) ==
  /\ req[r] = Idle /\ cachedAccessToken[i] = None
  /\ Goes(r, [stage |-> "read", isolate |-> i])
  /\ refreshPromise' = [refreshPromise EXCEPT ![i] = r]
  /\ Enters(r, i, "read")
  /\ UNCHANGED <<cloudflare_oauth_token, live, granted, cachedAccessToken, asked, used, forgotten>>

\* ... or starts one.
Refresh(r, i) ==
  /\ req[r] = Idle /\ cachedAccessToken[i] = None /\ refreshPromise[i] = None
  /\ Goes(r, [stage |-> "read", isolate |-> i])
  /\ refreshPromise' = [refreshPromise EXCEPT ![i] = r]
  /\ Enters(r, i, "read")
  /\ UNCHANGED <<cloudflare_oauth_token, live, granted, cachedAccessToken, asked, used, forgotten>>

\* The end of the refresh, whatever came of it: everyone who waits for it has its result.
Settle(r) ==
  LET i == req[r].isolate IN
  /\ refreshPromise' = [refreshPromise EXCEPT ![i] = None]
  /\ req' = [s \in Requests |->
       IF s = r \/ (req[s].stage = "await" /\ req[s].isolate = i) THEN Idle ELSE req[s]]

\* getSettings
ReadToken(r) ==
  /\ req[r].stage = "read"
  /\ IF cloudflare_oauth_token = None THEN Settle(r)
     ELSE /\ Goes(r, [stage |-> "exchange", isolate |-> req[r].isolate, token |-> cloudflare_oauth_token])
          /\ UNCHANGED refreshPromise
  /\ UNCHANGED <<cloudflare_oauth_token, live, granted, cachedAccessToken, ghosts>>

\* exchangeRefreshToken: Cloudflare takes the token and answers with the next one ...
Exchange(r) ==
  LET token == req[r].token IN
  /\ req[r].stage = "exchange"
  /\ live[token.grant] = token.number /\ token.number <= MaxSpent
  /\ live' = [live EXCEPT ![token.grant] = @ + 1]
  /\ Goes(r, [req[r] EXCEPT !.stage = "store"])
  /\ UNCHANGED <<cloudflare_oauth_token, granted, cachedAccessToken, refreshPromise, ghosts>>

\* ... answers invalid_grant ...
Refused(r) ==
  /\ req[r].stage = "exchange"
  /\ live[req[r].token.grant] # req[r].token.number
  /\ Goes(r, [req[r] EXCEPT !.stage = "revoked"])
  /\ UNCHANGED <<cloudflare_oauth_token, live, granted, cachedAccessToken, refreshPromise, ghosts>>

\* ... fails without having taken it ...
ExchangeFails(r) ==
  /\ req[r].stage = "exchange"
  /\ Settle(r)
  /\ UNCHANGED <<cloudflare_oauth_token, live, granted, cachedAccessToken, ghosts>>

\* ... or its answer, or the write of it, is lost: the column keeps a token that is spent.
RotationLost(r) ==
  /\ req[r].stage = "store"
  /\ disturbed' = TRUE
  /\ Settle(r)
  /\ UNCHANGED <<cloudflare_oauth_token, live, granted, cachedAccessToken, asked, used, forgotten>>

Rotated(token) == [token EXCEPT !.number = @ + 1]

\* Mutant of StoreRotated: the refresh token of the answer is ignored.
KeepRefreshToken(r) ==
  /\ req[r].stage = "store"
  /\ used' = [used EXCEPT ![req[r].isolate] = @ \cup {req[r].token}]
  /\ Goes(r, [req[r] EXCEPT !.stage = "cache"])
  /\ UNCHANGED <<cloudflare_oauth_token, live, granted, cachedAccessToken, refreshPromise,
                 asked, disturbed, forgotten>>

\* updateSettings
StoreRotated(r) ==
  /\ req[r].stage = "store"
  /\ cloudflare_oauth_token' = Rotated(req[r].token)
  /\ used' = [used EXCEPT ![req[r].isolate] = @ \cup {req[r].token}]
  /\ Goes(r, [req[r] EXCEPT !.stage = "cache"])
  /\ UNCHANGED <<live, granted, cachedAccessToken, refreshPromise, asked, disturbed, forgotten>>

\* setCachedAccessToken
CacheRotated(r) ==
  /\ req[r].stage = "cache"
  /\ cachedAccessToken' = [cachedAccessToken EXCEPT ![req[r].isolate] = req[r].token.grant]
  /\ Settle(r)
  /\ UNCHANGED <<cloudflare_oauth_token, live, granted, ghosts>>

\* REFRESH_TOKEN_REVOKED: the column is cleared, whatever is in it by now ...
ClearRevoked(r) ==
  /\ req[r].stage = "revoked"
  /\ cloudflare_oauth_token' = None
  /\ Goes(r, [req[r] EXCEPT !.stage = "uncache"])
  /\ UNCHANGED <<live, granted, cachedAccessToken, refreshPromise, ghosts>>

\* ... and then the cache.
UncacheRevoked(r) ==
  /\ req[r].stage = "uncache"
  /\ cachedAccessToken' = [cachedAccessToken EXCEPT ![req[r].isolate] = None]
  /\ Settle(r)
  /\ UNCHANGED <<cloudflare_oauth_token, live, granted, ghosts>>

-----------------------------------------------------------------------------
(* The administrator's requests                                            *)

\* handleCloudflareCallback: a state that verifies, and a code to exchange.
BeginCallback(r, i) ==
  /\ req[r] = Idle /\ granted < MaxGrants
  /\ Goes(r, [stage |-> "consent", isolate |-> i])
  /\ Enters(r, i, "consent")
  /\ UNCHANGED <<cloudflare_oauth_token, live, granted, cachedAccessToken, refreshPromise,
                 asked, used, forgotten>>

ExchangeCode(r) ==
  /\ req[r].stage = "consent" /\ granted < MaxGrants
  /\ granted' = granted + 1
  /\ live' = [live EXCEPT ![granted + 1] = 1]
  /\ Goes(r, [stage |-> "connect", isolate |-> req[r].isolate, token |-> [grant |-> granted + 1, number |-> 1]])
  /\ UNCHANGED <<cloudflare_oauth_token, cachedAccessToken, refreshPromise, ghosts>>

\* The code is not accepted, or its answer is lost: nothing is stored.
CallbackFails(r) ==
  /\ req[r].stage \in {"consent", "connect"}
  /\ Goes(r, Idle)
  /\ UNCHANGED <<cloudflare_oauth_token, live, granted, cachedAccessToken, refreshPromise, ghosts>>

StoreConnected(r) ==
  /\ req[r].stage = "connect"
  /\ cloudflare_oauth_token' = req[r].token
  /\ asked' = req[r].token.grant
  /\ Goes(r, [req[r] EXCEPT !.stage = "cache_connected"])
  /\ UNCHANGED <<live, granted, cachedAccessToken, refreshPromise, disturbed, used, forgotten>>

CacheConnected(r) ==
  /\ req[r].stage = "cache_connected"
  /\ cachedAccessToken' = [cachedAccessToken EXCEPT ![req[r].isolate] = req[r].token.grant]
  /\ Goes(r, Idle)
  /\ UNCHANGED <<cloudflare_oauth_token, live, granted, refreshPromise, ghosts>>

BeginDisconnect(r, i) ==
  /\ req[r] = Idle
  /\ Goes(r, [stage |-> "disconnect", isolate |-> i])
  /\ Enters(r, i, "disconnect")
  /\ UNCHANGED <<cloudflare_oauth_token, live, granted, cachedAccessToken, refreshPromise,
                 asked, used, forgotten>>

\* disconnectCloudflare: the column ...
ClearConnected(r) ==
  /\ req[r].stage = "disconnect"
  /\ cloudflare_oauth_token' = None
  /\ asked' = None
  /\ Goes(r, [req[r] EXCEPT !.stage = "uncache_disconnected"])
  /\ UNCHANGED <<live, granted, cachedAccessToken, refreshPromise, disturbed, used, forgotten>>

\* Mutant of UncacheDisconnected: the access token is kept until it expires.
KeepCached(r) ==
  /\ req[r].stage = "uncache_disconnected"
  /\ forgotten' = [forgotten EXCEPT ![req[r].isolate] = 1..granted]
  /\ Goes(r, Idle)
  /\ UNCHANGED <<cloudflare_oauth_token, live, granted, cachedAccessToken, refreshPromise,
                 asked, disturbed, used>>

\* ... and the cache of the isolate that has the request.
UncacheDisconnected(r) ==
  /\ req[r].stage = "uncache_disconnected"
  /\ cachedAccessToken' = [cachedAccessToken EXCEPT ![req[r].isolate] = None]
  /\ forgotten' = [forgotten EXCEPT ![req[r].isolate] = 1..granted]
  /\ Goes(r, Idle)
  /\ UNCHANGED <<cloudflare_oauth_token, live, granted, refreshPromise, asked, disturbed, used>>

-----------------------------------------------------------------------------
(* Surroundings                                                            *)

\* A minute before the access token expires.
Expires(i) ==
  /\ cachedAccessToken[i] # None
  /\ cachedAccessToken' = [cachedAccessToken EXCEPT ![i] = None]
  /\ UNCHANGED <<cloudflare_oauth_token, live, granted, refreshPromise, req, ghosts>>

\* An isolate is thrown away with its memory and its requests.
Evict(i) ==
  LET gone == {r \in Requests : req[r] # Idle /\ req[r].isolate = i} IN
  /\ cachedAccessToken' = [cachedAccessToken EXCEPT ![i] = None]
  /\ refreshPromise' = [refreshPromise EXCEPT ![i] = None]
  /\ req' = [r \in Requests |-> IF r \in gone THEN Idle ELSE req[r]]
  /\ disturbed' = (disturbed \/ \E r \in gone : Writes(r))
  /\ used' = [used EXCEPT ![i] = {}] /\ forgotten' = [forgotten EXCEPT ![i] = {}]
  /\ UNCHANGED <<cloudflare_oauth_token, live, granted, asked>>

\* The grant is revoked in the Cloudflare dashboard.
Revoke(g) ==
  /\ live[g] # 0
  /\ live' = [live EXCEPT ![g] = 0]
  /\ UNCHANGED <<cloudflare_oauth_token, granted, cachedAccessToken, refreshPromise, req, ghosts>>

Next ==
  \/ \E r \in Requests, i \in Isolates :
       \/ Join(r, i) \/ Refresh(r, i)
       \/ BeginCallback(r, i) \/ BeginDisconnect(r, i)
  \/ \E r \in Requests :
       \/ ReadToken(r) \/ Exchange(r) \/ Refused(r) \/ ExchangeFails(r) \/ RotationLost(r)
       \/ StoreRotated(r) \/ CacheRotated(r) \/ ClearRevoked(r) \/ UncacheRevoked(r)
       \/ ExchangeCode(r) \/ CallbackFails(r) \/ StoreConnected(r) \/ CacheConnected(r)
       \/ ClearConnected(r) \/ UncacheDisconnected(r)
  \/ \E i \in Isolates : Expires(i) \/ Evict(i)
  \/ \E g \in Grants : Revoke(g)

Spec == Init /\ [][Next]_vars
-----------------------------------------------------------------------------
(* Properties                                                              *)

\* No isolate sends Cloudflare a refresh token it has already replaced, whatever other
\* isolates and administrators do at the same time: refreshPromise lets one refresh run.
PresentsOnce ==
  \A r \in Requests :
    req[r].stage = "exchange" => req[r].token \notin used[req[r].isolate]

\* Between requests, the column is what the administrator asked for: the grant that was
\* connected last, in the form of the token Cloudflare accepts next, or nothing.  It goes
\* wrong only if writers overlapped or a rotation was lost half-way.
ColumnAsAsked ==
  ~disturbed /\ (\A r \in Requests : ~Writes(r)) =>
    IF cloudflare_oauth_token = None THEN asked = None \/ live[asked] = 0
    ELSE cloudflare_oauth_token.grant = asked
         /\ live[asked] \in {0, cloudflare_oauth_token.number}

\* An isolate that was told to disconnect serves nothing with the access tokens of
\* before, unless it was refreshing one meanwhile.
DisconnectForgets ==
  ~disturbed => \A i \in Isolates : cachedAccessToken[i] \notin forgotten[i]
=============================================================================
