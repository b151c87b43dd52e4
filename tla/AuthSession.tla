---------------------------- MODULE AuthSession ----------------------------
(***************************************************************************)
(* The sessions of one user: refresh tokens in the worker's database       *)
(* (modules/auth/service.ts, modules/users/service.ts) and the clients     *)
(* that rotate them (web/src/stores/auth.ts).  A device keeps one refresh  *)
(* token in localStorage, shared by its tabs; every tab has its own access *)
(* token in memory and its own single-flight refresh.  Passwords, hashes   *)
(* and the user's other fields are left out: a login has good credentials, *)
(* and an access token is Null, valid or expired.                          *)
(***************************************************************************)
CONSTANTS
  Devices,    \* browser profiles the user is logged in from
  Tabs,
  DeviceOf,   \* the device of each tab
  Tokens,     \* refresh tokens that can be issued
  Handlers,   \* requests the worker can be processing at a time
  Absent, Null

ASSUME AuthAssumption ==
  /\ DeviceOf \in [Tabs -> Devices]
  /\ Absent \notin [session : Tokens, revoked : BOOLEAN]
  /\ Null \notin Tokens
  /\ Null \notin [handler : Handlers, stored : Tokens, retry : BOOLEAN]
  /\ Null \notin [kind : {"login", "logout", "password"}, handler : Handlers]

VARIABLES
  refresh_tokens,  \* the table; session is the login the token descends from
  is_active,       \* of the user's row
  handler,         \* requests under way in the worker
  stored,          \* runmail_refresh_token of each device
  accessToken,     \* of each tab: Null, "valid" or "expired"
  inflightRefresh, \* the refresh each tab is waiting for
  call,            \* the login, logout or password change it is waiting for
  written_off      \* history: tokens that expired, were revoked by a logout, a
                   \* password change or a deactivation, or whose rotation the
                   \* client gave up on

server == <<refresh_tokens, is_active>>
tabs == <<accessToken, inflightRefresh, call>>
vars == <<server, handler, stored, tabs, written_off>>

Idle == [stage |-> "idle"]

Live(k) == refresh_tokens[k] # Absent /\ ~refresh_tokens[k].revoked

Init ==
  /\ refresh_tokens = [k \in Tokens |-> Absent]
  /\ is_active = TRUE
  /\ handler = [h \in Handlers |-> Idle]
  /\ stored = [d \in Devices |-> Null]
  /\ accessToken = [t \in Tabs |-> Null]
  /\ inflightRefresh = [t \in Tabs |-> Null]
  /\ call = [t \in Tabs |-> Null]
  /\ written_off = {}

Goes(h, q) == handler' = [handler EXCEPT ![h] = q]

\* Revocation sets revoked_at where it is still null.
Revoked(S) ==
  [k \in Tokens |-> IF k \in S /\ Live(k) THEN [refresh_tokens[k] EXCEPT !.revoked = TRUE]
                    ELSE refresh_tokens[k]]

Refreshes(t, h) == inflightRefresh[t] # Null /\ inflightRefresh[t].handler = h
Calls(t, h) == call[t] # Null /\ call[t].handler = h
Waits(t, h) == Refreshes(t, h) \/ Calls(t, h)

\* The answer of a request whose client has given up goes nowhere.
Answer(h, q) == Goes(h, IF \E t \in Tabs : Waits(t, h) THEN q ELSE Idle)

-----------------------------------------------------------------------------
(* The worker                                                              *)

\* Mutant of ClaimToken: the claim does not test revoked_at.
ClaimAnyToken(h) ==
  /\ handler[h].stage = "claim"
  /\ LET k == handler[h].token IN
     /\ refresh_tokens' = Revoked({k})
     /\ IF refresh_tokens[k] # Absent THEN Goes(h, [stage |-> "load", token |-> k])
        ELSE Answer(h, [stage |-> "rejected"])
  /\ UNCHANGED <<is_active, stored, tabs, written_off>>

\* refresh: one UPDATE claims the rotation; the SELECT that tells an expired token
\* from a reused one changes nothing, and both are answered 401.
ClaimToken(h) ==
  /\ handler[h].stage = "claim"
  /\ LET k == handler[h].token IN
     /\ refresh_tokens' = Revoked({k})
     /\ IF Live(k) THEN Goes(h, [stage |-> "load", token |-> k])
        ELSE Answer(h, [stage |-> "rejected"])
  /\ UNCHANGED <<is_active, stored, tabs, written_off>>

\* refresh and login read the user's row; token is Null in a login.
LoadUser(h) ==
  /\ handler[h].stage = "load"
  /\ IF is_active THEN Goes(h, [handler[h] EXCEPT !.stage = "insert"]) /\ UNCHANGED written_off
     ELSE /\ Answer(h, [stage |-> "rejected"])
          /\ written_off' = written_off \cup ({handler[h].token} \ {Null})
  /\ UNCHANGED <<server, stored, tabs>>

\* ... and, some awaits later, insert the new token.
InsertToken(h) ==
  /\ handler[h].stage = "insert"
  /\ \E k \in Tokens :
       /\ refresh_tokens[k] = Absent
       /\ refresh_tokens' = [refresh_tokens EXCEPT ![k] =
            [session |-> IF handler[h].token = Null THEN k
                         ELSE refresh_tokens[handler[h].token].session,
             revoked |-> FALSE]]
       /\ Answer(h, [stage |-> "granted", token |-> k])
  /\ UNCHANGED <<is_active, stored, tabs, written_off>>

\* Mutant of RevokeToken: logout revokes every token of the user.
RevokeEverywhere(h) ==
  /\ handler[h].stage = "revoke"
  /\ refresh_tokens' = Revoked(Tokens)
  /\ written_off' = written_off \cup {handler[h].token}
  /\ Answer(h, [stage |-> "done"])
  /\ UNCHANGED <<is_active, stored, tabs>>

\* logout.
RevokeToken(h) ==
  /\ handler[h].stage = "revoke"
  /\ refresh_tokens' = Revoked({handler[h].token})
  /\ written_off' = written_off \cup {handler[h].token}
  /\ Answer(h, [stage |-> "done"])
  /\ UNCHANGED <<is_active, stored, tabs>>

\* changePassword: one batch sets the password and revokes what is live.
RevokeAll(h) ==
  /\ handler[h].stage = "revoke_all"
  /\ refresh_tokens' = Revoked(Tokens)
  /\ written_off' = written_off \cup {k \in Tokens : Live(k)}
  /\ Answer(h, [stage |-> "done"])
  /\ UNCHANGED <<is_active, stored, tabs>>

\* updateUser by an administrator: a new password or is_active = FALSE revokes
\* every live token in the same batch; anything else touches the user only.
UpdateUser ==
  /\ \/ /\ is_active' \in BOOLEAN
        /\ refresh_tokens' = Revoked(Tokens)
        /\ written_off' = written_off \cup {k \in Tokens : Live(k)}
     \/ is_active' = TRUE /\ UNCHANGED <<refresh_tokens, written_off>>
  /\ UNCHANGED <<handler, stored, tabs>>

\* expires_at passes: the token can no longer be claimed.
TokenExpires(k) ==
  /\ Live(k)
  /\ refresh_tokens' = Revoked({k})
  /\ written_off' = written_off \cup {k}
  /\ UNCHANGED <<is_active, handler, stored, tabs>>

-----------------------------------------------------------------------------
(* The clients                                                             *)

\* performRefresh, behind the single flight of refresh(): restoreSession without an
\* access token, or a request that was answered 401.
StartRefresh(t) ==
  LET k == stored[DeviceOf[t]] IN
  /\ inflightRefresh[t] = Null /\ accessToken[t] # "valid" /\ k # Null
  /\ \E h \in Handlers :
       /\ handler[h] = Idle
       /\ Goes(h, [stage |-> "claim", token |-> k])
       /\ inflightRefresh' = [inflightRefresh EXCEPT ![t] =
            [handler |-> h, stored |-> k, retry |-> FALSE]]
  /\ UNCHANGED <<server, stored, accessToken, call, written_off>>

\* applySession of what handler h has granted to tab t.
ApplySession(t, h) ==
  /\ handler[h].stage = "granted"
  /\ stored' = [stored EXCEPT ![DeviceOf[t]] = handler[h].token]
  /\ accessToken' = [accessToken EXCEPT ![t] = "valid"]
  /\ Goes(h, Idle)
  /\ UNCHANGED <<server, written_off>>

Refreshed(t) ==
  /\ inflightRefresh[t] # Null
  /\ ApplySession(t, inflightRefresh[t].handler)
  /\ inflightRefresh' = [inflightRefresh EXCEPT ![t] = Null]
  /\ UNCHANGED call

Rejected(t) ==
  inflightRefresh[t] # Null /\ handler[inflightRefresh[t].handler].stage = "rejected"

\* Another tab has rotated the token meanwhile: try once more with the new one.
Rotated(t) ==
  /\ ~inflightRefresh[t].retry
  /\ stored[DeviceOf[t]] \notin {Null, inflightRefresh[t].stored}

RetryRefresh(t) ==
  LET k == stored[DeviceOf[t]]
      h == inflightRefresh[t].handler IN
  /\ Rejected(t) /\ Rotated(t)
  /\ Goes(h, [stage |-> "claim", token |-> k])
  /\ inflightRefresh' = [inflightRefresh EXCEPT ![t] =
       [handler |-> h, stored |-> k, retry |-> TRUE]]
  /\ UNCHANGED <<server, stored, accessToken, call, written_off>>

\* clearSession: what is in storage goes, whoever put it there.
ClearSession(t) ==
  /\ stored' = [stored EXCEPT ![DeviceOf[t]] = Null]
  /\ accessToken' = [accessToken EXCEPT ![t] = Null]

RejectRefresh(t) ==
  /\ Rejected(t) /\ ~Rotated(t)
  /\ ClearSession(t)
  /\ inflightRefresh' = [inflightRefresh EXCEPT ![t] = Null]
  /\ Goes(inflightRefresh[t].handler, Idle)
  /\ UNCHANGED <<server, call, written_off>>

\* The client gives up on its refresh: the request has not arrived or the worker has
\* failed, or the worker goes on and its answer is lost.
GiveUp(t) ==
  LET h == inflightRefresh[t].handler
      k == inflightRefresh[t].stored IN
  /\ inflightRefresh[t] # Null
  /\ \/ /\ Goes(h, Idle)
        /\ written_off' = IF handler[h].stage \in {"load", "insert", "granted"}
                          THEN written_off \cup {k} ELSE written_off
     \/ /\ handler[h].stage \in {"claim", "load", "insert"}
        /\ written_off' = written_off \cup {k}
        /\ UNCHANGED handler
  /\ inflightRefresh' = [inflightRefresh EXCEPT ![t] = Null]

\* A transient failure keeps the stored token; in the retry it clears the session.
LoseRefresh(t) ==
  /\ GiveUp(t)
  /\ IF inflightRefresh[t].retry THEN ClearSession(t)
     ELSE accessToken' = [accessToken EXCEPT ![t] = Null] /\ UNCHANGED stored
  /\ UNCHANGED <<server, call>>

\* A form is submitted or a button clicked; the tab waits for the answer.
Send(t, kind, q) ==
  \E h \in Handlers :
    /\ handler[h] = Idle
    /\ Goes(h, q)
    /\ call' = [call EXCEPT ![t] = [kind |-> kind, handler |-> h]]

\* login, from the login page.
Login(t) ==
  /\ accessToken[t] = Null /\ inflightRefresh[t] = Null /\ call[t] = Null
  /\ Send(t, "login", [stage |-> "load", token |-> Null])
  /\ UNCHANGED <<server, stored, accessToken, inflightRefresh, written_off>>

LoggedIn(t) ==
  /\ call[t] # Null
  /\ ApplySession(t, call[t].handler)
  /\ call' = [call EXCEPT ![t] = Null]
  /\ UNCHANGED inflightRefresh

\* logout: the server is told if there is a token, and listens if the access token
\* is still good.
Logout(t) ==
  LET k == stored[DeviceOf[t]] IN
  /\ accessToken[t] # Null /\ call[t] = Null
  /\ IF k = Null THEN ClearSession(t) /\ UNCHANGED <<handler, call>>
     ELSE /\ Send(t, "logout",
                  IF accessToken[t] = "valid" THEN [stage |-> "revoke", token |-> k]
                  ELSE [stage |-> "rejected"])
          /\ UNCHANGED <<stored, accessToken>>
  /\ UNCHANGED <<server, inflightRefresh, written_off>>

ChangePassword(t) ==
  /\ accessToken[t] = "valid" /\ call[t] = Null
  /\ Send(t, "password", [stage |-> "revoke_all"])
  /\ UNCHANGED <<server, stored, accessToken, inflightRefresh, written_off>>

\* The rest of logout, and endSessionLocally after a password change.
EndSession(t) ==
  /\ call[t] # Null
  /\ handler[call[t].handler].stage = "done"
  /\ ClearSession(t)
  /\ call' = [call EXCEPT ![t] = Null]
  /\ Goes(call[t].handler, Idle)
  /\ UNCHANGED <<server, inflightRefresh, written_off>>

\* A request is refused or fails: a login or password change only shows an error, a
\* logout goes on as if it had not failed.
FailCall(t) ==
  /\ call[t] # Null
  /\ LET h == call[t].handler IN
     \/ Goes(h, Idle)
     \/ handler[h].stage \notin {"granted", "rejected", "done"} /\ UNCHANGED handler
  /\ IF call[t].kind = "logout" THEN ClearSession(t) ELSE UNCHANGED <<stored, accessToken>>
  /\ call' = [call EXCEPT ![t] = Null]
  /\ UNCHANGED <<server, inflightRefresh, written_off>>

AccessExpires(t) ==
  /\ accessToken[t] = "valid"
  /\ accessToken' = [accessToken EXCEPT ![t] = "expired"]
  /\ UNCHANGED <<server, handler, stored, inflightRefresh, call, written_off>>

\* A tab is reloaded or closed: its memory is gone, the stored token is not, and
\* the worker goes on.
Reload(t) ==
  /\ handler' = [h \in Handlers |->
       IF Waits(t, h) /\ handler[h].stage \in {"granted", "rejected", "done"} THEN Idle
       ELSE handler[h]]
  /\ written_off' =
       IF inflightRefresh[t] # Null /\ ~Rejected(t)
       THEN written_off \cup {inflightRefresh[t].stored} ELSE written_off
  /\ accessToken' = [accessToken EXCEPT ![t] = Null]
  /\ inflightRefresh' = [inflightRefresh EXCEPT ![t] = Null]
  /\ call' = [call EXCEPT ![t] = Null]
  /\ UNCHANGED <<server, stored>>

-----------------------------------------------------------------------------
Worker(h) ==
  \/ ClaimToken(h) \/ LoadUser(h) \/ InsertToken(h) \/ RevokeToken(h) \/ RevokeAll(h)

Client(t) ==
  \/ StartRefresh(t) \/ RetryRefresh(t) \/ RejectRefresh(t) \/ LoseRefresh(t)
  \/ Refreshed(t) \/ LoggedIn(t) \/ Login(t) \/ Logout(t) \/ ChangePassword(t) \/ EndSession(t) \/ FailCall(t)
  \/ AccessExpires(t) \/ Reload(t)

Next ==
  \/ \E h \in Handlers : Worker(h)
  \/ \E t \in Tabs : Client(t)
  \/ UpdateUser
  \/ \E k \in Tokens : TokenExpires(k)

Spec == Init /\ [][Next]_vars

-----------------------------------------------------------------------------
(* Properties                                                              *)

\* AUTH-5: rotation never forks a session, whichever tabs refresh at once, answers
\* are lost or requests linger: at most one token of a login is accepted, and none
\* while a rotation is on its way.
OneTokenPerSession ==
  \A j, k \in Tokens : Live(j) /\ Live(k) /\ refresh_tokens[j].session = refresh_tokens[k].session
                         => j = k

\* Tab t is about to replace the token that device d has stored.
OnItsWay(t, d) ==
  /\ DeviceOf[t] = d /\ inflightRefresh[t] # Null /\ inflightRefresh[t].stored = stored[d]
  /\ handler[inflightRefresh[t].handler].stage \in {"load", "insert", "granted"}

\* The token a device keeps is one the worker accepts, or its successor is on its way
\* to a tab of this device, unless the answer of its rotation was lost or the session
\* was ended on purpose: no tab writes an older token back, no other device's logout
\* ends it (AUTH-7).
StoredTokenUsable ==
  \A d \in Devices : LET k == stored[d] IN
    \/ k = Null \/ k \in written_off \/ Live(k)
    \/ \E t \in Tabs : OnItsWay(t, d)

\* stores/auth.ts:86: a rejected refresh throws away only a token that is dead.
ClearsOnlyRejected ==
  [][\A t \in Tabs : RejectRefresh(t) => LET k == stored[DeviceOf[t]] IN k = Null \/ ~Live(k)]_vars

-----------------------------------------------------------------------------
(* The inductive invariant behind the safety properties                    *)

Request ==
  {Idle}
  \cup [stage : {"claim", "revoke", "granted"}, token : Tokens]
  \cup [stage : {"load", "insert"}, token : Tokens \cup {Null}]
  \cup [stage : {"rejected", "revoke_all", "done"}]

\* Types of the tables, of the requests and of what devices and tabs keep.
TypeOK ==
  /\ refresh_tokens \in [Tokens -> {Absent} \cup [session : Tokens, revoked : BOOLEAN]]
  /\ is_active \in BOOLEAN
  /\ handler \in [Handlers -> Request]
  /\ stored \in [Devices -> Tokens \cup {Null}]
  /\ accessToken \in [Tabs -> {Null, "valid", "expired"}]
  /\ inflightRefresh \in
       [Tabs -> {Null} \cup [handler : Handlers, stored : Tokens, retry : BOOLEAN]]
  /\ call \in [Tabs -> {Null} \cup [kind : {"login", "logout", "password"}, handler : Handlers]]
  /\ written_off \in SUBSET Tokens

\* A rotation between its claim and its insert.
Rotates(h) == handler[h].stage \in {"load", "insert"} /\ handler[h].token # Null

SessionOf(h) == refresh_tokens[handler[h].token].session

\* A login's own token names its session.
SessionsAreIssued ==
  \A k \in Tokens : refresh_tokens[k] # Absent => refresh_tokens[refresh_tokens[k].session] # Absent

\* A session whose token has been claimed has no live token and no second rotation.
RotationIsExclusive ==
  \A h \in Handlers : Rotates(h) =>
    /\ refresh_tokens[handler[h].token] # Absent
    /\ \A k \in Tokens : Live(k) => refresh_tokens[k].session # SessionOf(h)
    /\ \A g \in Handlers : Rotates(g) /\ SessionOf(g) = SessionOf(h) => g = h

RotationInv == TypeOK /\ OneTokenPerSession /\ SessionsAreIssued /\ RotationIsExclusive

\* What a tab waits for is what its request in the worker is about.
WaitsForOwn ==
  \A t \in Tabs :
    /\ inflightRefresh[t] # Null =>
         LET q == handler[inflightRefresh[t].handler] IN
         /\ q.stage \in {"claim", "load", "insert", "granted", "rejected"}
         /\ q.stage \in {"claim", "load", "insert"} => q.token = inflightRefresh[t].stored
    /\ call[t] # Null =>
         LET q == handler[call[t].handler] IN
         /\ q.stage \in {"load", "insert", "granted", "rejected", "revoke", "revoke_all", "done"}
         /\ q.stage \in {"load", "insert"} => q.token = Null

\* Nobody else waits for it.
OneWaiter ==
  \A h \in Handlers, t, u \in Tabs :
    /\ Refreshes(t, h) /\ Refreshes(u, h) => t = u
    /\ Calls(t, h) /\ Calls(u, h) => t = u
    /\ ~(Refreshes(t, h) /\ Calls(u, h))

\* A refresh nobody waits for any more has been written off.
HeadlessWrittenOff ==
  \A h \in Handlers : handler[h].stage = "claim" \/ Rotates(h) =>
    handler[h].token \in written_off \/ \E t \in Tabs : Refreshes(t, h)

\* Who mentions a token: a device, a waiting tab, a request.
Mentioned(k) ==
  \/ \E d \in Devices : stored[d] = k
  \/ \E t \in Tabs : inflightRefresh[t] # Null /\ inflightRefresh[t].stored = k
  \/ \E h \in Handlers : handler[h].stage \in {"claim", "load", "insert", "revoke"} /\ handler[h].token = k

\* Only issued tokens are.
MentionedAreIssued ==
  \A k \in Tokens : Mentioned(k) \/ (\E h \in Handlers : handler[h].stage = "granted" /\ handler[h].token = k)
                      => refresh_tokens[k] # Absent

\* A token that has been granted but not delivered is known to nobody else.
GrantedIsPrivate ==
  \A h \in Handlers : handler[h].stage = "granted" =>
    LET k == handler[h].token IN
    /\ Live(k) \/ k \in written_off
    /\ ~Mentioned(k)
    /\ \A g \in Handlers : handler[g].stage = "granted" /\ handler[g].token = k => g = h

\* A token belongs to one device.
OneDevice ==
  /\ \A d, e \in Devices : stored[d] = stored[e] /\ stored[d] # Null => d = e
  /\ \A t \in Tabs, d \in Devices :
       inflightRefresh[t] # Null /\ stored[d] = inflightRefresh[t].stored => DeviceOf[t] = d
  /\ \A t, u \in Tabs :
       inflightRefresh[t] # Null /\ inflightRefresh[u] # Null
         /\ inflightRefresh[t].stored = inflightRefresh[u].stored => DeviceOf[t] = DeviceOf[u]

IInv ==
  /\ RotationInv
  /\ WaitsForOwn /\ OneWaiter /\ HeadlessWrittenOff
  /\ MentionedAreIssued /\ GrantedIsPrivate /\ OneDevice
  /\ StoredTokenUsable
=============================================================================
