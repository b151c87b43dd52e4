------------------------- MODULE AuthSessionProofs -------------------------
(***************************************************************************)
(* For any number of devices, tabs, tokens and concurrent requests: types, *)
(* rotation never forks a session, and the token a device keeps is usable. *)
(* For the last IInv is inductive.  Steps are grouped by what they do to   *)
(* who waits for which request: the three statements of a rotation,        *)
(* revocations, requests that are sent, answers that are applied, and tabs *)
(* that stop waiting (LeaveKeepsSession).                                  *)
(***************************************************************************)
EXTENDS AuthSession, TLAPS

USE AuthAssumption

-----------------------------------------------------------------------------
(* The table                                                               *)

TableOK == refresh_tokens \in [Tokens -> {Absent} \cup [session : Tokens, revoked : BOOLEAN]]

\* The step may revoke tokens in S; it issues none.
Revokes(S) ==
  /\ TableOK'
  /\ \A k \in Tokens :
       /\ refresh_tokens'[k] = Absent <=> refresh_tokens[k] = Absent
       /\ refresh_tokens[k] # Absent =>
            refresh_tokens'[k].session = refresh_tokens[k].session
       /\ Live(k)' <=> Live(k) /\ k \notin S

\* Revocation touches revoked_at of live tokens in the set only.
LEMMA RevokedRevokes ==
  ASSUME TableOK, NEW S, refresh_tokens' = Revoked(S)
  PROVE  Revokes(S)
<1>1. ASSUME NEW k \in Tokens
      PROVE  /\ refresh_tokens'[k] \in {Absent} \cup [session : Tokens, revoked : BOOLEAN]
             /\ refresh_tokens'[k] = Absent <=> refresh_tokens[k] = Absent
             /\ refresh_tokens[k] # Absent =>
                  refresh_tokens'[k].session = refresh_tokens[k].session
             /\ Live(k)' <=> Live(k) /\ k \notin S
  <2>1. refresh_tokens'[k] = IF k \in S /\ Live(k) THEN [refresh_tokens[k] EXCEPT !.revoked = TRUE]
                             ELSE refresh_tokens[k]
    BY DEF Revoked
  <2>2. CASE k \in S /\ Live(k)
    <3>1. refresh_tokens[k] \in [session : Tokens, revoked : BOOLEAN]
      BY <2>2 DEF TableOK, Live
    <3>2. refresh_tokens'[k] = [refresh_tokens[k] EXCEPT !.revoked = TRUE]
      BY <2>1, <2>2
    <3>3. /\ refresh_tokens'[k] \in [session : Tokens, revoked : BOOLEAN]
          /\ refresh_tokens'[k].session = refresh_tokens[k].session
          /\ refresh_tokens'[k].revoked = TRUE
      BY <3>1, <3>2
    <3>4. refresh_tokens'[k] # Absent /\ refresh_tokens[k] # Absent
      BY <3>1, <3>3
    <3> QED
      BY <2>2, <3>3, <3>4 DEF Live
  <2>3. CASE ~(k \in S /\ Live(k))
    BY <2>1, <2>3 DEF TableOK, Live
  <2> QED
    BY <2>2, <2>3
<1>2. refresh_tokens' = [k \in Tokens |-> refresh_tokens'[k]]
  BY DEF Revoked
<1>3. TableOK'
  BY <1>1, <1>2 DEF TableOK
<1> QED
  BY <1>1, <1>3 DEF Revokes

\* A step that leaves the table alone revokes nothing.
LEMMA UnchangedRevokes ==
  ASSUME TableOK, UNCHANGED refresh_tokens
  PROVE  Revokes({})
BY DEF Revokes, TableOK, Live

-----------------------------------------------------------------------------
(* Types                                                                   *)

\* The tables and the devices are well typed to begin with.
LEMMA TypeInit == Init => TypeOK
BY DEF Init, TypeOK, Request, Idle

\* Every step of the worker keeps the types; a rotation finds the row of the token it
\* has claimed.
LEMMA TypeWorker ==
  ASSUME TypeOK, RotationIsExclusive, NEW h \in Handlers, Worker(h)
  PROVE  TypeOK'
<1> USE DEF server, tabs
<1>0. TableOK
  BY DEF TypeOK, TableOK
<1>1. handler[h] \in Request
  BY DEF TypeOK
<1>2. ASSUME NEW q \in Request, Goes(h, q) \/ Answer(h, q)
      PROVE  handler' \in [Handlers -> Request]
  BY <1>2 DEF TypeOK, Goes, Answer, Request
<1>3. CASE ClaimToken(h)
  <2>1. handler[h].token \in Tokens
    BY <1>1, <1>3 DEF ClaimToken, Request, Idle
  <2>2. TableOK'
    BY <1>0, <1>3, RevokedRevokes DEF ClaimToken, Revokes
  <2>3. [stage |-> "load", token |-> handler[h].token] \in Request /\ [stage |-> "rejected"] \in Request
    BY <2>1 DEF Request
  <2>4. handler' \in [Handlers -> Request]
    BY <1>2, <1>3, <2>3 DEF ClaimToken
  <2> QED
    BY <1>3, <2>2, <2>4 DEF ClaimToken, TypeOK, TableOK
<1>4. CASE LoadUser(h)
  <2>1. handler[h] \in [stage : {"load", "insert"}, token : Tokens \cup {Null}]
    BY <1>1, <1>4 DEF LoadUser, Request, Idle
  <2>2. [handler[h] EXCEPT !.stage = "insert"] \in Request /\ [stage |-> "rejected"] \in Request
    BY <2>1 DEF Request
  <2>3. handler' \in [Handlers -> Request]
    BY <1>2, <1>4, <2>2 DEF LoadUser
  <2>4. written_off' \in SUBSET Tokens
    BY <1>4, <2>1 DEF LoadUser, TypeOK
  <2> QED
    BY <1>4, <2>3, <2>4 DEF LoadUser, TypeOK
<1>5. CASE InsertToken(h)
  <2>1. handler[h] \in [stage : {"load", "insert"}, token : Tokens \cup {Null}]
    BY <1>1, <1>5 DEF InsertToken, Request, Idle
  <2>2. PICK k \in Tokens :
          /\ refresh_tokens[k] = Absent
          /\ refresh_tokens' = [refresh_tokens EXCEPT ![k] =
               [session |-> IF handler[h].token = Null THEN k
                            ELSE refresh_tokens[handler[h].token].session,
                revoked |-> FALSE]]
          /\ Answer(h, [stage |-> "granted", token |-> k])
    BY <1>5 DEF InsertToken
  <2>3. [stage |-> "granted", token |-> k] \in Request
    BY DEF Request
  <2>4. handler' \in [Handlers -> Request]
    BY <1>2, <2>2, <2>3
  <2>5. (IF handler[h].token = Null THEN k ELSE refresh_tokens[handler[h].token].session)
          \in Tokens
    <3>1. CASE handler[h].token = Null
      BY <3>1
    <3>2. CASE handler[h].token # Null
      <4>1. handler[h].token \in Tokens /\ refresh_tokens[handler[h].token] # Absent
        BY <1>5, <2>1, <3>2 DEF InsertToken, RotationIsExclusive, Rotates
      <4> QED
        BY <3>2, <4>1 DEF TypeOK
    <3> QED
      BY <3>1, <3>2
  <2>6. TableOK'
    BY <1>0, <2>2, <2>5 DEF TableOK
  <2> QED
    BY <1>5, <2>4, <2>6 DEF InsertToken, TypeOK, TableOK
<1>6. CASE RevokeToken(h)
  <2>1. handler[h].token \in Tokens
    BY <1>1, <1>6 DEF RevokeToken, Request, Idle
  <2>2. TableOK'
    BY <1>0, <1>6, RevokedRevokes DEF RevokeToken, Revokes
  <2>3. [stage |-> "done"] \in Request
    BY DEF Request
  <2>4. handler' \in [Handlers -> Request]
    BY <1>2, <1>6, <2>3 DEF RevokeToken
  <2> QED
    BY <1>6, <2>1, <2>2, <2>4 DEF RevokeToken, TypeOK, TableOK
<1>7. CASE RevokeAll(h)
  <2>2. TableOK'
    BY <1>0, <1>7, RevokedRevokes DEF RevokeAll, Revokes
  <2>3. [stage |-> "done"] \in Request
    BY DEF Request
  <2>4. handler' \in [Handlers -> Request]
    BY <1>2, <1>7, <2>3 DEF RevokeAll
  <2> QED
    BY <1>7, <2>2, <2>4 DEF RevokeAll, TypeOK, TableOK
<1> QED
  BY <1>3, <1>4, <1>5, <1>6, <1>7 DEF Worker

\* So does every step of a tab.
LEMMA TypeClient ==
  ASSUME TypeOK, NEW t \in Tabs, Client(t)
  PROVE  TypeOK'
<1> USE DEF server
<1> DEFINE d == DeviceOf[t]
<1>0. d \in Devices /\ stored[d] \in Tokens \cup {Null}
  BY DEF TypeOK
<1>1. ASSUME NEW h, NEW q \in Request, Goes(h, q)
      PROVE  handler' \in [Handlers -> Request]
  BY <1>1 DEF TypeOK, Goes
<1>2. ASSUME ClearSession(t)
      PROVE  /\ stored' \in [Devices -> Tokens \cup {Null}]
             /\ accessToken' \in [Tabs -> {Null, "valid", "expired"}]
  BY <1>2 DEF TypeOK, ClearSession
<1>3. Idle \in Request
  BY DEF Request
<1>4. ASSUME NEW x \in {Null} \cup [handler : Handlers, stored : Tokens, retry : BOOLEAN],
             inflightRefresh' = [inflightRefresh EXCEPT ![t] = x]
      PROVE  inflightRefresh' \in
               [Tabs -> {Null} \cup [handler : Handlers, stored : Tokens, retry : BOOLEAN]]
  BY <1>4 DEF TypeOK
<1>5. ASSUME NEW x \in {Null} \cup [kind : {"login", "logout", "password"}, handler : Handlers],
             call' = [call EXCEPT ![t] = x]
      PROVE  call' \in
               [Tabs -> {Null} \cup [kind : {"login", "logout", "password"}, handler : Handlers]]
  BY <1>5 DEF TypeOK
<1>6. ASSUME NEW h, ApplySession(t, h), handler[h] \in Request
      PROVE  /\ stored' \in [Devices -> Tokens \cup {Null}]
             /\ accessToken' \in [Tabs -> {Null, "valid", "expired"}]
             /\ handler' \in [Handlers -> Request]
  <2>1. handler[h].token \in Tokens
    BY <1>6 DEF ApplySession, Request, Idle
  <2> QED
    BY <1>1, <1>3, <1>6, <2>1 DEF ApplySession, TypeOK
<1>7. inflightRefresh[t] # Null =>
        /\ inflightRefresh[t] \in [handler : Handlers, stored : Tokens, retry : BOOLEAN]
        /\ handler[inflightRefresh[t].handler] \in Request
  BY DEF TypeOK
<1>8. call[t] # Null =>
        /\ call[t] \in [kind : {"login", "logout", "password"}, handler : Handlers]
        /\ handler[call[t].handler] \in Request
  BY DEF TypeOK
<1>9. CASE StartRefresh(t)
  <2>1. PICK h \in Handlers :
          /\ Goes(h, [stage |-> "claim", token |-> stored[d]])
          /\ inflightRefresh' = [inflightRefresh EXCEPT ![t] =
               [handler |-> h, stored |-> stored[d], retry |-> FALSE]]
    BY <1>9 DEF StartRefresh
  <2>2. stored[d] \in Tokens
    BY <1>0, <1>9 DEF StartRefresh
  <2>3. [stage |-> "claim", token |-> stored[d]] \in Request
    BY <2>2 DEF Request
  <2>4. handler' \in [Handlers -> Request]
    BY <1>1, <2>1, <2>3
  <2> QED
    BY <1>4, <1>9, <2>1, <2>2, <2>4 DEF StartRefresh, TypeOK
<1>10. CASE Refreshed(t)
  BY <1>4, <1>6, <1>7, <1>10 DEF Refreshed, ApplySession, TypeOK
<1>11. CASE RetryRefresh(t)
  <2>1. /\ stored[d] \in Tokens /\ inflightRefresh[t].handler \in Handlers
        /\ Goes(inflightRefresh[t].handler, [stage |-> "claim", token |-> stored[d]])
    BY <1>0, <1>7, <1>11 DEF RetryRefresh, Rejected, Rotated
  <2>2. [stage |-> "claim", token |-> stored[d]] \in Request
    BY <2>1 DEF Request
  <2>3. handler' \in [Handlers -> Request]
    BY <1>1, <2>1, <2>2
  <2> QED
    BY <1>4, <1>11, <2>1, <2>3 DEF RetryRefresh, TypeOK
<1>12. CASE RejectRefresh(t)
  BY <1>1, <1>2, <1>3, <1>4, <1>12 DEF RejectRefresh, TypeOK
<1>13. CASE LoseRefresh(t)
  <2>1. handler' \in [Handlers -> Request]
    BY <1>1, <1>3, <1>13 DEF LoseRefresh, GiveUp, TypeOK
  <2>2. written_off' \in SUBSET Tokens
    BY <1>7, <1>13 DEF LoseRefresh, GiveUp, TypeOK
  <2>3. /\ stored' \in [Devices -> Tokens \cup {Null}]
        /\ accessToken' \in [Tabs -> {Null, "valid", "expired"}]
    BY <1>2, <1>13 DEF LoseRefresh, TypeOK
  <2>4. inflightRefresh' = [inflightRefresh EXCEPT ![t] = Null] /\ UNCHANGED <<server, call>>
    BY <1>13 DEF LoseRefresh, GiveUp
  <2> QED
    BY <1>4, <2>1, <2>2, <2>3, <2>4 DEF TypeOK
<1>14. ASSUME NEW kind \in {"login", "logout", "password"}, NEW q \in Request, Send(t, kind, q)
       PROVE  /\ handler' \in [Handlers -> Request]
              /\ call' \in [Tabs -> {Null} \cup
                              [kind : {"login", "logout", "password"}, handler : Handlers]]
  <2>1. PICK h \in Handlers :
          /\ Goes(h, q)
          /\ call' = [call EXCEPT ![t] = [kind |-> kind, handler |-> h]]
    BY <1>14 DEF Send
  <2>2. handler' \in [Handlers -> Request]
    BY <1>1, <2>1
  <2> QED
    BY <1>5, <2>1, <2>2
<1>15. CASE Login(t)
  <2>1. [stage |-> "load", token |-> Null] \in Request
    BY DEF Request
  <2> QED
    BY <1>14, <1>15, <2>1 DEF Login, TypeOK
<1>16. CASE LoggedIn(t)
  BY <1>5, <1>6, <1>8, <1>16 DEF LoggedIn, ApplySession, TypeOK
<1>17. CASE Logout(t)
  <2>1. CASE stored[d] = Null
    BY <1>2, <1>17, <2>1 DEF Logout, TypeOK
  <2>2. CASE stored[d] # Null
    <3>1. [stage |-> "revoke", token |-> stored[d]] \in Request /\ [stage |-> "rejected"] \in Request
      BY <1>0, <2>2 DEF Request
    <3> QED
      BY <1>14, <1>17, <2>2, <3>1 DEF Logout, TypeOK
  <2> QED
    BY <2>1, <2>2
<1>18. CASE ChangePassword(t)
  <2>1. [stage |-> "revoke_all"] \in Request
    BY DEF Request
  <2> QED
    BY <1>14, <1>18, <2>1 DEF ChangePassword, TypeOK
<1>19. CASE EndSession(t)
  BY <1>1, <1>2, <1>3, <1>5, <1>19 DEF EndSession, TypeOK
<1>20. CASE FailCall(t)
  <2>1. handler' \in [Handlers -> Request]
    BY <1>1, <1>3, <1>20 DEF FailCall, TypeOK
  <2>2. /\ stored' \in [Devices -> Tokens \cup {Null}]
        /\ accessToken' \in [Tabs -> {Null, "valid", "expired"}]
    BY <1>2, <1>20 DEF FailCall, TypeOK
  <2> QED
    BY <1>5, <1>20, <2>1, <2>2 DEF FailCall, TypeOK
<1>21. CASE AccessExpires(t)
  BY <1>21 DEF AccessExpires, TypeOK
<1>22. CASE Reload(t)
  <2>1. handler' \in [Handlers -> Request]
    BY <1>3, <1>22 DEF Reload, TypeOK
  <2>2. written_off' \in SUBSET Tokens
    BY <1>7, <1>22 DEF Reload, TypeOK
  <2>3. accessToken' \in [Tabs -> {Null, "valid", "expired"}]
    BY <1>22 DEF Reload, TypeOK
  <2> QED
    BY <1>4, <1>5, <1>22, <2>1, <2>2, <2>3 DEF Reload, TypeOK
<1> QED
  BY <1>9, <1>10, <1>11, <1>12, <1>13, <1>15, <1>16, <1>17, <1>18, <1>19, <1>20, <1>21, <1>22
     DEF Client
-----------------------------------------------------------------------------
(* Rotation                                                                *)

\* Every rotation that is under way after the step was under way before it.
NoNewRotation ==
  \A h \in Handlers : Rotates(h)' => Rotates(h) /\ handler'[h].token = handler[h].token

\* Revoking tokens and dropping requests cannot fork a session.
LEMMA QuietStepKeepsRotation ==
  ASSUME RotationInv, TypeOK', NEW S, Revokes(S), NoNewRotation
  PROVE  RotationInv'
<1>1. \A k \in Tokens : Live(k)' =>
        Live(k) /\ refresh_tokens'[k].session = refresh_tokens[k].session
  BY DEF Revokes, Live
<1>2. ASSUME NEW h \in Handlers, Rotates(h)'
      PROVE  /\ Rotates(h) /\ refresh_tokens'[handler'[h].token] # Absent
             /\ SessionOf(h)' = SessionOf(h)
  <2>1. handler[h] \in [stage : {"load", "insert"}, token : Tokens \cup {Null}]
    BY <1>2 DEF NoNewRotation, Rotates, RotationInv, TypeOK, Request, Idle
  <2>2. Rotates(h) /\ handler'[h].token = handler[h].token
    BY <1>2 DEF NoNewRotation
  <2>3. handler[h].token \in Tokens /\ refresh_tokens[handler[h].token] # Absent
    BY <2>1, <2>2 DEF Rotates, RotationInv, RotationIsExclusive
  <2> QED
    BY <2>2, <2>3 DEF Revokes, SessionOf
<1>3. OneTokenPerSession'
  BY <1>1 DEF RotationInv, OneTokenPerSession
<1>4. SessionsAreIssued'
  <2> SUFFICES ASSUME NEW k \in Tokens, refresh_tokens'[k] # Absent
               PROVE  refresh_tokens'[refresh_tokens'[k].session] # Absent
    BY DEF SessionsAreIssued
  <2>1. /\ refresh_tokens[k] # Absent
        /\ refresh_tokens'[k].session = refresh_tokens[k].session
    BY DEF Revokes
  <2>2. /\ refresh_tokens[k].session \in Tokens
        /\ refresh_tokens[refresh_tokens[k].session] # Absent
    BY <2>1 DEF RotationInv, TypeOK, SessionsAreIssued
  <2> QED
    BY <2>1, <2>2 DEF Revokes
<1>5. RotationIsExclusive'
  BY <1>1, <1>2 DEF RotationInv, RotationIsExclusive
<1> QED
  BY <1>3, <1>4, <1>5 DEF RotationInv

\* A claim turns the one live token of a session into its one rotation.
LEMMA ClaimKeepsRotation ==
  ASSUME RotationInv, TypeOK', NEW h \in Handlers, ClaimToken(h)
  PROVE  RotationInv'
<1> DEFINE k == handler[h].token
<1>1. handler[h] \in [stage : {"claim", "revoke", "granted"}, token : Tokens]
  BY DEF ClaimToken, RotationInv, TypeOK, Request, Idle
<1>2. Revokes({k})
  BY RevokedRevokes DEF ClaimToken, RotationInv, TypeOK, TableOK
<1>3. \A g \in Handlers : g # h => handler'[g] = handler[g]
  BY DEF ClaimToken, Goes, Answer, RotationInv, TypeOK
<1>4. CASE ~Live(k)
  <2>1. handler'[h].stage \in {"rejected", "idle"}
    BY <1>4 DEF ClaimToken, Goes, Answer, Idle, RotationInv, TypeOK
  <2>2. NoNewRotation
    BY <1>3, <2>1 DEF NoNewRotation, Rotates
  <2> QED
    BY <1>2, <2>2, QuietStepKeepsRotation
<1>5. CASE Live(k)
  <2>1. handler'[h] = [stage |-> "load", token |-> k]
    BY <1>5 DEF ClaimToken, Goes, RotationInv, TypeOK
  <2>2. /\ k \in Tokens /\ refresh_tokens[k] # Absent /\ refresh_tokens'[k] # Absent
        /\ SessionOf(h)' = refresh_tokens[k].session
    BY <1>1, <1>2, <1>5, <2>1 DEF Live, Revokes, SessionOf
  <2>3. \A j \in Tokens : Live(j)' =>
          /\ Live(j) /\ j # k /\ refresh_tokens'[j].session = refresh_tokens[j].session
    BY <1>2 DEF Revokes, Live
  <2>4. ASSUME NEW g \in Handlers, g # h, Rotates(g)'
        PROVE  /\ Rotates(g) /\ refresh_tokens'[handler'[g].token] # Absent
               /\ SessionOf(g)' = SessionOf(g)
    <3>1. handler'[g] = handler[g] /\ Rotates(g)
      BY <1>3, <2>4 DEF Rotates
    <3>2. handler[g].token \in Tokens /\ refresh_tokens[handler[g].token] # Absent
      BY <3>1 DEF Rotates, RotationInv, RotationIsExclusive, TypeOK, Request, Idle
    <3> QED
      BY <1>2, <3>1, <3>2 DEF Revokes, SessionOf
  <2>5. OneTokenPerSession'
    BY <2>3 DEF RotationInv, OneTokenPerSession
  <2>6. SessionsAreIssued'
    BY <1>2 DEF RotationInv, TypeOK, SessionsAreIssued, Revokes
  <2>7. ASSUME NEW j \in Tokens, Live(j)'
        PROVE  refresh_tokens'[j].session # SessionOf(h)'
    BY <1>5, <2>2, <2>3, <2>7 DEF RotationInv, OneTokenPerSession
  <2>8. ASSUME NEW g \in Handlers, g # h, Rotates(g)'
        PROVE  /\ SessionOf(g)' # SessionOf(h)'
               /\ \A j \in Tokens : Live(j)' => refresh_tokens'[j].session # SessionOf(g)'
               /\ \A f \in Handlers : f # h /\ Rotates(f)' /\ SessionOf(f)' = SessionOf(g)' => f = g
    BY <1>5, <2>2, <2>3, <2>4, <2>8 DEF RotationInv, RotationIsExclusive
  <2>9. RotationIsExclusive'
    <3>1. refresh_tokens'[handler'[h].token] # Absent
      BY <2>1, <2>2
    <3> QED
      BY <2>4, <2>7, <2>8, <3>1 DEF RotationIsExclusive
  <2> QED
    BY <2>5, <2>6, <2>9 DEF RotationInv
<1> QED
  BY <1>4, <1>5

\* An insert ends the rotation of its session, or starts a session nobody knows.
LEMMA InsertKeepsRotation ==
  ASSUME RotationInv, TypeOK', NEW h \in Handlers, InsertToken(h)
  PROVE  RotationInv'
<1>1. handler[h] \in [stage : {"load", "insert"}, token : Tokens \cup {Null}]
  BY DEF InsertToken, RotationInv, TypeOK, Request, Idle
<1> DEFINE old == handler[h].token
<1>2. PICK k \in Tokens :
        /\ refresh_tokens[k] = Absent
        /\ refresh_tokens' = [refresh_tokens EXCEPT ![k] =
             [session |-> IF old = Null THEN k ELSE refresh_tokens[old].session,
              revoked |-> FALSE]]
        /\ Answer(h, [stage |-> "granted", token |-> k])
  BY DEF InsertToken
<1> DEFINE s == IF old = Null THEN k ELSE refresh_tokens[old].session
<1>3. old # Null => Rotates(h) /\ old \in Tokens /\ refresh_tokens[old] # Absent
  BY <1>1 DEF InsertToken, Rotates, RotationInv, RotationIsExclusive
<1>4. /\ refresh_tokens'[k] = [session |-> s, revoked |-> FALSE]
      /\ \A j \in Tokens : j # k => refresh_tokens'[j] = refresh_tokens[j]
  BY <1>2 DEF RotationInv, TypeOK
<1>5. refresh_tokens'[k].session = s /\ refresh_tokens'[k] # Absent
  <2>1. s \in Tokens
    BY <1>2, <1>3 DEF RotationInv, TypeOK
  <2>2. [session |-> s, revoked |-> FALSE] \in [session : Tokens, revoked : BOOLEAN]
    BY <2>1
  <2>3. refresh_tokens'[k] \in [session : Tokens, revoked : BOOLEAN]
    BY <1>4, <2>2
  <2>4. refresh_tokens'[k].session = s
    BY <1>4
  <2> QED
    BY <2>3, <2>4
<1>6. /\ handler'[h].stage \in {"granted", "idle"}
      /\ \A g \in Handlers : g # h => handler'[g] = handler[g]
  BY <1>2 DEF Answer, Goes, Idle, RotationInv, TypeOK
<1>7. ASSUME NEW j \in Tokens, refresh_tokens[j] # Absent
      PROVE  /\ j # k /\ refresh_tokens[j].session # k
             /\ refresh_tokens[j].session \in Tokens
             /\ refresh_tokens[refresh_tokens[j].session] # Absent
  BY <1>2, <1>7 DEF RotationInv, SessionsAreIssued, TypeOK
<1>8. ASSUME NEW j \in Tokens, j # k, Live(j)'
      PROVE  /\ Live(j) /\ refresh_tokens'[j].session = refresh_tokens[j].session
             /\ refresh_tokens[j].session # s
  <2>1. Live(j) /\ refresh_tokens'[j].session = refresh_tokens[j].session
    BY <1>4, <1>8 DEF Live
  <2>2. refresh_tokens[j].session # s
    <3>1. CASE old = Null
      BY <1>7, <2>1, <3>1 DEF Live
    <3>2. CASE old # Null
      BY <1>3, <2>1, <3>2 DEF RotationInv, RotationIsExclusive, SessionOf
    <3> QED
      BY <3>1, <3>2
  <2> QED
    BY <2>1, <2>2
<1>9. OneTokenPerSession'
  BY <1>5, <1>8 DEF RotationInv, OneTokenPerSession
<1>10. SessionsAreIssued'
  <2> SUFFICES ASSUME NEW j \in Tokens, refresh_tokens'[j] # Absent
               PROVE  refresh_tokens'[refresh_tokens'[j].session] # Absent
    BY DEF SessionsAreIssued
  <2>1. CASE j # k
    BY <1>4, <1>5, <1>7, <2>1
  <2>2. CASE j = k
    BY <1>3, <1>4, <1>5, <1>7, <2>2
  <2> QED
    BY <2>1, <2>2
<1>11. RotationIsExclusive'
  <2> SUFFICES ASSUME NEW g \in Handlers, Rotates(g)'
               PROVE  /\ refresh_tokens'[handler'[g].token] # Absent
                      /\ \A j \in Tokens : Live(j)' => refresh_tokens'[j].session # SessionOf(g)'
                      /\ \A f \in Handlers : Rotates(f)' /\ SessionOf(f)' = SessionOf(g)' => f = g
    BY DEF RotationIsExclusive
  <2>1. ASSUME NEW f \in Handlers, Rotates(f)'
        PROVE  /\ f # h /\ Rotates(f)
               /\ refresh_tokens'[handler'[f].token] # Absent
               /\ SessionOf(f)' = SessionOf(f) /\ SessionOf(f) # s
    <3>1. f # h /\ handler'[f] = handler[f] /\ Rotates(f)
      BY <1>6, <2>1 DEF Rotates
    <3>2. handler[f].token \in Tokens /\ refresh_tokens[handler[f].token] # Absent
      BY <3>1 DEF Rotates, RotationInv, RotationIsExclusive, TypeOK, Request, Idle
    <3>3. /\ refresh_tokens'[handler'[f].token] # Absent
          /\ SessionOf(f)' = SessionOf(f) /\ SessionOf(f) # k
      BY <1>4, <1>7, <3>1, <3>2 DEF SessionOf
    <3>4. SessionOf(f) # s
      BY <1>3, <3>1, <3>3 DEF RotationInv, RotationIsExclusive, SessionOf
    <3> QED
      BY <3>1, <3>3, <3>4
  <2> QED
    BY <1>5, <1>8, <2>1 DEF RotationInv, RotationIsExclusive
<1> QED
  BY <1>9, <1>10, <1>11 DEF RotationInv

\* The tabs issue, claim and insert nothing.
LEMMA ClientIsQuiet ==
  ASSUME TypeOK, NEW t \in Tabs, Client(t)
  PROVE  UNCHANGED server /\ NoNewRotation
<1>1. ASSUME NEW h, NEW q, Goes(h, q),
             q.stage \in {"load", "insert"} => q.token = Null
      PROVE  NoNewRotation
  BY <1>1 DEF Goes, NoNewRotation, Rotates, TypeOK
<1>2. ASSUME UNCHANGED handler PROVE NoNewRotation
  BY <1>2 DEF NoNewRotation, Rotates
<1>3. UNCHANGED server
  BY DEF Client, StartRefresh, Refreshed, ApplySession, RetryRefresh, RejectRefresh, LoseRefresh,
         Login, LoggedIn, Logout, ChangePassword, EndSession, FailCall, AccessExpires, Reload
<1>4. CASE StartRefresh(t) \/ RetryRefresh(t)
  BY <1>1, <1>4 DEF StartRefresh, RetryRefresh
<1>5. CASE Refreshed(t) \/ LoggedIn(t) \/ RejectRefresh(t) \/ EndSession(t)
  BY <1>1, <1>5 DEF Refreshed, LoggedIn, ApplySession, RejectRefresh, EndSession, Idle
<1>6. CASE LoseRefresh(t) \/ FailCall(t)
  BY <1>1, <1>2, <1>6 DEF LoseRefresh, GiveUp, FailCall, Idle
<1>7. CASE Login(t)
  BY <1>1, <1>7 DEF Login, Send
<1>8. CASE Logout(t)
  BY <1>1, <1>2, <1>8 DEF Logout, Send
<1>9. CASE ChangePassword(t)
  BY <1>1, <1>9 DEF ChangePassword, Send
<1>10. CASE AccessExpires(t)
  BY <1>2, <1>10 DEF AccessExpires
<1>11. CASE Reload(t)
  BY <1>11 DEF Reload, NoNewRotation, Rotates, Idle
<1> QED
  BY <1>3, <1>4, <1>5, <1>6, <1>7, <1>8, <1>9, <1>10, <1>11 DEF Client

\* The first part of the inductive invariant holds initially ...
LEMMA RotationInit == Init => RotationInv
<1> SUFFICES ASSUME Init PROVE RotationInv
  OBVIOUS
<1>1. \A k \in Tokens : refresh_tokens[k] = Absent
  BY DEF Init
<1>2. \A h \in Handlers : ~Rotates(h)
  BY DEF Init, Rotates, Idle
<1> QED
  BY <1>1, <1>2, TypeInit
     DEF RotationInv, OneTokenPerSession, SessionsAreIssued, RotationIsExclusive, Live

\* ... and is preserved by every step.
LEMMA RotationStep ==
  ASSUME RotationInv, [Next]_vars
  PROVE  RotationInv'
<1>0. TypeOK /\ TableOK /\ RotationIsExclusive
  BY DEF RotationInv, TypeOK, TableOK
<1>1. ASSUME NEW h \in Handlers, Worker(h)
      PROVE  RotationInv'
  <2>1. TypeOK'
    BY <1>0, <1>1, TypeWorker
  <2>2. CASE ClaimToken(h)
    BY <2>1, <2>2, ClaimKeepsRotation
  <2>3. CASE LoadUser(h)
    <3>1. NoNewRotation
      BY <1>0, <2>3 DEF LoadUser, NoNewRotation, Rotates, Goes, Answer, Idle, TypeOK, Request
    <3> QED
      BY <1>0, <2>1, <2>3, <3>1, UnchangedRevokes, QuietStepKeepsRotation DEF LoadUser, server
  <2>4. CASE InsertToken(h)
    BY <2>1, <2>4, InsertKeepsRotation
  <2>5. CASE RevokeToken(h) \/ RevokeAll(h)
    <3>1. NoNewRotation
      BY <1>0, <2>5 DEF RevokeToken, RevokeAll, NoNewRotation, Rotates, Goes, Answer, Idle, TypeOK
    <3>2. PICK S : refresh_tokens' = Revoked(S)
      BY <2>5 DEF RevokeToken, RevokeAll
    <3> QED
      BY <1>0, <2>1, <3>1, <3>2, RevokedRevokes, QuietStepKeepsRotation
  <2> QED
    BY <1>1, <2>2, <2>3, <2>4, <2>5 DEF Worker
<1>2. ASSUME NEW t \in Tabs, Client(t)
      PROVE  RotationInv'
  BY <1>0, <1>2, TypeClient, ClientIsQuiet, UnchangedRevokes, QuietStepKeepsRotation DEF server
<1>3. ASSUME UpdateUser \/ (\E k \in Tokens : TokenExpires(k))
      PROVE  RotationInv'
  <2>1. NoNewRotation
    BY <1>3 DEF UpdateUser, TokenExpires, NoNewRotation, Rotates
  <2>2. PICK S : Revokes(S)
    BY <1>0, <1>3, RevokedRevokes, UnchangedRevokes DEF UpdateUser, TokenExpires
  <2>3. TypeOK'
    BY <1>0, <1>3, <2>2 DEF UpdateUser, TokenExpires, TypeOK, TableOK, Revokes, tabs
  <2> QED
    BY <2>1, <2>2, <2>3, QuietStepKeepsRotation
<1>4. ASSUME UNCHANGED vars
      PROVE  RotationInv'
  <2>1. TypeOK' /\ NoNewRotation /\ Revokes({})
    BY <1>0, <1>4, UnchangedRevokes DEF vars, server, tabs, TypeOK, NoNewRotation, Rotates
  <2> QED
    BY <2>1, QuietStepKeepsRotation
<1> QED
  BY <1>1, <1>2, <1>3, <1>4 DEF Next

\* At most one refresh token of a login is accepted, whatever tabs, devices and
\* administrators do and however many requests the worker interleaves.
THEOREM RotationNeverForks == Spec => []OneTokenPerSession
<1>1. RotationInv => OneTokenPerSession
  BY DEF RotationInv
<1> QED
  BY <1>1, RotationInit, RotationStep, PTL DEF Spec

-----------------------------------------------------------------------------
(* Types                                                                   *)

\* What the types say about requests and about what tabs wait for.
LEMMA Shapes ==
  ASSUME TypeOK
  PROVE  /\ DOMAIN handler = Handlers
         /\ \A h \in Handlers :
              /\ handler[h].stage \in {"claim", "revoke", "granted"} => handler[h].token \in Tokens
              /\ handler[h].stage \in {"load", "insert"} => handler[h].token \in Tokens \cup {Null}
              /\ Rotates(h) => handler[h].token \in Tokens
         /\ \A t \in Tabs :
              /\ DeviceOf[t] \in Devices
              /\ inflightRefresh[t] # Null =>
                   inflightRefresh[t].handler \in Handlers /\ inflightRefresh[t].stored \in Tokens
              /\ call[t] # Null =>
                   call[t].handler \in Handlers /\ call[t].kind \in {"login", "logout", "password"}
         /\ TableOK /\ Null \notin Tokens
<1>1. \A h \in Handlers : handler[h] \in Request
  BY DEF TypeOK
<1>2. \A h \in Handlers :
              /\ handler[h].stage \in {"claim", "revoke", "granted"} => handler[h].token \in Tokens
              /\ handler[h].stage \in {"load", "insert"} => handler[h].token \in Tokens \cup {Null}
  BY <1>1 DEF Request, Idle
<1>3. \A h \in Handlers : Rotates(h) => handler[h].token \in Tokens
  BY <1>2 DEF Rotates
<1>4. \A t \in Tabs : inflightRefresh[t] # Null =>
                      inflightRefresh[t].handler \in Handlers /\ inflightRefresh[t].stored \in Tokens
  <2> SUFFICES ASSUME NEW t \in Tabs, inflightRefresh[t] # Null
               PROVE  inflightRefresh[t] \in [handler : Handlers, stored : Tokens, retry : BOOLEAN]
    OBVIOUS
  <2> QED BY DEF TypeOK
<1>5. \A t \in Tabs : call[t] # Null =>
                      call[t].handler \in Handlers /\ call[t].kind \in {"login", "logout", "password"}
  <2> SUFFICES ASSUME NEW t \in Tabs, call[t] # Null
               PROVE  call[t] \in [kind : {"login", "logout", "password"}, handler : Handlers]
    OBVIOUS
  <2> QED BY DEF TypeOK
<1>6. DOMAIN handler = Handlers /\ TableOK /\ \A t \in Tabs : DeviceOf[t] \in Devices
  BY DEF TypeOK, TableOK
<1> QED BY <1>2, <1>3, <1>4, <1>5, <1>6

\* IInv without what RotationStep has shown already.
SessionInv ==
  /\ WaitsForOwn /\ OneWaiter /\ HeadlessWrittenOff
  /\ MentionedAreIssued /\ GrantedIsPrivate /\ OneDevice
  /\ StoredTokenUsable

-----------------------------------------------------------------------------
(* The three statements of a rotation                                      *)

\* The claim: the token's tab, the only one to wait for this request, or the write-off
\* of an abandoned request, accounts for the token it kills.
LEMMA ClaimKeepsSession ==
  ASSUME TypeOK, SessionInv, NEW h \in Handlers, ClaimToken(h)
  PROVE  SessionInv'
<1> DEFINE k == handler[h].token
<1> USE Shapes DEF server, tabs
<1>1. k \in Tokens /\ Revokes({k}) /\ UNCHANGED <<stored, tabs, written_off>>
  BY RevokedRevokes DEF ClaimToken
<1>2. /\ \A g \in Handlers : g # h => handler'[g] = handler[g]
      /\ handler'[h].stage \in {"load", "rejected", "idle"}
      /\ handler'[h].stage = "load" => handler'[h].token = k /\ Live(k)
      /\ Live(k) => handler'[h] = [stage |-> "load", token |-> k]
      /\ (\E t \in Tabs : Waits(t, h)) => handler'[h].stage # "idle"
  BY DEF ClaimToken, Goes, Answer, Idle
<1>3. WaitsForOwn'
  BY <1>1, <1>2 DEF SessionInv, WaitsForOwn, ClaimToken, Waits, Calls, Refreshes
<1>4. OneWaiter' /\ OneDevice'
  BY <1>1 DEF SessionInv, OneWaiter, OneDevice, Refreshes, Calls
<1>5. HeadlessWrittenOff'
  BY <1>1, <1>2 DEF SessionInv, HeadlessWrittenOff, ClaimToken, Rotates, Refreshes
<1>6. \A j \in Tokens : Mentioned(j)' => Mentioned(j)
  BY <1>1, <1>2 DEF Mentioned, ClaimToken
<1>7. MentionedAreIssued'
  BY <1>1, <1>2, <1>6 DEF SessionInv, MentionedAreIssued, Revokes
<1>8. GrantedIsPrivate'
  <2>1. Mentioned(k)
    BY <1>1 DEF Mentioned, ClaimToken
  <2> QED BY <1>1, <1>2, <1>6, <2>1 DEF SessionInv, GrantedIsPrivate, Revokes
<1>9. StoredTokenUsable'
  <2> SUFFICES ASSUME NEW d \in Devices, stored[d] # Null, stored[d] \notin written_off, ~Live(stored[d])'
      PROVE  \E t \in Tabs : OnItsWay(t, d)'
    BY <1>1 DEF StoredTokenUsable
  <2>1. CASE Live(stored[d])
    <3>1. stored[d] = k
      BY <2>1, <1>1 DEF Revokes, TypeOK
    <3>2. PICK t \in Tabs : Refreshes(t, h)
      BY <3>1 DEF ClaimToken, HeadlessWrittenOff, SessionInv
    <3>3. inflightRefresh[t].stored = k
      BY <3>2 DEF SessionInv, WaitsForOwn, ClaimToken, Refreshes
    <3>4. DeviceOf[t] = d
      BY <3>1, <3>2, <3>3 DEF SessionInv, OneDevice, Refreshes
    <3> QED BY <3>1, <3>2, <3>3, <3>4, <2>1, <1>1, <1>2 DEF Refreshes, OnItsWay
  <2>2. CASE ~Live(stored[d])
    BY <2>2, <1>2 DEF SessionInv, StoredTokenUsable, ClaimToken, OnItsWay
  <2> QED BY <2>1, <2>2
<1> QED BY <1>3, <1>4, <1>5, <1>7, <1>8, <1>9 DEF SessionInv

\* The read of the user: a rotation it ends has spent its token.
LEMMA LoadKeepsSession ==
  ASSUME TypeOK, SessionInv, NEW h \in Handlers, LoadUser(h)
  PROVE  SessionInv'
<1> DEFINE k == handler[h].token
<1> USE Shapes DEF server, tabs
<1>1. /\ k \in Tokens \cup {Null}
      /\ UNCHANGED <<refresh_tokens, stored, tabs>>
      /\ handler[h].stage = "load"
      /\ written_off \subseteq written_off'
  BY DEF LoadUser
<1>2. /\ \A g \in Handlers : g # h => handler'[g] = handler[g]
      /\ handler'[h].stage \in {"insert", "rejected", "idle"}
      /\ handler'[h].stage = "insert" => handler'[h].token = k
      /\ handler'[h].stage # "insert" => k = Null \/ k \in written_off'
      /\ (\E t \in Tabs : Waits(t, h)) => handler'[h].stage # "idle"
  <2>1. handler[h] \in [stage : {"load", "insert"}, token : Tokens \cup {Null}]
    BY <1>1 DEF TypeOK, Request, Idle
  <2> QED BY <1>1, <2>1 DEF LoadUser, Goes, Answer, Idle
<1>3. WaitsForOwn'
  BY <1>1, <1>2 DEF SessionInv, WaitsForOwn, Waits, Calls, Refreshes
<1>4. OneWaiter' /\ OneDevice'
  BY <1>1 DEF SessionInv, OneWaiter, OneDevice, Refreshes, Calls
<1>5. HeadlessWrittenOff'
  BY <1>1, <1>2 DEF SessionInv, HeadlessWrittenOff, Rotates, Refreshes
<1>6. \A j \in Tokens : Mentioned(j)' => Mentioned(j)
  BY <1>1, <1>2 DEF Mentioned
<1>7. MentionedAreIssued'
  BY <1>1, <1>2, <1>6 DEF SessionInv, MentionedAreIssued
<1>8. GrantedIsPrivate'
  BY <1>1, <1>2, <1>6 DEF SessionInv, GrantedIsPrivate, Live
<1>9. StoredTokenUsable'
  <2> SUFFICES ASSUME NEW d \in Devices, stored[d] # Null, stored[d] \notin written_off', ~Live(stored[d])
      PROVE  \E t \in Tabs : OnItsWay(t, d)'
    BY <1>1 DEF StoredTokenUsable, Live
  <2>1. PICK t \in Tabs : OnItsWay(t, d)
    BY <1>1 DEF SessionInv, StoredTokenUsable
  <2>2. inflightRefresh[t].handler = h => k = stored[d]
    BY <1>1, <2>1 DEF SessionInv, WaitsForOwn, OnItsWay
  <2> QED BY <1>1, <1>2, <2>1, <2>2 DEF OnItsWay
<1> QED BY <1>3, <1>4, <1>5, <1>7, <1>8, <1>9 DEF SessionInv

\* The insert: the new token is unknown to everybody but the tab that waits for it.
LEMMA InsertKeepsSession ==
  ASSUME RotationInv, TypeOK, SessionInv, NEW h \in Handlers, InsertToken(h)
  PROVE  SessionInv'
<1> USE Shapes DEF server, tabs
<1>1. /\ UNCHANGED <<stored, tabs, written_off>>
      /\ handler[h].stage = "insert"
  BY DEF InsertToken
<1>2. PICK n \in Tokens :
        /\ refresh_tokens[n] = Absent
        /\ refresh_tokens' = [refresh_tokens EXCEPT ![n] =
             [session |-> IF handler[h].token = Null THEN n
                          ELSE refresh_tokens[handler[h].token].session,
              revoked |-> FALSE]]
        /\ Answer(h, [stage |-> "granted", token |-> n])
  BY DEF InsertToken
<1>3. /\ \A g \in Handlers : g # h => handler'[g] = handler[g]
      /\ handler'[h].stage \in {"granted", "idle"}
      /\ handler'[h].stage = "granted" => handler'[h].token = n
      /\ (\E t \in Tabs : Waits(t, h)) => handler'[h].stage # "idle"
  BY <1>2 DEF Answer, Goes, Idle
<1>4. /\ \A j \in Tokens : j # n => refresh_tokens'[j] = refresh_tokens[j]
      /\ refresh_tokens'[n] # Absent /\ ~refresh_tokens'[n].revoked
  <2>1. DOMAIN refresh_tokens = Tokens
    BY DEF TypeOK
  <2> DEFINE new == [session |-> IF handler[h].token = Null THEN n
                          ELSE refresh_tokens[handler[h].token].session,
                     revoked |-> FALSE]
  <2>2. refresh_tokens'[n] = new /\ \A j \in Tokens : j # n => refresh_tokens'[j] = refresh_tokens[j]
    BY <1>2, <2>1
  <2>3. new.session \in Tokens
    <3>1. handler[h].token # Null =>
            handler[h].token \in Tokens /\ refresh_tokens[handler[h].token] # Absent
      BY <1>1 DEF RotationInv, RotationIsExclusive, Rotates
    <3> QED BY <3>1 DEF TypeOK
  <2>4. new # Absent
    <3>1. new \in [session : Tokens, revoked : BOOLEAN]
      BY <2>3
    <3> QED BY <3>1
  <2> QED BY <2>2, <2>4
<1>5. ~Mentioned(n) /\ \A g \in Handlers : ~(handler[g].stage = "granted" /\ handler[g].token = n)
  BY <1>2 DEF SessionInv, MentionedAreIssued
<1>6. WaitsForOwn'
  BY <1>1, <1>3 DEF SessionInv, WaitsForOwn, Waits, Calls, Refreshes
<1>7. OneWaiter' /\ OneDevice'
  BY <1>1 DEF SessionInv, OneWaiter, OneDevice, Refreshes, Calls
<1>8. HeadlessWrittenOff'
  BY <1>1, <1>3 DEF SessionInv, HeadlessWrittenOff, Rotates, Refreshes
<1>9. \A j \in Tokens : Mentioned(j)' => Mentioned(j)
  BY <1>1, <1>3 DEF Mentioned
<1>10. MentionedAreIssued'
  BY <1>3, <1>4, <1>9 DEF SessionInv, MentionedAreIssued
<1>11. GrantedIsPrivate'
  BY <1>1, <1>3, <1>4, <1>5, <1>9 DEF SessionInv, GrantedIsPrivate, Live
<1>12. StoredTokenUsable'
  <2> SUFFICES ASSUME NEW d \in Devices, stored[d] # Null, stored[d] \notin written_off, ~Live(stored[d])'
      PROVE  \E t \in Tabs : OnItsWay(t, d)'
    BY <1>1 DEF StoredTokenUsable
  <2>1. ~Live(stored[d])
    <3>1. stored[d] \in Tokens
      BY DEF TypeOK
    <3>2. stored[d] # n
      BY <1>5 DEF Mentioned
    <3> QED BY <1>1, <1>4, <3>1, <3>2 DEF Live
  <2>2. PICK t \in Tabs : OnItsWay(t, d)
    BY <2>1 DEF SessionInv, StoredTokenUsable
  <2> QED BY <1>1, <1>3, <2>2 DEF Waits, Refreshes, OnItsWay
<1> QED BY <1>6, <1>7, <1>8, <1>10, <1>11, <1>12 DEF SessionInv

-----------------------------------------------------------------------------
(* The tabs                                                                *)

\* A refresh starts, or is tried again, with the token in storage.
LEMMA StartKeepsSession ==
  ASSUME TypeOK, SessionInv, NEW t \in Tabs, StartRefresh(t) \/ RetryRefresh(t)
  PROVE  SessionInv'
<1> DEFINE k == stored[DeviceOf[t]]
<1> USE Shapes DEF server, tabs
<1>1. /\ k \in Tokens
      /\ UNCHANGED <<server, stored, accessToken, call, written_off>>
  BY DEF StartRefresh, RetryRefresh, Rotated, TypeOK
<1>2. PICK h \in Handlers, retry \in BOOLEAN :
        /\ handler[h].stage \in {"idle", "rejected"}
        /\ handler[h].stage = "rejected" => Refreshes(t, h)
        /\ handler[h].stage = "idle" => inflightRefresh[t] = Null
        /\ Goes(h, [stage |-> "claim", token |-> k])
        /\ inflightRefresh' = [inflightRefresh EXCEPT ![t] = [handler |-> h, stored |-> k, retry |-> retry]]
  <2>1. CASE StartRefresh(t)
    <3>1. PICK h \in Handlers :
            /\ handler[h] = Idle
            /\ Goes(h, [stage |-> "claim", token |-> k])
            /\ inflightRefresh' = [inflightRefresh EXCEPT ![t] =
                 [handler |-> h, stored |-> k, retry |-> FALSE]]
      BY <2>1 DEF StartRefresh
    <3>2. handler[h].stage = "idle" /\ inflightRefresh[t] = Null
      BY <2>1, <3>1 DEF StartRefresh, Idle
    <3> QED BY <3>1, <3>2
  <2>2. CASE RetryRefresh(t)
    BY <2>2 DEF RetryRefresh, Rejected, Refreshes
  <2> QED BY <2>1, <2>2
<1>3. /\ \A g \in Handlers : g # h => handler'[g] = handler[g]
      /\ handler'[h].stage = "claim" /\ handler'[h].token = k
  BY <1>2 DEF Goes
<1>4. /\ \A u \in Tabs : u # t => inflightRefresh'[u] = inflightRefresh[u]
      /\ inflightRefresh'[t] # Null /\ inflightRefresh'[t].handler = h /\ inflightRefresh'[t].stored = k
  BY <1>1, <1>2 DEF TypeOK
<1>5. \A u \in Tabs : u # t => ~Refreshes(u, h)
  BY <1>2 DEF SessionInv, OneWaiter, WaitsForOwn, Refreshes
<1>6. \A u \in Tabs : ~Calls(u, h)
  BY <1>2 DEF SessionInv, OneWaiter, WaitsForOwn, Refreshes, Calls
<1>7. WaitsForOwn'
  BY <1>1, <1>3, <1>4, <1>5, <1>6 DEF SessionInv, WaitsForOwn, Calls, Refreshes
<1>8. OneWaiter'
  BY <1>1, <1>4, <1>5, <1>6 DEF SessionInv, OneWaiter, Calls, Refreshes
<1>9. OneDevice'
  BY <1>1, <1>4 DEF SessionInv, OneDevice
<1>10. HeadlessWrittenOff'
  BY <1>1, <1>2, <1>3, <1>4 DEF SessionInv, HeadlessWrittenOff, Rotates, Refreshes
<1>11. \A j \in Tokens : Mentioned(j)' => Mentioned(j)
  BY <1>1, <1>3, <1>4 DEF Mentioned
<1>12. MentionedAreIssued'
  BY <1>1, <1>3, <1>11 DEF SessionInv, MentionedAreIssued
<1>13. GrantedIsPrivate'
  BY <1>1, <1>3, <1>11 DEF SessionInv, GrantedIsPrivate, Live
<1>14. StoredTokenUsable'
  <2> SUFFICES ASSUME NEW d \in Devices, stored[d] # Null, stored[d] \notin written_off, ~Live(stored[d])
      PROVE  \E u \in Tabs : OnItsWay(u, d)'
    BY <1>1 DEF StoredTokenUsable, Live
  <2>1. PICK u \in Tabs : OnItsWay(u, d)
    BY DEF SessionInv, StoredTokenUsable
  <2>2. u # t
    BY <1>2, <2>1 DEF Refreshes, OnItsWay
  <2> QED BY <1>1, <1>2, <1>3, <1>4, <2>1, <2>2 DEF OnItsWay
<1> QED BY <1>7, <1>8, <1>9, <1>10, <1>12, <1>13, <1>14 DEF SessionInv

\* A grant replaces what the device has stored by a token known to nobody else.
LEMMA ApplyKeepsSession ==
  ASSUME TypeOK, SessionInv, NEW t \in Tabs, Refreshed(t) \/ LoggedIn(t)
  PROVE  SessionInv'
<1> USE Shapes DEF server, tabs
<1>1. PICK h \in Handlers :
        /\ ApplySession(t, h)
        /\ Waits(t, h)
        /\ Refreshes(t, h) => inflightRefresh' = [inflightRefresh EXCEPT ![t] = Null] /\ UNCHANGED call
        /\ Calls(t, h) => call' = [call EXCEPT ![t] = Null] /\ UNCHANGED inflightRefresh
  <2>1. CASE Refreshed(t)
    BY <2>1 DEF Refreshed, Waits, Refreshes, Calls, SessionInv, OneWaiter
  <2>2. CASE LoggedIn(t)
    BY <2>2 DEF LoggedIn, Waits, Refreshes, Calls, SessionInv, OneWaiter
  <2> QED BY <2>1, <2>2
<1> DEFINE k == handler[h].token
<1>2. /\ k \in Tokens
      /\ handler[h].stage = "granted"
      /\ UNCHANGED <<server, written_off>>
      /\ stored'[DeviceOf[t]] = k
      /\ \A d \in Devices : d # DeviceOf[t] => stored'[d] = stored[d]
  BY <1>1 DEF ApplySession, TypeOK
<1>3. /\ \A g \in Handlers : g # h => handler'[g] = handler[g]
      /\ handler'[h].stage = "idle"
  BY <1>1 DEF ApplySession, Goes, Idle
<1>4. /\ \A u \in Tabs : u # t => inflightRefresh'[u] = inflightRefresh[u] /\ call'[u] = call[u]
      /\ inflightRefresh'[t] \in {Null, inflightRefresh[t]}
      /\ call'[t] \in {Null, call[t]}
      /\ ~Refreshes(t, h)' /\ ~Calls(t, h)'
  BY <1>1 DEF Waits, TypeOK, Refreshes, Calls, SessionInv, OneWaiter
<1>5. \A u \in Tabs : u # t => ~Waits(u, h)
  BY <1>1 DEF Waits, SessionInv, OneWaiter
<1>6. /\ Live(k) \/ k \in written_off
      /\ ~Mentioned(k)
      /\ \A g \in Handlers : handler[g].stage = "granted" /\ handler[g].token = k => g = h
      /\ refresh_tokens[k] # Absent
  BY <1>2 DEF SessionInv, GrantedIsPrivate, MentionedAreIssued
<1>7. WaitsForOwn'
  BY <1>3, <1>4, <1>5 DEF SessionInv, WaitsForOwn, Waits, Refreshes, Calls
<1>8. OneWaiter'
  BY <1>4 DEF SessionInv, OneWaiter, Refreshes, Calls
<1>9. OneDevice'
  BY <1>2, <1>4, <1>6 DEF SessionInv, OneDevice, Mentioned
<1>10. HeadlessWrittenOff'
  BY <1>1, <1>2, <1>3, <1>4 DEF SessionInv, HeadlessWrittenOff, Rotates, Refreshes, Calls, Waits
<1>11. \A j \in Tokens : Mentioned(j)' => Mentioned(j) \/ j = k
  BY <1>2, <1>3, <1>4 DEF Mentioned
<1>12. MentionedAreIssued'
  BY <1>2, <1>3, <1>6, <1>11 DEF SessionInv, MentionedAreIssued
<1>13. GrantedIsPrivate'
  BY <1>2, <1>3, <1>6, <1>11 DEF SessionInv, GrantedIsPrivate, Live
<1>14. StoredTokenUsable'
  <2> SUFFICES ASSUME NEW d \in Devices, stored'[d] # Null, stored'[d] \notin written_off, ~Live(stored'[d])
      PROVE  \E u \in Tabs : OnItsWay(u, d)'
    BY <1>2 DEF StoredTokenUsable, Live
  <2>1. d # DeviceOf[t] /\ stored'[d] = stored[d]
    BY <1>2, <1>6
  <2>2. PICK u \in Tabs : OnItsWay(u, d)
    BY <2>1 DEF SessionInv, StoredTokenUsable
  <2>3. u # t
    BY <2>1, <2>2 DEF OnItsWay
  <2> QED BY <1>3, <1>4, <1>5, <2>1, <2>2, <2>3 DEF Waits, Refreshes, OnItsWay
<1> QED BY <1>7, <1>8, <1>9, <1>10, <1>12, <1>13, <1>14 DEF SessionInv

\* A tab forgets its request: its own token and its access token may go, and a
\* rotation it leaves behind is written off.
LEMMA LeaveKeepsSession ==
  ASSUME TypeOK, SessionInv, NEW t \in Tabs,
         UNCHANGED server,
         \A d \in Devices : stored'[d] = stored[d] \/ (d = DeviceOf[t] /\ stored'[d] = Null),
         \A u \in Tabs : u # t => inflightRefresh'[u] = inflightRefresh[u] /\ call'[u] = call[u],
         inflightRefresh'[t] \in {Null, inflightRefresh[t]}, call'[t] \in {Null, call[t]},
         written_off \subseteq written_off',
         \A h \in Handlers :
           handler'[h] = handler[h] \/ (handler'[h] = Idle /\ ~(\E u \in Tabs : Waits(u, h))' /\ \A u \in Tabs : Waits(u, h) => u = t),
         inflightRefresh[t] # Null /\ inflightRefresh'[t] = Null /\ ~Rejected(t) =>
           \/ inflightRefresh[t].stored \in written_off'
           \/ handler'[inflightRefresh[t].handler] = Idle /\ handler[inflightRefresh[t].handler].stage = "claim"
  PROVE  SessionInv'
<1> USE Shapes DEF server
<1>1. WaitsForOwn'
  BY DEF SessionInv, WaitsForOwn, Waits, Refreshes, Calls, Idle
<1>2. OneWaiter'
  BY DEF SessionInv, OneWaiter, Refreshes, Calls
<1>3. OneDevice'
  BY DEF SessionInv, OneDevice
<1>4. HeadlessWrittenOff'
  BY DEF SessionInv, HeadlessWrittenOff, WaitsForOwn, Rotates, Refreshes, Rejected, Idle
<1>5. \A j \in Tokens : Mentioned(j)' => Mentioned(j)
  BY DEF Mentioned, Idle
<1>6. MentionedAreIssued'
  BY <1>5 DEF SessionInv, MentionedAreIssued, Idle
<1>7. GrantedIsPrivate'
  BY <1>5 DEF SessionInv, GrantedIsPrivate, Live, Idle
<1>8. StoredTokenUsable'
  <2> SUFFICES ASSUME NEW d \in Devices, stored[d] # Null, stored'[d] = stored[d],
                      stored[d] \notin written_off', ~Live(stored[d])
      PROVE  \E u \in Tabs : OnItsWay(u, d)'
    BY DEF StoredTokenUsable, Live
  <2>1. PICK u \in Tabs : OnItsWay(u, d)
    BY DEF SessionInv, StoredTokenUsable
  <2>2. inflightRefresh'[u] = inflightRefresh[u]
    BY <2>1 DEF Rejected, OnItsWay
  <2>3. handler'[inflightRefresh[u].handler] = handler[inflightRefresh[u].handler]
    BY <2>1, <2>2 DEF Waits, Refreshes, OnItsWay
  <2> QED BY <2>1, <2>2, <2>3 DEF OnItsWay
<1> QED BY <1>1, <1>2, <1>3, <1>4, <1>6, <1>7, <1>8 DEF SessionInv

\* A form is submitted: nobody waits for the handler that takes it.
LEMMA SendKeepsSession ==
  ASSUME TypeOK, SessionInv, NEW t \in Tabs, NEW kind, NEW q, Send(t, kind, q),
         q.stage \in {"load", "rejected", "revoke", "revoke_all"},
         q.stage = "load" => q.token = Null,
         q.stage = "revoke" => q.token \in Tokens /\ Mentioned(q.token),
         call[t] = Null, UNCHANGED <<server, stored, accessToken, inflightRefresh, written_off>>
  PROVE  SessionInv'
<1> USE Shapes DEF server
<1>1. PICK h \in Handlers :
        /\ handler[h] = Idle
        /\ Goes(h, q)
        /\ call' = [call EXCEPT ![t] = [kind |-> kind, handler |-> h]]
  BY DEF Send
<1>2. /\ \A g \in Handlers : g # h => handler'[g] = handler[g]
      /\ handler'[h] = q /\ handler[h].stage = "idle"
  BY <1>1 DEF Goes, Idle
<1>3. /\ \A u \in Tabs : u # t => call'[u] = call[u]
      /\ call'[t] # Null => call'[t].handler = h
  BY <1>1 DEF TypeOK
<1>4. \A u \in Tabs : ~Refreshes(u, h) /\ ~Calls(u, h)
  BY <1>2 DEF SessionInv, WaitsForOwn, Refreshes, Calls
<1>5. WaitsForOwn'
  BY <1>2, <1>3, <1>4 DEF SessionInv, WaitsForOwn, Refreshes, Calls
<1>6. OneWaiter'
  BY <1>3, <1>4 DEF SessionInv, OneWaiter, Refreshes, Calls
<1>7. OneDevice'
  BY DEF SessionInv, OneDevice
<1>8. HeadlessWrittenOff'
  BY <1>2 DEF SessionInv, HeadlessWrittenOff, Rotates, Refreshes
<1>9. \A j \in Tokens : Mentioned(j)' => Mentioned(j)
  BY <1>2 DEF Mentioned
<1>10. MentionedAreIssued'
  BY <1>2, <1>9 DEF SessionInv, MentionedAreIssued
<1>11. GrantedIsPrivate'
  BY <1>2, <1>9 DEF SessionInv, GrantedIsPrivate, Live
<1>12. StoredTokenUsable'
  BY <1>2 DEF SessionInv, StoredTokenUsable, Live, OnItsWay
<1> QED BY <1>5, <1>6, <1>7, <1>8, <1>10, <1>11, <1>12 DEF SessionInv

\* Tokens are revoked on purpose, or expire.
LEMMA RevokeKeepsSession ==
  ASSUME TypeOK, SessionInv, NEW S, Revokes(S), UNCHANGED <<stored, tabs>>,
         written_off \subseteq written_off',
         \A k \in Tokens : Live(k) /\ k \in S => k \in written_off',
         \A h \in Handlers :
           \/ handler'[h] = handler[h]
           \/ /\ handler[h].stage \in {"revoke", "revoke_all"}
              /\ handler'[h].stage \in {"done", "idle"}
              /\ (\E t \in Tabs : Waits(t, h)) => handler'[h].stage = "done"
  PROVE  SessionInv'
<1> USE Shapes DEF tabs
<1>1. WaitsForOwn'
  BY DEF SessionInv, WaitsForOwn, Waits, Refreshes, Calls
<1>2. OneWaiter' /\ OneDevice'
  BY DEF SessionInv, OneWaiter, OneDevice, Refreshes, Calls
<1>3. HeadlessWrittenOff'
  BY DEF SessionInv, HeadlessWrittenOff, Rotates, Refreshes
<1>4. \A j \in Tokens : Mentioned(j)' => Mentioned(j)
  BY DEF Mentioned
<1>5. MentionedAreIssued'
  BY <1>4 DEF SessionInv, MentionedAreIssued, Revokes
<1>6. GrantedIsPrivate'
  BY <1>4 DEF SessionInv, GrantedIsPrivate, Revokes
<1>7. StoredTokenUsable'
  <2> SUFFICES ASSUME NEW d \in Devices, stored[d] # Null,
                      stored[d] \notin written_off', ~Live(stored[d])'
      PROVE  \E u \in Tabs : OnItsWay(u, d)'
    BY DEF StoredTokenUsable
  <2>1. ~Live(stored[d])
    <3>1. stored[d] \in Tokens
      BY DEF TypeOK
    <3> QED BY <3>1 DEF Revokes
  <2>2. PICK u \in Tabs : OnItsWay(u, d)
    BY <2>1 DEF SessionInv, StoredTokenUsable
  <2> QED BY <2>2 DEF OnItsWay
<1> QED BY <1>1, <1>2, <1>3, <1>5, <1>6, <1>7 DEF SessionInv

-----------------------------------------------------------------------------
(* Every step                                                              *)

\* Steps of the worker.
LEMMA WorkerKeepsSession ==
  ASSUME RotationInv, SessionInv, NEW h \in Handlers, Worker(h)
  PROVE  SessionInv'
<1>0. TypeOK
  BY DEF RotationInv
<1>1. CASE RevokeToken(h) \/ RevokeAll(h)
  <2> DEFINE S == IF RevokeToken(h) THEN {handler[h].token} ELSE Tokens
  <2>1. refresh_tokens' = Revoked(S)
    BY <1>1 DEF RevokeToken, RevokeAll
  <2>2. Revokes(S)
    BY <1>0, <2>1, Shapes, RevokedRevokes
  <2>3. /\ written_off \subseteq written_off'
        /\ \A k \in Tokens : Live(k) /\ k \in S => k \in written_off'
    BY <1>1 DEF RevokeToken, RevokeAll
  <2>4. \A g \in Handlers :
           \/ handler'[g] = handler[g]
           \/ /\ handler[g].stage \in {"revoke", "revoke_all"}
              /\ handler'[g].stage \in {"done", "idle"}
              /\ (\E t \in Tabs : Waits(t, g)) => handler'[g].stage = "done"
    BY <1>0, <1>1, Shapes DEF RevokeToken, RevokeAll, Answer, Goes, Idle
  <2>5. UNCHANGED <<stored, tabs>>
    BY <1>1 DEF RevokeToken, RevokeAll
  <2> HIDE DEF S
  <2> QED BY <1>0, <2>2, <2>3, <2>4, <2>5, RevokeKeepsSession
<1> QED BY <1>0, <1>1, ClaimKeepsSession, LoadKeepsSession, InsertKeepsSession DEF Worker

\* Steps of a tab.
LEMMA ClientKeepsSession ==
  ASSUME TypeOK, SessionInv, NEW t \in Tabs, Client(t)
  PROVE  SessionInv'
<1> USE Shapes
<1>1. CASE RejectRefresh(t) \/ LoseRefresh(t)
  <2>0. PICK h \in Handlers : inflightRefresh[t] # Null /\ h = inflightRefresh[t].handler
    BY <1>1 DEF RejectRefresh, Rejected, LoseRefresh, GiveUp
  <2>1. /\ inflightRefresh[t] # Null /\ inflightRefresh' = [inflightRefresh EXCEPT ![t] = Null]
        /\ UNCHANGED <<server, call>>
        /\ written_off \subseteq written_off'
    BY <1>1 DEF LoseRefresh, GiveUp, RejectRefresh, Rejected
  <2>2. \A d \in Devices : stored'[d] = stored[d] \/ (d = DeviceOf[t] /\ stored'[d] = Null)
    BY <1>1 DEF LoseRefresh, RejectRefresh, ClearSession, TypeOK
  <2>3. \A g \in Handlers : handler'[g] = handler[g] \/ (handler'[g] = Idle /\ g = h)
    BY <1>1, <2>0 DEF LoseRefresh, GiveUp, RejectRefresh, Goes
  <2>4. \/ inflightRefresh[t].stored \in written_off'
        \/ Rejected(t)
        \/ handler'[h] = Idle /\ handler[h].stage = "claim"
    BY <1>1, <2>0, <2>1 DEF LoseRefresh, RejectRefresh, GiveUp, Goes, Rejected, SessionInv, WaitsForOwn
  <2>5. /\ \A u \in Tabs : u # t => inflightRefresh'[u] = inflightRefresh[u] /\ call'[u] = call[u]
        /\ inflightRefresh'[t] = Null /\ call'[t] = call[t]
    BY <2>1 DEF TypeOK
  <2>6. \A u \in Tabs : Waits(u, h) => u = t
    BY <2>0 DEF SessionInv, OneWaiter, Waits, Refreshes
  <2>7. ~(\E u \in Tabs : Waits(u, h))'
    BY <2>0, <2>5, <2>6 DEF SessionInv, OneWaiter, Waits, Refreshes, Calls
  <2> QED BY <2>0, <2>1, <2>2, <2>3, <2>4, <2>5, <2>6, <2>7, LeaveKeepsSession
<1>2. CASE EndSession(t) \/ FailCall(t)
  <2>0. PICK h \in Handlers : call[t] # Null /\ h = call[t].handler
    BY <1>2 DEF EndSession, FailCall
  <2>1. /\ call[t] # Null /\ call' = [call EXCEPT ![t] = Null]
        /\ UNCHANGED <<server, inflightRefresh, written_off>>
    BY <1>2 DEF EndSession, FailCall
  <2>2. \A d \in Devices : stored'[d] = stored[d] \/ (d = DeviceOf[t] /\ stored'[d] = Null)
    BY <1>2 DEF EndSession, FailCall, ClearSession, TypeOK
  <2>3. \A g \in Handlers : handler'[g] = handler[g] \/ (handler'[g] = Idle /\ g = h)
    BY <1>2, <2>0 DEF EndSession, FailCall, Goes
  <2>4. /\ \A u \in Tabs : u # t => inflightRefresh'[u] = inflightRefresh[u] /\ call'[u] = call[u]
        /\ inflightRefresh'[t] = inflightRefresh[t] /\ call'[t] = Null
    BY <2>1 DEF TypeOK
  <2>5. \A u \in Tabs : Waits(u, h) => u = t
    BY <2>0 DEF SessionInv, OneWaiter, Waits, Calls
  <2>6. ~(\E u \in Tabs : Waits(u, h))'
    BY <2>0, <2>4, <2>5 DEF SessionInv, OneWaiter, Waits, Refreshes, Calls
  <2> QED BY <2>0, <2>1, <2>2, <2>3, <2>4, <2>5, <2>6, LeaveKeepsSession
<1>3. CASE Reload(t)
  <2>1. /\ inflightRefresh' = [inflightRefresh EXCEPT ![t] = Null] /\ call' = [call EXCEPT ![t] = Null]
        /\ UNCHANGED <<server, stored>>
        /\ written_off \subseteq written_off'
        /\ inflightRefresh[t] # Null /\ ~Rejected(t) => inflightRefresh[t].stored \in written_off'
    BY <1>3 DEF Reload
  <2>2. \A g \in Handlers : handler'[g] = handler[g] \/ (handler'[g] = Idle /\ Waits(t, g))
    BY <1>3 DEF Reload
  <2>3. /\ \A u \in Tabs : u # t => inflightRefresh'[u] = inflightRefresh[u] /\ call'[u] = call[u]
        /\ inflightRefresh'[t] = Null /\ call'[t] = Null
    BY <2>1 DEF TypeOK
  <2>4. \A g \in Handlers : Waits(t, g) => \A u \in Tabs : Waits(u, g) => u = t
    BY DEF SessionInv, OneWaiter, Waits
  <2>5. \A g \in Handlers : Waits(t, g) => ~(\E u \in Tabs : Waits(u, g))'
    BY <2>3, <2>4 DEF Waits, Refreshes, Calls
  <2> QED BY <2>1, <2>2, <2>3, <2>4, <2>5, LeaveKeepsSession
<1>4. CASE AccessExpires(t)
  BY <1>4, LeaveKeepsSession DEF AccessExpires
<1>5. CASE Login(t)
  BY <1>5, SendKeepsSession DEF Login
<1>6. CASE ChangePassword(t)
  BY <1>6, SendKeepsSession DEF ChangePassword
<1>7. CASE Logout(t)
  <2>1. CASE stored[DeviceOf[t]] = Null
    <3>1. \A d \in Devices : stored'[d] = stored[d] \/ (d = DeviceOf[t] /\ stored'[d] = Null)
      BY <1>7, <2>1 DEF Logout, ClearSession, TypeOK
    <3> QED BY <1>7, <2>1, <3>1, LeaveKeepsSession DEF Logout
  <2>2. CASE stored[DeviceOf[t]] # Null
    <3> DEFINE q == IF accessToken[t] = "valid" THEN [stage |-> "revoke", token |-> stored[DeviceOf[t]]]
                    ELSE [stage |-> "rejected"]
    <3>1. Send(t, "logout", q) /\ call[t] = Null
      BY <1>7, <2>2 DEF Logout
    <3>2. UNCHANGED <<server, stored, accessToken, inflightRefresh, written_off>>
      BY <1>7, <2>2 DEF Logout
    <3>3. /\ q.stage \in {"rejected", "revoke"}
          /\ q.stage = "revoke" => q.token \in Tokens /\ Mentioned(q.token)
      BY <2>2 DEF Mentioned, TypeOK
    <3> HIDE DEF q
    <3> QED BY <3>1, <3>2, <3>3, SendKeepsSession
  <2> QED BY <2>1, <2>2
<1> QED
  BY <1>1, <1>2, <1>3, <1>4, <1>5, <1>6, <1>7, StartKeepsSession, ApplyKeepsSession DEF Client

\* Every step of the sessions.
LEMMA SessionStep ==
  ASSUME RotationInv, SessionInv, [Next]_vars
  PROVE  SessionInv'
<1>0. TypeOK
  BY DEF RotationInv
<1>1. CASE UpdateUser
  <2>1. PICK S : Revokes(S) /\ (S = {} \/ written_off' = written_off \cup {k \in Tokens : Live(k)})
    BY <1>0, <1>1, Shapes, RevokedRevokes, UnchangedRevokes DEF UpdateUser
  <2> QED BY <1>0, <1>1, <2>1, RevokeKeepsSession DEF UpdateUser
<1>2. ASSUME NEW k \in Tokens, TokenExpires(k) PROVE SessionInv'
  BY <1>0, <1>2, Shapes, RevokedRevokes, RevokeKeepsSession DEF TokenExpires
<1>3. CASE UNCHANGED vars
  BY <1>0, <1>3, Shapes, UnchangedRevokes, RevokeKeepsSession DEF vars, server
<1> QED
  BY <1>0, <1>1, <1>2, <1>3, WorkerKeepsSession, ClientKeepsSession DEF Next

\* The token a device keeps is accepted by the worker, or its successor is on its way to
\* one of the device's tabs, unless the session was ended on purpose or the answer of
\* its rotation was lost: for any number of devices, tabs, tokens and requests.
THEOREM StoredTokensUsable == Spec => []StoredTokenUsable
<1>1. Init => IInv
  <2> SUFFICES ASSUME Init PROVE SessionInv
    BY RotationInit DEF IInv, SessionInv
  <2> QED
    BY DEF Init, SessionInv, WaitsForOwn, OneWaiter, HeadlessWrittenOff, MentionedAreIssued,
       Mentioned, GrantedIsPrivate, OneDevice, StoredTokenUsable, Rotates, Refreshes, Calls, Idle
<1>2. IInv /\ [Next]_vars => IInv'
  BY RotationStep, SessionStep DEF IInv, SessionInv
<1>3. IInv => StoredTokenUsable
  BY DEF IInv
<1> QED
  BY <1>1, <1>2, <1>3, PTL DEF Spec
=============================================================================
