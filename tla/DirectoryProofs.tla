--------------------------- MODULE DirectoryProofs ---------------------------
(***************************************************************************)
(* AdminStays, LinksResolve and KeptWayAdmits for any accounts, teams,     *)
(* mailboxes and requests.  The invariant says that what a request has     *)
(* found is still there, and that there is an administrator from the first *)
(* account on; KeptInv says what is left of the ways to a mailbox at each  *)
(* query of the check.                                                     *)
(***************************************************************************)
EXTENDS Directory, TLAPS

LEMMA InitInv == Init => DirectoryInv
<1> SUFFICES ASSUME Init PROVE DirectoryInv
  OBVIOUS
<1>1. Rows(users) = {}
  BY DEF Init, Rows
<1>2. \A r \in Requests : req[r] = Idle
  BY DEF Init
<1>3. req \in [Requests -> Request]
  <2>1. Idle \in Request
    BY DEF Request
  <2> QED
    BY <2>1 DEF Init
<1>4. TypeOK
  BY <1>3 DEF Init, TypeOK
<1>5. CarriedExists
  BY <1>2 DEF Init, CarriedExists, Idle
<1>6. AdminKept /\ LinksResolve
  BY <1>1 DEF Init, AdminKept, LinksResolve
<1> QED
  BY <1>4, <1>5, <1>6 DEF DirectoryInv

LEMMA GoesTyped ==
  ASSUME TypeOK, NEW r \in Requests, NEW state \in Request, Goes(r, state)
  PROVE  req' \in [Requests -> Request]
BY DEF TypeOK, Goes

LEMMA IdleTyped == Idle \in Request
BY DEF Request

\* Another request, or the request itself in its new state.
LEMMA GoesOne ==
  ASSUME TypeOK, NEW r \in Requests, NEW state, Goes(r, state), NEW s \in Requests
  PROVE  req'[s] = IF s = r THEN state ELSE req[s]
BY DEF TypeOK, Goes

-----------------------------------------------------------------------------
(* Steps that leave the tables, the flag and the ghost alone                *)

\* The step moves one request to a state that the tables bear out.
LEMMA RequestStep ==
  ASSUME DirectoryInv, NEW r \in Requests, NEW state \in Request, Goes(r, state),
         UNCHANGED <<tables, is_setup_complete, admin_tokens, overruled>>,
         state.stage \in {"complete", "insert_user"} => Rows(users) # {},
         state.stage = "update_user" =>
           users[state.target] # Absent /\ Allowed(state.actor, state.target, state.patch),
         state.stage = "add_member" => users[state.user] # Absent,
         state.stage = "link_team" => mailboxes[state.mailbox] # Absent
  PROVE  DirectoryInv'
<1>1. TypeOK'
  BY GoesTyped DEF DirectoryInv, TypeOK, tables, links
<1>2. LinksResolve'
  BY DEF DirectoryInv, LinksResolve, tables, links
<1>3. AdminKept'
  BY DEF DirectoryInv, AdminKept, Rows, IsAdmin, tables
<1>4. CarriedExists'
  <2>1. \A u \in admin_tokens' : users'[u] # Absent
    BY DEF DirectoryInv, CarriedExists, tables
  <2>2. Rows(users)' = Rows(users)
    BY DEF Rows, tables
  <2>3. ASSUME NEW s \in Requests
        PROVE  LET q == req'[s] IN
               /\ q.stage \in {"complete", "insert_user"} => Rows(users) # {}
               /\ q.stage = "update_user" => users[q.target] # Absent /\ Allowed(q.actor, q.target, q.patch)
               /\ q.stage = "add_member" => users[q.user] # Absent
               /\ q.stage = "link_team" => mailboxes[q.mailbox] # Absent
    <3>1. CASE s = r
      BY <3>1, GoesOne DEF DirectoryInv
    <3>2. CASE s # r
      BY <3>2, GoesOne DEF DirectoryInv, CarriedExists
    <3> QED
      BY <3>1, <3>2
  <2> QED
    BY <2>1, <2>2, <2>3 DEF CarriedExists, tables
<1> QED
  BY <1>1, <1>2, <1>3, <1>4 DEF DirectoryInv

\* What requests carry survives when tables only grow and teams change at will.
LEMMA CarriedStep ==
  ASSUME DirectoryInv, UNCHANGED <<req, admin_tokens>>,
         \A u \in Users : users[u] # Absent => users'[u] # Absent,
         \A m \in Mailboxes : mailboxes[m] # Absent => mailboxes'[m] # Absent,
         DOMAIN users' = Users
  PROVE  CarriedExists'
<1>1. Rows(users) # {} => Rows(users)' # {}
  BY DEF DirectoryInv, TypeOK, Rows
<1>2. \A u \in admin_tokens' : users'[u] # Absent
  BY DEF DirectoryInv, TypeOK, CarriedExists
<1>3. ASSUME NEW r \in Requests
      PROVE  LET q == req[r] IN
             /\ q.stage \in {"complete", "insert_user"} => Rows(users)' # {}
             /\ q.stage = "update_user" => users'[q.target] # Absent /\ Allowed(q.actor, q.target, q.patch)
             /\ q.stage = "add_member" => users'[q.user] # Absent
             /\ q.stage = "link_team" => mailboxes'[q.mailbox] # Absent
  <2>1. req[r].stage = "update_user" => req[r].target \in Users
    BY DEF DirectoryInv, TypeOK, Request, Idle
  <2>2. req[r].stage = "add_member" => req[r].user \in Users
    BY DEF DirectoryInv, TypeOK, Request, Idle
  <2>3. req[r].stage = "link_team" => req[r].mailbox \in Mailboxes
    BY DEF DirectoryInv, TypeOK, Request, Idle
  <2> QED
    BY <1>1, <2>1, <2>2, <2>3 DEF DirectoryInv, CarriedExists
<1> QED
  BY <1>2, <1>3 DEF CarriedExists, Allowed

\* The same, for a step that ends a request.
LEMMA CarriedLast ==
  ASSUME DirectoryInv, NEW r \in Requests, Goes(r, Idle), UNCHANGED admin_tokens,
         \A u \in Users : users[u] # Absent => users'[u] # Absent,
         \A m \in Mailboxes : mailboxes[m] # Absent => mailboxes'[m] # Absent,
         DOMAIN users' = Users
  PROVE  CarriedExists'
<1>1. Rows(users) # {} => Rows(users)' # {}
  BY DEF DirectoryInv, TypeOK, Rows
<1>2. \A u \in admin_tokens' : users'[u] # Absent
  BY DEF DirectoryInv, TypeOK, CarriedExists
<1>3. ASSUME NEW s \in Requests
      PROVE  LET q == req'[s] IN
             /\ q.stage \in {"complete", "insert_user"} => Rows(users)' # {}
             /\ q.stage = "update_user" => users'[q.target] # Absent /\ Allowed(q.actor, q.target, q.patch)
             /\ q.stage = "add_member" => users'[q.user] # Absent
             /\ q.stage = "link_team" => mailboxes'[q.mailbox] # Absent
  <2>1. CASE s = r
    <3>1. req'[s] = Idle
      BY <2>1, GoesOne DEF DirectoryInv
    <3> QED
      BY <3>1 DEF Idle
  <2>2. CASE s # r
    <3>1. req'[s] = req[s]
      BY <2>2, GoesOne DEF DirectoryInv
    <3>2. /\ req[s].stage = "update_user" => req[s].target \in Users
          /\ req[s].stage = "add_member" => req[s].user \in Users
          /\ req[s].stage = "link_team" => req[s].mailbox \in Mailboxes
      BY DEF DirectoryInv, TypeOK, Request, Idle
    <3> QED
      BY <3>1, <3>2, <1>1 DEF DirectoryInv, CarriedExists
  <2> QED
    BY <2>1, <2>2
<1> QED
  BY <1>2, <1>3 DEF CarriedExists, Allowed

\* Steps on teams, domains, mailboxes and links, without a request.
LEMMA LinkStep ==
  ASSUME DirectoryInv, TypeOK', LinksResolve',
         UNCHANGED <<users, is_setup_complete, admin_tokens, req, overruled>>,
         \A m \in Mailboxes : mailboxes[m] # Absent => mailboxes'[m] # Absent
  PROVE  DirectoryInv'
<1>1. CarriedExists'
  BY CarriedStep DEF DirectoryInv, TypeOK
<1>2. AdminKept'
  BY DEF DirectoryInv, AdminKept, Rows, IsAdmin
<1> QED
  BY <1>1, <1>2 DEF DirectoryInv

\* The same, with the last step of a request.
LEMMA LastLinkStep ==
  ASSUME DirectoryInv, NEW r \in Requests, Goes(r, Idle), TypeOK', LinksResolve',
         UNCHANGED <<users, mailboxes, is_setup_complete, admin_tokens, overruled>>
  PROVE  DirectoryInv'
<1>1. CarriedExists'
  BY CarriedLast DEF DirectoryInv, TypeOK
<1>2. AdminKept'
  BY DEF DirectoryInv, AdminKept, Rows, IsAdmin
<1> QED
  BY <1>1, <1>2 DEF DirectoryInv

-----------------------------------------------------------------------------
(* Steps on accounts                                                       *)

\* An insert changes nothing or adds a row.
LEMMA InsertAdds ==
  ASSUME TypeOK, NEW name \in Usernames, NEW role \in Role, InsertUser(name, role)
  PROVE  /\ users' \in [Users -> Account \cup {Absent}]
         /\ \A u \in Users : users[u] # Absent => users'[u] = users[u]
         /\ ~UsernameTaken(name) =>
              \E u \in Users : users'[u] = [username |-> name, role |-> role, is_active |-> TRUE]
<1>1. CASE UsernameTaken(name)
  BY <1>1 DEF InsertUser, TypeOK
<1>2. CASE ~UsernameTaken(name)
  <2> DEFINE row == [username |-> name, role |-> role, is_active |-> TRUE]
  <2>1. PICK u \in Users \ Rows(users) : users' = [users EXCEPT ![u] = row]
    BY <1>2 DEF InsertUser
  <2>2. row \in Account
    BY DEF Account
  <2>3. users[u] = Absent
    BY <2>1 DEF Rows, TypeOK
  <2> QED
    BY <1>2, <2>1, <2>2, <2>3 DEF TypeOK
<1> QED
  BY <1>1, <1>2

LEMMA RowIsNotAbsent ==
  ASSUME NEW name \in Usernames, NEW role \in Role
  PROVE  [username |-> name, role |-> role, is_active |-> TRUE] # Absent
<1>1. [username |-> name, role |-> role, is_active |-> TRUE] \in Account
  BY DEF Account
<1> QED
  BY <1>1, DirectoryAssumption

\* The step of setup that inserts the administrator, and the one of createUser.
LEMMA InsertStep ==
  ASSUME DirectoryInv, NEW r \in Requests, NEW name \in Usernames, NEW role \in Role,
         InsertUser(name, role), NEW state \in {Idle, [stage |-> "complete"]}, Goes(r, state),
         UNCHANGED <<teams, domains, mailboxes, links, is_setup_complete, admin_tokens, overruled>>,
         role = "admin" \/ Rows(users) # {},
         state # Idle => ~UsernameTaken(name)
  PROVE  DirectoryInv'
<1>1. state \in Request
  BY DEF Request
<1>2. TypeOK'
  BY <1>1, GoesTyped, InsertAdds DEF DirectoryInv, TypeOK, links
<1>3. \A u \in Users : users[u] # Absent => users'[u] = users[u]
  BY InsertAdds DEF DirectoryInv
<1>4. LinksResolve'
  BY <1>3 DEF DirectoryInv, LinksResolve, TypeOK, links
<1>5. Rows(users) # {} => Rows(users)' # {}
  BY <1>2, <1>3 DEF DirectoryInv, TypeOK, Rows
<1>6. ~UsernameTaken(name) => Rows(users)' # {}
  BY <1>2, InsertAdds, RowIsNotAbsent DEF DirectoryInv, TypeOK, Rows
<1>7. CarriedExists'
  <2>1. \A u \in admin_tokens' : users'[u] # Absent
    BY <1>3 DEF DirectoryInv, TypeOK, CarriedExists
  <2>2. ASSUME NEW s \in Requests
        PROVE  LET q == req'[s] IN
               /\ q.stage \in {"complete", "insert_user"} => Rows(users)' # {}
               /\ q.stage = "update_user" => users'[q.target] # Absent /\ Allowed(q.actor, q.target, q.patch)
               /\ q.stage = "add_member" => users'[q.user] # Absent
               /\ q.stage = "link_team" => mailboxes[q.mailbox] # Absent
    <3>1. CASE s = r
      <4>1. req'[s] = state
        BY <3>1, GoesOne DEF DirectoryInv
      <4> QED
        BY <4>1, <1>6 DEF Idle
    <3>2. CASE s # r
      <4>1. req'[s] = req[s]
        BY <3>2, GoesOne DEF DirectoryInv
      <4>2. /\ req[s].stage = "update_user" => req[s].target \in Users
            /\ req[s].stage = "add_member" => req[s].user \in Users
        BY DEF DirectoryInv, TypeOK, Request, Idle
      <4> QED
        BY <4>1, <4>2, <1>3, <1>5 DEF DirectoryInv, CarriedExists
    <3> QED
      BY <3>1, <3>2
  <2> QED
    BY <2>1, <2>2 DEF CarriedExists, Allowed
<1>8. AdminKept'
  <2>1. is_setup_complete' => Rows(users)' # {}
    BY <1>5 DEF DirectoryInv, AdminKept
  <2>2. ASSUME Rows(users)' # {}, ~overruled' PROVE (\E u \in Users : IsAdmin(u))'
    <3>1. CASE Rows(users) # {}
      BY <2>2, <3>1, <1>3 DEF DirectoryInv, AdminKept, IsAdmin
    <3>2. CASE Rows(users) = {} /\ ~UsernameTaken(name)
      <4>1. PICK u \in Users : users'[u] = [username |-> name, role |-> role, is_active |-> TRUE]
        BY <3>2, InsertAdds DEF DirectoryInv
      <4> QED
        BY <3>2, <4>1, RowIsNotAbsent DEF IsAdmin
    <3>3. CASE Rows(users) = {} /\ UsernameTaken(name)
      BY <3>3 DEF UsernameTaken
    <3> QED
      BY <3>1, <3>2, <3>3
  <2> QED
    BY <2>1, <2>2 DEF AdminKept
<1> QED
  BY <1>2, <1>4, <1>7, <1>8 DEF DirectoryInv

LEMMA UpdateUserStep ==
  ASSUME DirectoryInv, NEW r \in Requests, UpdateUser(r)
  PROVE  DirectoryInv'
<1> DEFINE q == req[r]
           row == Patched(users[q.target], q.patch)
<1>1. q.actor \in Users /\ q.target \in Users /\ q.patch \in Patch
  BY DEF DirectoryInv, TypeOK, Request, UpdateUser, Idle
<1>2. users[q.target] \in Account /\ Allowed(q.actor, q.target, q.patch)
  BY <1>1 DEF DirectoryInv, TypeOK, CarriedExists, UpdateUser
<1>3. row \in Account /\ row # Absent
  BY <1>1, <1>2, DirectoryAssumption DEF Patched, Account, Patch
<1>4. users' = [users EXCEPT ![q.target] = row] /\ UNCHANGED <<teams, domains, mailboxes, links>>
  BY DEF UpdateUser
<1>5. Goes(r, Idle) /\ UNCHANGED <<is_setup_complete, admin_tokens>>
      /\ overruled' = (overruled \/ (~IsAdmin(q.actor) /\ (row.role # "admin" \/ ~row.is_active)))
  BY DEF UpdateUser
<1>6. \A u \in Users : users[u] # Absent <=> users'[u] # Absent
  BY <1>1, <1>2, <1>3, <1>4, DirectoryAssumption DEF DirectoryInv, TypeOK
<1>7. TypeOK'
  <2>1. req' \in [Requests -> Request]
    BY <1>5, GoesTyped, IdleTyped DEF DirectoryInv
  <2> QED
    BY <1>1, <1>3, <1>4, <1>5, <2>1 DEF DirectoryInv, TypeOK, links
<1>8. LinksResolve'
  BY <1>4, <1>6 DEF DirectoryInv, LinksResolve, TypeOK, links
<1>9. Rows(users)' = Rows(users)
  BY <1>6, <1>7 DEF DirectoryInv, TypeOK, Rows
<1>10. CarriedExists'
  BY <1>4, <1>5, <1>6, CarriedLast DEF DirectoryInv, TypeOK
<1>11. AdminKept'
  <2>1. is_setup_complete' => Rows(users)' # {}
    BY <1>5, <1>9 DEF DirectoryInv, AdminKept
  <2>2. ASSUME ~overruled' PROVE \E u \in Users : IsAdmin(u)'
    <3>1. CASE row.role = "admin" /\ row.is_active
      <4>1. users'[q.target] = row
        BY <1>1, <1>4 DEF DirectoryInv, TypeOK
      <4> QED
        BY <1>1, <1>3, <3>1, <4>1 DEF IsAdmin
    <3>2. CASE ~(row.role = "admin" /\ row.is_active)
      <4>1. IsAdmin(q.actor)
        BY <1>5, <2>2, <3>2
      <4>2. q.actor # q.target
        BY <1>1, <1>2, <3>2, <4>1 DEF Allowed, IsAdmin, Patched, Patch, Account, Role
      <4>3. users'[q.actor] = users[q.actor]
        BY <1>1, <1>4, <4>2 DEF DirectoryInv, TypeOK
      <4> QED
        BY <1>1, <4>1, <4>3 DEF IsAdmin
    <3> QED
      BY <3>1, <3>2
  <2> QED
    BY <2>1, <2>2 DEF AdminKept
<1> QED
  BY <1>7, <1>8, <1>10, <1>11 DEF DirectoryInv

-----------------------------------------------------------------------------
LEMMA SetupStep ==
  ASSUME DirectoryInv, NEW r \in Requests,
         BeginSetup(r) \/ InsertAdmin(r) \/ CompleteSetup(r) \/ CrashSetup(r)
  PROVE  DirectoryInv'
<1>1. CASE BeginSetup(r)
  <2>1. PICK name \in Usernames : Goes(r, [stage |-> "insert_admin", username |-> name])
    BY <1>1 DEF BeginSetup
  <2>2. [stage |-> "insert_admin", username |-> name] \in Request
    BY DEF Request
  <2> QED
    BY <1>1, <2>1, <2>2, RequestStep DEF BeginSetup
<1>2. CASE InsertAdmin(r)
  <2>1. req[r].username \in Usernames
    BY <1>2 DEF InsertAdmin, DirectoryInv, TypeOK, Request, Idle
  <2>2. CASE UsernameTaken(req[r].username)
    <3>1. Goes(r, Idle)
      BY <1>2, <2>2 DEF InsertAdmin
    <3> QED
      BY <1>2, <2>1, <3>1, InsertStep DEF InsertAdmin, Role
  <2>3. CASE ~UsernameTaken(req[r].username)
    <3>1. Goes(r, [stage |-> "complete"])
      BY <1>2, <2>3 DEF InsertAdmin
    <3> QED
      BY <1>2, <2>1, <2>3, <3>1, InsertStep DEF InsertAdmin, Role
  <2> QED
    BY <2>2, <2>3
<1>3. CASE CompleteSetup(r)
  <2>1. Rows(users) # {}
    BY <1>3 DEF CompleteSetup, DirectoryInv, CarriedExists
  <2>2. TypeOK'
    BY <1>3, GoesTyped, IdleTyped DEF CompleteSetup, DirectoryInv, TypeOK, tables, links
  <2>3. LinksResolve'
    BY <1>3 DEF CompleteSetup, DirectoryInv, LinksResolve, tables, links
  <2>4. AdminKept'
    BY <1>3, <2>1 DEF CompleteSetup, DirectoryInv, AdminKept, Rows, IsAdmin, tables
  <2>5. CarriedExists'
    BY <1>3, CarriedLast DEF CompleteSetup, DirectoryInv, TypeOK, tables
  <2> QED
    BY <2>2, <2>3, <2>4, <2>5 DEF DirectoryInv
<1>4. CASE CrashSetup(r)
  BY <1>4, RequestStep, IdleTyped DEF CrashSetup, Idle
<1> QED
  BY <1>1, <1>2, <1>3, <1>4

LEMMA CreateUserStep ==
  ASSUME DirectoryInv, NEW r \in Requests, BeginCreateUser(r) \/ CreateUser(r)
  PROVE  DirectoryInv'
<1>1. CASE BeginCreateUser(r)
  <2>1. PICK name \in Usernames, role \in Role :
          Goes(r, [stage |-> "insert_user", username |-> name, role |-> role])
    BY <1>1 DEF BeginCreateUser
  <2>2. [stage |-> "insert_user", username |-> name, role |-> role] \in Request
    BY DEF Request
  <2>3. Rows(users) # {}
    BY <1>1 DEF BeginCreateUser, SomeAdmin, DirectoryInv, CarriedExists, TypeOK, Rows
  <2> QED
    BY <1>1, <2>1, <2>2, <2>3, RequestStep DEF BeginCreateUser
<1>2. CASE CreateUser(r)
  <2>1. req[r].username \in Usernames /\ req[r].role \in Role
    BY <1>2 DEF CreateUser, DirectoryInv, TypeOK, Request, Idle
  <2>2. Rows(users) # {}
    BY <1>2 DEF CreateUser, DirectoryInv, CarriedExists
  <2> QED
    BY <1>2, <2>1, <2>2, InsertStep DEF CreateUser
<1> QED
  BY <1>1, <1>2

LEMMA BeginUpdateUserStep ==
  ASSUME DirectoryInv, NEW r \in Requests, BeginUpdateUser(r)
  PROVE  DirectoryInv'
<1>1. PICK actor \in Users, target \in Users, patch \in Patches :
        /\ users[target] # Absent /\ Allowed(actor, target, patch)
        /\ Goes(r, [stage |-> "update_user", actor |-> actor, target |-> target, patch |-> patch])
  BY DEF BeginUpdateUser
<1>2. [stage |-> "update_user", actor |-> actor, target |-> target, patch |-> patch] \in Request
  BY DirectoryAssumption DEF Request
<1> QED
  BY <1>1, <1>2, RequestStep DEF BeginUpdateUser

LEMMA FindStep ==
  ASSUME DirectoryInv, NEW r \in Requests, FindMember(r) \/ FindTeam(r)
  PROVE  DirectoryInv'
<1>1. CASE FindMember(r)
  <2>1. PICK t \in Rows(teams), u \in Rows(users) :
          Goes(r, [stage |-> "add_member", team |-> t, user |-> u])
    BY <1>1 DEF FindMember
  <2>2. [stage |-> "add_member", team |-> t, user |-> u] \in Request /\ users[u] # Absent
    BY DEF Request, Rows, DirectoryInv, TypeOK
  <2> QED
    BY <1>1, <2>1, <2>2, RequestStep DEF FindMember
<1>2. CASE FindTeam(r)
  <2>1. PICK m \in Rows(mailboxes), t \in Rows(teams) :
          Goes(r, [stage |-> "link_team", mailbox |-> m, team |-> t])
    BY <1>2 DEF FindTeam
  <2>2. [stage |-> "link_team", mailbox |-> m, team |-> t] \in Request /\ mailboxes[m] # Absent
    BY DEF Request, Rows, DirectoryInv, TypeOK
  <2> QED
    BY <1>2, <2>1, <2>2, RequestStep DEF FindTeam
<1> QED
  BY <1>1, <1>2

LEMMA AddStep ==
  ASSUME DirectoryInv, NEW r \in Requests, AddTeamMember(r) \/ LinkTeam(r)
  PROVE  DirectoryInv'
<1>1. CASE AddTeamMember(r)
  <2>1. req[r].team \in Teams /\ req[r].user \in Users /\ users[req[r].user] # Absent
    BY <1>1 DEF AddTeamMember, DirectoryInv, TypeOK, CarriedExists, Request, Idle
  <2>2. req' \in [Requests -> Request]
    BY <1>1, GoesTyped, IdleTyped DEF AddTeamMember, DirectoryInv
  <2>3. TypeOK' /\ LinksResolve'
    BY <1>1, <2>1, <2>2 DEF AddTeamMember, DirectoryInv, TypeOK, LinksResolve
  <2> QED
    BY <1>1, <2>3, LastLinkStep DEF AddTeamMember
<1>2. CASE LinkTeam(r)
  <2>1. req[r].team \in Teams /\ req[r].mailbox \in Mailboxes /\ mailboxes[req[r].mailbox] # Absent
    BY <1>2 DEF LinkTeam, DirectoryInv, TypeOK, CarriedExists, Request, Idle
  <2>2. req' \in [Requests -> Request]
    BY <1>2, GoesTyped, IdleTyped DEF LinkTeam, DirectoryInv
  <2>3. TypeOK' /\ LinksResolve'
    BY <1>2, <2>1, <2>2 DEF LinkTeam, DirectoryInv, TypeOK, LinksResolve
  <2> QED
    BY <1>2, <2>3, LastLinkStep DEF LinkTeam
<1> QED
  BY <1>1, <1>2

LEMMA DeleteTeamStep ==
  ASSUME DirectoryInv, NEW r \in Requests, DeleteTeam(r)
  PROVE  DirectoryInv'
<1>1. PICK t \in Rows(teams) :
        IF TeamInUse(t) THEN Goes(r, [stage |-> "team_not_deleted"]) /\ UNCHANGED teams
        ELSE teams' = [teams EXCEPT ![t] = Absent] /\ UNCHANGED req
  BY DEF DeleteTeam
<1>2. CASE TeamInUse(t)
  <2>1. [stage |-> "team_not_deleted"] \in Request
    BY DEF Request
  <2> QED
    BY <1>1, <1>2, <2>1, RequestStep DEF DeleteTeam, tables
<1>3. CASE ~TeamInUse(t)
  <2>1. TypeOK'
    BY <1>1, <1>3 DEF DeleteTeam, DirectoryInv, TypeOK, links
  <2>2. LinksResolve'
    <3>1. \A p \in mailbox_teams : p[1] \in Mailboxes /\ p[2] \in Teams /\ p = <<p[1], p[2]>>
      BY DEF DirectoryInv, TypeOK
    <3>2. \A p \in team_members : p[1] \in Teams /\ p[2] \in Users /\ p = <<p[1], p[2]>>
      BY DEF DirectoryInv, TypeOK
    <3>3. \A p \in mailbox_teams : p[2] # t
      BY <1>3, <3>1 DEF TeamInUse
    <3>4. \A p \in team_members : p[1] # t
      BY <1>3, <3>2 DEF TeamInUse
    <3>5. \A s \in Teams : s # t => teams'[s] = teams[s]
      BY <1>1, <1>3 DEF DirectoryInv, TypeOK
    <3> QED
      BY <3>1, <3>2, <3>3, <3>4, <3>5 DEF DeleteTeam, DirectoryInv, LinksResolve, links
  <2> QED
    BY <1>1, <1>3, <2>1, <2>2, LinkStep DEF DeleteTeam, links
<1> QED
  BY <1>2, <1>3

LEMMA CheckStep ==
  ASSUME DirectoryInv, NEW r \in Requests,
         CheckMailbox(r) \/ CheckDirect(r) \/ CheckTeam(r) \/ Answer(r)
  PROVE  DirectoryInv'
<1>1. CASE CheckMailbox(r)
  <2>1. PICK u \in Users, m \in Rows(mailboxes) :
          Goes(r, [stage |-> "direct", user |-> u, mailbox |-> m])
    BY <1>1 DEF CheckMailbox
  <2>2. [stage |-> "direct", user |-> u, mailbox |-> m] \in Request
    BY DEF Request, Rows, DirectoryInv, TypeOK
  <2> QED
    BY <1>1, <2>1, <2>2, RequestStep DEF CheckMailbox
<1>2. CASE CheckDirect(r) \/ CheckTeam(r)
  <2>1. PICK stage \in {"team", "admitted", "refused"} : Goes(r, [req[r] EXCEPT !.stage = stage])
    BY <1>2 DEF CheckDirect, CheckTeam
  <2>2. req[r] \in [stage : {"direct", "team", "admitted", "refused"}, user : Users, mailbox : Mailboxes]
    BY <1>2 DEF CheckDirect, CheckTeam, DirectoryInv, TypeOK, Request, Idle
  <2>3. [req[r] EXCEPT !.stage = stage] \in Request /\ [req[r] EXCEPT !.stage = stage].stage = stage
    BY <2>2 DEF Request
  <2> QED
    BY <1>2, <2>1, <2>3, RequestStep DEF CheckDirect, CheckTeam
<1>3. CASE Answer(r)
  BY <1>3, RequestStep, IdleTyped DEF Answer, Idle
<1> QED
  BY <1>1, <1>2, <1>3

LEMMA TokenStep ==
  ASSUME DirectoryInv, NEW u \in Users, IssueAdminToken(u) \/ AdminTokenExpires(u)
  PROVE  DirectoryInv'
<1>1. UNCHANGED <<tables, is_setup_complete, req, overruled>>
      /\ \A v \in admin_tokens' : v \in Users /\ users[v] # Absent
  BY DEF IssueAdminToken, AdminTokenExpires, DirectoryInv, TypeOK, CarriedExists, IsAdmin
<1>2. TypeOK' /\ LinksResolve' /\ AdminKept'
  BY <1>1 DEF DirectoryInv, TypeOK, LinksResolve, AdminKept, Rows, IsAdmin, tables, links
<1>3. CarriedExists'
  BY <1>1 DEF DirectoryInv, CarriedExists, Rows, Allowed, tables
<1> QED
  BY <1>2, <1>3 DEF DirectoryInv

LEMMA TableStep ==
  ASSUME DirectoryInv,
         \/ \E t \in Teams : NameTeam(t) \/ \E u \in Users : RemoveTeamMember(t, u)
         \/ \E d \in Domains : AddDomain(d)
         \/ \E m \in Mailboxes :
              \/ CreateMailbox(m) \/ UpdateMailbox(m)
              \/ \E u \in Users : LinkUser(m, u) \/ UnlinkUser(m, u)
              \/ \E t \in Teams : UnlinkTeam(m, t)
  PROVE  DirectoryInv'
<1>1. ASSUME NEW t \in Teams, NameTeam(t) PROVE DirectoryInv'
  <2>1. PICK name \in TeamNames : teams' = [teams EXCEPT ![t] = name]
    BY <1>1 DEF NameTeam
  <2>2. name # Absent
    BY DirectoryAssumption
  <2>3. TypeOK' /\ LinksResolve'
    BY <1>1, <2>1, <2>2 DEF NameTeam, DirectoryInv, TypeOK, LinksResolve, links
  <2> QED
    BY <1>1, <2>3, LinkStep DEF NameTeam, links
<1>2. ASSUME NEW t \in Teams, NEW u \in Users, RemoveTeamMember(t, u) PROVE DirectoryInv'
  <2>1. TypeOK' /\ LinksResolve'
    BY <1>2 DEF RemoveTeamMember, DirectoryInv, TypeOK, LinksResolve
  <2> QED
    BY <1>2, <2>1, LinkStep DEF RemoveTeamMember
<1>3. ASSUME NEW d \in Domains, AddDomain(d) PROVE DirectoryInv'
  <2>1. TypeOK' /\ LinksResolve'
    BY <1>3 DEF AddDomain, DirectoryInv, TypeOK, LinksResolve, links
  <2> QED
    BY <1>3, <2>1, LinkStep DEF AddDomain, links
<1>4. ASSUME NEW m \in Mailboxes, CreateMailbox(m) \/ UpdateMailbox(m) PROVE DirectoryInv'
  <2>1. PICK row \in Mailbox : mailboxes' = [mailboxes EXCEPT ![m] = row]
    <3>1. CASE CreateMailbox(m)
      <4>1. PICK d \in domains, local \in LocalParts :
              mailboxes' = [mailboxes EXCEPT ![m] =
                              [domain_id |-> d, local_part |-> local, is_active |-> TRUE]]
        BY <3>1 DEF CreateMailbox
      <4>2. [domain_id |-> d, local_part |-> local, is_active |-> TRUE] \in Mailbox
        BY DEF Mailbox, DirectoryInv, TypeOK
      <4> QED
        BY <4>1, <4>2
    <3>2. CASE UpdateMailbox(m)
      <4>1. PICK local \in LocalParts, active \in BOOLEAN :
              mailboxes' = [mailboxes EXCEPT ![m].local_part = local, ![m].is_active = active]
        BY <3>2 DEF UpdateMailbox
      <4>2. mailboxes[m] \in Mailbox
        BY <3>2 DEF UpdateMailbox, DirectoryInv, TypeOK
      <4>3. [mailboxes[m] EXCEPT !.local_part = local, !.is_active = active] \in Mailbox
        BY <4>2 DEF Mailbox
      <4>4. mailboxes' = [mailboxes EXCEPT ![m] =
                            [mailboxes[m] EXCEPT !.local_part = local, !.is_active = active]]
        BY <4>1 DEF DirectoryInv, TypeOK
      <4> QED
        BY <4>3, <4>4
    <3> QED
      BY <1>4, <3>1, <3>2
  <2>2. row # Absent
    BY DirectoryAssumption
  <2>3. UNCHANGED <<users, teams, domains, links, is_setup_complete, admin_tokens, req, overruled>>
    BY <1>4 DEF CreateMailbox, UpdateMailbox
  <2>4. TypeOK' /\ LinksResolve'
    BY <2>1, <2>2, <2>3 DEF DirectoryInv, TypeOK, LinksResolve, links
  <2>5. \A n \in Mailboxes : mailboxes[n] # Absent => mailboxes'[n] # Absent
    BY <2>1, <2>2 DEF DirectoryInv, TypeOK
  <2> QED
    BY <2>3, <2>4, <2>5, LinkStep
<1>5. ASSUME NEW m \in Mailboxes, NEW u \in Users, LinkUser(m, u) \/ UnlinkUser(m, u)
      PROVE  DirectoryInv'
  <2>1. TypeOK' /\ LinksResolve'
    BY <1>5 DEF LinkUser, UnlinkUser, DirectoryInv, TypeOK, LinksResolve
  <2>2. UNCHANGED <<users, mailboxes, is_setup_complete, admin_tokens, req, overruled>>
    BY <1>5 DEF LinkUser, UnlinkUser
  <2> QED
    BY <2>1, <2>2, LinkStep
<1>6. ASSUME NEW m \in Mailboxes, NEW t \in Teams, UnlinkTeam(m, t) PROVE DirectoryInv'
  <2>1. TypeOK' /\ LinksResolve'
    BY <1>6 DEF UnlinkTeam, DirectoryInv, TypeOK, LinksResolve
  <2> QED
    BY <1>6, <2>1, LinkStep DEF UnlinkTeam
<1> QED
  BY <1>1, <1>2, <1>3, <1>4, <1>5, <1>6

LEMMA NextInv == DirectoryInv /\ [Next]_vars => DirectoryInv'
<1> SUFFICES ASSUME DirectoryInv, [Next]_vars PROVE DirectoryInv'
  OBVIOUS
<1>1. CASE UNCHANGED vars
  BY <1>1 DEF vars, tables, links, DirectoryInv, TypeOK, CarriedExists, AdminKept, LinksResolve,
              Rows, IsAdmin, Allowed
<1>2. CASE Next
  BY <1>2, SetupStep, CreateUserStep, BeginUpdateUserStep, UpdateUserStep, FindStep, AddStep,
     DeleteTeamStep, CheckStep, TokenStep, TableStep DEF Next
<1> QED
  BY <1>1, <1>2

\* What a request has found is still there when it comes back, from the first account
\* on there is an administrator, and the links resolve (DirectoryInv).
THEOREM DirectoryInvariant == Spec => []DirectoryInv
BY InitInv, NextInv, PTL DEF Spec

\* users/routes.ts:97 keeps an administrator: only someone who is none any more,
\* with an old token or a late request, can take out the last one.
THEOREM AdministratorStays == Spec => []AdminStays
<1>1. DirectoryInv => AdminStays
  BY DEF DirectoryInv, AdminKept, AdminStays
<1> QED
  BY <1>1, DirectoryInvariant, PTL

\* Links and memberships never name a row that is not there.
THEOREM LinksAlwaysResolve == Spec => []LinksResolve
<1>1. DirectoryInv => LinksResolve
  BY DEF DirectoryInv
<1> QED
  BY <1>1, DirectoryInvariant, PTL

-----------------------------------------------------------------------------
(* The three queries of requireMailboxAccess                               *)

\* What is kept of the ways to a mailbox is open at the time, and after the first query
\* it is no link of one's own.
KeptInv ==
  /\ kept \in [Requests -> SUBSET (Teams \cup {"direct"})]
  /\ \A r \in Requests :
       /\ req[r].stage = "direct" => kept[r] \subseteq Ways(req[r].mailbox, req[r].user)
       /\ req[r].stage = "team" => kept[r] \subseteq Ways(req[r].mailbox, req[r].user) \ {"direct"}
       /\ req[r].stage = "refused" => kept[r] = {}

LEMMA InitKept == Init => KeptInv
BY DEF Init, KeptInv, Idle

\* A request is where it was, or not at the queries.
Elsewhere ==
  \A r \in Requests : req'[r] = req[r] \/ req'[r].stage \notin {"direct", "team", "refused"}

\* Nothing is linked or unlinked.
LEMMA LinksStay ==
  ASSUME KeptInv, Elsewhere, UNCHANGED <<links, kept>>
  PROVE  KeptInv'
BY DEF KeptInv, Elsewhere, Ways, WaysIn, links

\* A link or a membership comes or goes.
LEMMA LinksMove ==
  ASSUME KeptInv, Elsewhere, Keep
  PROVE  KeptInv'
<1>1. kept' \in [Requests -> SUBSET (Teams \cup {"direct"})]
  BY DEF KeptInv, Keep
<1>2. ASSUME NEW r \in Requests, req'[r] = req[r]
      PROVE  /\ req[r].stage = "direct" => kept'[r] \subseteq Ways(req[r].mailbox, req[r].user)'
             /\ req[r].stage = "team" => kept'[r] \subseteq Ways(req[r].mailbox, req[r].user)' \ {"direct"}
             /\ req[r].stage = "refused" => kept'[r] = {}
  BY <1>2 DEF KeptInv, Keep, Ways
<1> QED
  BY <1>1, <1>2 DEF KeptInv, Elsewhere

\* The ways of before count from the first query on ...
LEMMA CheckMailboxKept ==
  ASSUME TypeOK, KeptInv, NEW r \in Requests, CheckMailbox(r)
  PROVE  KeptInv'
<1>1. PICK u \in Users, m \in Rows(mailboxes) :
        /\ Goes(r, [stage |-> "direct", user |-> u, mailbox |-> m])
        /\ kept' = [kept EXCEPT ![r] = Ways(m, u)]
  BY DEF CheckMailbox
<1>2. Ways(m, u) \in SUBSET (Teams \cup {"direct"})
  BY DEF Ways, WaysIn
<1>3. /\ UNCHANGED links
      /\ \A s \in Requests :
           req'[s] = IF s = r THEN [stage |-> "direct", user |-> u, mailbox |-> m] ELSE req[s]
  BY <1>1, GoesOne DEF CheckMailbox, tables
<1> QED
  BY <1>1, <1>2, <1>3 DEF KeptInv, Ways, links

\* ... one's own link is none of them after the second ...
LEMMA CheckDirectKept ==
  ASSUME TypeOK, KeptInv, NEW r \in Requests, CheckDirect(r)
  PROVE  KeptInv'
<1> DEFINE m == req[r].mailbox
           u == req[r].user
           stage == IF <<m, u>> \in mailbox_users THEN "admitted" ELSE "team"
<1>1. /\ UNCHANGED <<links, kept>> /\ req[r].stage = "direct"
      /\ \A s \in Requests : req'[s] = IF s = r THEN [req[r] EXCEPT !.stage = stage] ELSE req[s]
  BY GoesOne DEF CheckDirect, tables
<1>2. req[r] \in [stage : {"direct", "team", "admitted", "refused"}, user : Users, mailbox : Mailboxes]
  BY <1>1 DEF TypeOK, Request, Idle
<1>3. req'[r].stage = stage /\ req'[r].mailbox = m /\ req'[r].user = u
  BY <1>1, <1>2
<1>4. stage = "team" => kept[r] \subseteq Ways(m, u) \ {"direct"}
  BY <1>1, DirectoryAssumption DEF KeptInv, Ways, WaysIn
<1> QED
  BY <1>1, <1>3, <1>4 DEF KeptInv, Ways, links

\* ... and after the third none is left of who is refused.
LEMMA CheckTeamKept ==
  ASSUME TypeOK, KeptInv, NEW r \in Requests, CheckTeam(r)
  PROVE  KeptInv'
<1> DEFINE m == req[r].mailbox
           u == req[r].user
           shared == \E t \in Teams : <<m, t>> \in mailbox_teams /\ <<t, u>> \in team_members
           stage == IF shared THEN "admitted" ELSE "refused"
<1>1. /\ UNCHANGED <<links, kept>> /\ req[r].stage = "team"
      /\ \A s \in Requests : req'[s] = IF s = r THEN [req[r] EXCEPT !.stage = stage] ELSE req[s]
  BY GoesOne DEF CheckTeam, tables
<1>2. req[r] \in [stage : {"direct", "team", "admitted", "refused"}, user : Users, mailbox : Mailboxes]
  BY <1>1 DEF TypeOK, Request, Idle
<1>3. req'[r].stage = stage
  BY <1>1, <1>2
<1>4. ~shared => kept[r] = {}
  BY <1>1 DEF KeptInv, Ways, WaysIn
<1> QED
  BY <1>1, <1>3, <1>4 DEF KeptInv, Ways, links

LEMMA AnswerKept ==
  ASSUME TypeOK, KeptInv, NEW r \in Requests, Answer(r)
  PROVE  KeptInv'
BY GoesOne DEF Answer, KeptInv, Ways, tables, links, Idle

LEMMA NextKept == DirectoryInv /\ KeptInv /\ [Next]_vars => KeptInv'
<1> SUFFICES ASSUME TypeOK, KeptInv, [Next]_vars PROVE KeptInv'
  BY DEF DirectoryInv
<1> USE DEF tables, links, Elsewhere
<1>1. ASSUME NEW r \in Requests,
             \/ BeginSetup(r) \/ InsertAdmin(r) \/ CompleteSetup(r) \/ CrashSetup(r)
             \/ BeginCreateUser(r) \/ CreateUser(r)
      PROVE  KeptInv'
  BY <1>1, LinksStay DEF TypeOK, Goes, Idle, BeginSetup, InsertAdmin, CompleteSetup, CrashSetup,
     BeginCreateUser, CreateUser
<1>2. ASSUME NEW r \in Requests,
             BeginUpdateUser(r) \/ UpdateUser(r) \/ DeleteTeam(r) \/ FindMember(r) \/ FindTeam(r)
      PROVE  KeptInv'
  BY <1>2, LinksStay DEF TypeOK, Goes, Idle, BeginUpdateUser, UpdateUser, DeleteTeam, FindMember, FindTeam
<1>3. ASSUME NEW r \in Requests, AddTeamMember(r) \/ LinkTeam(r) PROVE KeptInv'
  BY <1>3, LinksMove DEF TypeOK, Goes, Idle, AddTeamMember, LinkTeam
<1>4. ASSUME NEW r \in Requests, CheckMailbox(r) \/ CheckDirect(r) \/ CheckTeam(r) \/ Answer(r)
      PROVE  KeptInv'
  BY <1>4, CheckMailboxKept, CheckDirectKept, CheckTeamKept, AnswerKept
<1>5. ASSUME NEW u \in Users, IssueAdminToken(u) \/ AdminTokenExpires(u) PROVE KeptInv'
  BY <1>5, LinksStay DEF IssueAdminToken, AdminTokenExpires
<1>6. ASSUME NEW t \in Teams, NameTeam(t) PROVE KeptInv'
  BY <1>6, LinksStay DEF NameTeam
<1>7. ASSUME NEW d \in Domains, AddDomain(d) PROVE KeptInv'
  BY <1>7, LinksStay DEF AddDomain
<1>8. ASSUME NEW m \in Mailboxes, CreateMailbox(m) \/ UpdateMailbox(m) PROVE KeptInv'
  BY <1>8, LinksStay DEF CreateMailbox, UpdateMailbox
<1>9. ASSUME NEW u \in Users, NEW t \in Teams, RemoveTeamMember(t, u) PROVE KeptInv'
  BY <1>9, LinksMove DEF RemoveTeamMember
<1>10. ASSUME NEW m \in Mailboxes, NEW u \in Users, LinkUser(m, u) \/ UnlinkUser(m, u)
       PROVE  KeptInv'
  BY <1>10, LinksMove DEF LinkUser, UnlinkUser
<1>11. ASSUME NEW m \in Mailboxes, NEW t \in Teams, UnlinkTeam(m, t) PROVE KeptInv'
  BY <1>11, LinksMove DEF UnlinkTeam
<1>12. CASE UNCHANGED vars
  BY <1>12, LinksStay DEF vars
<1> QED
  BY <1>1, <1>2, <1>3, <1>4, <1>5, <1>6, <1>7, <1>8, <1>9, <1>10, <1>11, <1>12 DEF Next

\* Access that a user had throughout is not refused because requireMailboxAccess looks up
\* its own link first and the teams afterwards, while administrators link and unlink.
THEOREM KeptAccessAdmits == Spec => []KeptWayAdmits
<1>1. KeptInv => KeptWayAdmits
  BY DEF KeptInv, KeptWayAdmits
<1> QED
  BY <1>1, InitKept, NextKept, DirectoryInvariant, PTL DEF Spec
=============================================================================
