------------------------------ MODULE Directory ------------------------------
(***************************************************************************)
(* Who may do what: accounts, teams, domains, mailboxes and the links      *)
(* between them, the first setup, the administrators' requests and the     *)
(* check that guards every mailbox route (requireMailboxAccess).           *)
(*                                                                         *)
(* Users, domains and mailboxes are never deleted, so a SELECT that finds  *)
(* one is part of the step that relies on it; a team can go between the    *)
(* two.  Passwords, timestamps, the listings and the system folders that   *)
(* come with a mailbox are left out.                                       *)
(***************************************************************************)
EXTENDS Naturals, FiniteSets

CONSTANTS
  Users, Teams, Domains, Mailboxes,  \* ids
  Usernames, TeamNames, LocalParts,
  ZoneName,                          \* the name Cloudflare has for a domain id
  Patches,                           \* bodies of a PATCH of an account
  Requests,                          \* requests under way at a time
  Absent

VARIABLES
  users, teams, domains, mailboxes,           \* the tables, id -> row or Absent
  mailbox_users, mailbox_teams, team_members, \* the pairs in the link tables
  is_setup_complete,                          \* of the settings row
  admin_tokens, \* users with an access token of role admin that has not expired
  req,
  overruled,  \* history: an administrator was taken out by someone who was one no more
  kept        \* history: request -> the links of its user that held since it began

links == <<mailbox_users, mailbox_teams, team_members>>
tables == <<users, teams, domains, mailboxes, links>>
vars == <<tables, is_setup_complete, admin_tokens, req, overruled, kept>>

Role == {"admin", "member"}
Account == [username : Usernames, role : Role, is_active : BOOLEAN]
Mailbox == [domain_id : Domains, local_part : LocalParts, is_active : BOOLEAN]
\* Absent is a field the body leaves out.
Patch == [role : Role \cup {Absent}, is_active : BOOLEAN \cup {Absent}]
Idle == [stage |-> "idle"]

\* "direct" stands for a link of one's own among the teams that lead to a mailbox (WaysIn).
ASSUME DirectoryAssumption ==
  /\ Absent \notin Account \cup Mailbox \cup TeamNames /\ Patches \subseteq Patch
  /\ "direct" \notin Teams

Rows(table) == {id \in DOMAIN table : table[id] # Absent}

Init ==
  /\ users = [u \in Users |-> Absent]
  /\ teams = [t \in Teams |-> Absent]
  /\ domains = {}
  /\ mailboxes = [m \in Mailboxes |-> Absent]
  /\ mailbox_users = {} /\ mailbox_teams = {} /\ team_members = {}
  /\ is_setup_complete = FALSE
  /\ admin_tokens = {}
  /\ req = [r \in Requests |-> Idle]
  /\ overruled = FALSE
  /\ kept = [r \in Requests |-> {}]

Goes(r, state) == req' = [req EXCEPT ![r] = state]

IsAdmin(u) == users[u] # Absent /\ users[u].role = "admin" /\ users[u].is_active

\* jwtAuth and requireAdmin: the role is the one in the token.
SomeAdmin == admin_tokens # {}

\* The ways user u reaches mailbox m: a link of its own, and the teams it shares with it.
WaysIn(m, u, direct, shares, members) ==
  {"direct" : x \in {y \in direct : y = <<m, u>>}}
  \cup {t \in Teams : <<m, t>> \in shares /\ <<t, u>> \in members}

Ways(m, u) == WaysIn(m, u, mailbox_users, mailbox_teams, team_members)

\* What is left of the ways of the users whose access is being checked.
Keep ==
  kept' = [r \in Requests |->
    IF req[r].stage \in {"direct", "team"}
    THEN kept[r] \cap WaysIn(req[r].mailbox, req[r].user, mailbox_users', mailbox_teams', team_members')
    ELSE kept[r]]

-----------------------------------------------------------------------------
(* Sessions, as far as the role in the token goes; see AuthSession          *)

\* login or refresh of an active administrator.
IssueAdminToken(u) ==
  /\ IsAdmin(u)
  /\ admin_tokens' = admin_tokens \cup {u}
  /\ UNCHANGED <<tables, is_setup_complete, req, overruled, kept>>

AdminTokenExpires(u) ==
  /\ admin_tokens' = admin_tokens \ {u}
  /\ UNCHANGED <<tables, is_setup_complete, req, overruled, kept>>

-----------------------------------------------------------------------------
(* Accounts                                                                *)

\* The unique index on users.username.
UsernameTaken(name) == \E u \in Rows(users) : users[u].username = name

\* The row is inserted under a new id; a violated index is an error answer.
InsertUser(name, role) ==
  IF UsernameTaken(name) THEN UNCHANGED users
  ELSE \E u \in Users \ Rows(users) :
         users' = [users EXCEPT ![u] = [username |-> name, role |-> role, is_active |-> TRUE]]

\* setup: ensureSettings, and the flag is read.
BeginSetup(r) ==
  /\ req[r] = Idle /\ ~is_setup_complete
  /\ \E name \in Usernames : Goes(r, [stage |-> "insert_admin", username |-> name])
  /\ UNCHANGED <<tables, is_setup_complete, admin_tokens, overruled, kept>>

\* The first administrator; a crash may follow (CrashSetup).
InsertAdmin(r) ==
  /\ req[r].stage = "insert_admin"
  /\ Users # Rows(users)
  /\ InsertUser(req[r].username, "admin")
  /\ Goes(r, IF UsernameTaken(req[r].username) THEN Idle ELSE [stage |-> "complete"])
  /\ UNCHANGED <<teams, domains, mailboxes, links, is_setup_complete, admin_tokens, overruled, kept>>

CompleteSetup(r) ==
  /\ req[r].stage = "complete"
  /\ is_setup_complete' = TRUE
  /\ Goes(r, Idle)
  /\ UNCHANGED <<tables, admin_tokens, overruled, kept>>

\* The flag could not be written.
CrashSetup(r) ==
  /\ req[r].stage = "complete"
  /\ Goes(r, Idle)
  /\ UNCHANGED <<tables, is_setup_complete, admin_tokens, overruled, kept>>

\* createUser: the name is free when it is looked up ...
BeginCreateUser(r) ==
  /\ req[r] = Idle /\ SomeAdmin
  /\ \E name \in Usernames, role \in Role :
       ~UsernameTaken(name) /\ Goes(r, [stage |-> "insert_user", username |-> name, role |-> role])
  /\ UNCHANGED <<tables, is_setup_complete, admin_tokens, overruled, kept>>

\* ... and inserted after the password was hashed.
CreateUser(r) ==
  /\ req[r].stage = "insert_user"
  /\ Users # Rows(users)
  /\ InsertUser(req[r].username, req[r].role)
  /\ Goes(r, Idle)
  /\ UNCHANGED <<teams, domains, mailboxes, links, is_setup_complete, admin_tokens, overruled, kept>>

\* A PATCH of an account replaces the fields its body has.
Patched(row, patch) ==
  [row EXCEPT !.role = IF patch.role = Absent THEN @ ELSE patch.role,
              !.is_active = IF patch.is_active = Absent THEN @ ELSE patch.is_active]

\* Mutant of Allowed: only the deactivation of oneself is refused.
AllowedToDemote(actor, target, patch) == actor = target => patch.is_active # FALSE

\* Nobody deactivates or demotes himself.
Allowed(actor, target, patch) ==
  actor = target => patch.is_active # FALSE /\ patch.role # "member"

BeginUpdateUser(r) ==
  /\ req[r] = Idle
  /\ \E actor, target \in Users, patch \in Patches :
       /\ actor \in admin_tokens /\ users[target] # Absent
       /\ Allowed(actor, target, patch)
       /\ Goes(r, [stage |-> "update_user", actor |-> actor, target |-> target, patch |-> patch])
  /\ UNCHANGED <<tables, is_setup_complete, admin_tokens, overruled, kept>>

\* The password may have been hashed in between.
UpdateUser(r) ==
  /\ req[r].stage = "update_user"
  /\ LET q == req[r]
         row == Patched(users[q.target], q.patch) IN
     /\ users' = [users EXCEPT ![q.target] = row]
     /\ overruled' = (overruled \/ (~IsAdmin(q.actor) /\ (row.role # "admin" \/ ~row.is_active)))
  /\ Goes(r, Idle)
  /\ UNCHANGED <<teams, domains, mailboxes, links, is_setup_complete, admin_tokens, kept>>

-----------------------------------------------------------------------------
(* Teams                                                                   *)

TeamNameTaken(name, t) == \E s \in Rows(teams) \ {t} : teams[s] = name

\* createTeam and updateTeam; a taken name is an error answer.
NameTeam(t) ==
  /\ SomeAdmin
  /\ \E name \in TeamNames : ~TeamNameTaken(name, t) /\ teams' = [teams EXCEPT ![t] = name]
  /\ UNCHANGED <<users, domains, mailboxes, links, is_setup_complete, admin_tokens, req, overruled, kept>>

\* A team that is named by a link or a membership: its foreign keys do not cascade.
TeamInUse(t) ==
  (\E m \in Mailboxes : <<m, t>> \in mailbox_teams) \/ (\E u \in Users : <<t, u>> \in team_members)

\* Mutant of DeleteTeam: no foreign keys.
DeleteTeamAlways(r) ==
  /\ req[r] = Idle /\ SomeAdmin
  /\ \E t \in Rows(teams) : teams' = [teams EXCEPT ![t] = Absent]
  /\ UNCHANGED <<users, domains, mailboxes, links, is_setup_complete, admin_tokens, req, overruled, kept>>

\* deleteTeam deletes the row alone; the foreign keys make it fail for a team in use.
DeleteTeam(r) ==
  /\ req[r] = Idle /\ SomeAdmin
  /\ \E t \in Rows(teams) :
       IF TeamInUse(t) THEN Goes(r, [stage |-> "team_not_deleted"]) /\ UNCHANGED teams
       ELSE teams' = [teams EXCEPT ![t] = Absent] /\ UNCHANGED req
  /\ UNCHANGED <<users, domains, mailboxes, links, is_setup_complete, admin_tokens, overruled, kept>>

\* addTeamMember and linkTeam have found the team and the other row.
FindMember(r) ==
  /\ req[r] = Idle /\ SomeAdmin
  /\ \E t \in Rows(teams), u \in Rows(users) : Goes(r, [stage |-> "add_member", team |-> t, user |-> u])
  /\ UNCHANGED <<tables, is_setup_complete, admin_tokens, overruled, kept>>

\* The insert fails if the pair is there already, or the team has gone.
AddTeamMember(r) ==
  /\ req[r].stage = "add_member"
  /\ LET t == req[r].team IN
     team_members' = IF teams[t] = Absent THEN team_members
                     ELSE team_members \cup {<<t, req[r].user>>}
  /\ Goes(r, Idle)
  /\ UNCHANGED <<users, teams, domains, mailboxes, mailbox_users, mailbox_teams,
                 is_setup_complete, admin_tokens, overruled>>
  /\ Keep

RemoveTeamMember(t, u) ==
  /\ SomeAdmin /\ <<t, u>> \in team_members
  /\ team_members' = team_members \ {<<t, u>>}
  /\ UNCHANGED <<users, teams, domains, mailboxes, mailbox_users, mailbox_teams,
                 is_setup_complete, admin_tokens, req, overruled>>
  /\ Keep

-----------------------------------------------------------------------------
(* Domains and mailboxes                                                   *)

\* addDomain: the zone is looked up at Cloudflare; both its id and its name are unique.
AddDomain(d) ==
  /\ SomeAdmin /\ d \notin domains /\ \A e \in domains : ZoneName[e] # ZoneName[d]
  /\ domains' = domains \cup {d}
  /\ UNCHANGED <<users, teams, mailboxes, links, is_setup_complete, admin_tokens, req, overruled, kept>>

AddressTaken(d, local, m) ==
  \E n \in Rows(mailboxes) \ {m} : mailboxes[n].domain_id = d /\ mailboxes[n].local_part = local

CreateMailbox(m) ==
  /\ SomeAdmin /\ mailboxes[m] = Absent
  /\ \E d \in domains, local \in LocalParts :
       /\ ~AddressTaken(d, local, m)
       /\ mailboxes' = [mailboxes EXCEPT ![m] = [domain_id |-> d, local_part |-> local, is_active |-> TRUE]]
  /\ UNCHANGED <<users, teams, domains, links, is_setup_complete, admin_tokens, req, overruled, kept>>

\* updateMailbox: the local part, the flag or both.
UpdateMailbox(m) ==
  /\ SomeAdmin /\ mailboxes[m] # Absent
  /\ \E local \in LocalParts, active \in BOOLEAN :
       /\ ~AddressTaken(mailboxes[m].domain_id, local, m)
       /\ mailboxes' = [mailboxes EXCEPT ![m].local_part = local, ![m].is_active = active]
  /\ UNCHANGED <<users, teams, domains, links, is_setup_complete, admin_tokens, req, overruled, kept>>

LinkUser(m, u) ==
  /\ SomeAdmin /\ mailboxes[m] # Absent /\ users[u] # Absent
  /\ mailbox_users' = mailbox_users \cup {<<m, u>>}
  /\ UNCHANGED <<users, teams, domains, mailboxes, mailbox_teams, team_members,
                 is_setup_complete, admin_tokens, req, overruled>>
  /\ Keep

UnlinkUser(m, u) ==
  /\ SomeAdmin /\ <<m, u>> \in mailbox_users
  /\ mailbox_users' = mailbox_users \ {<<m, u>>}
  /\ UNCHANGED <<users, teams, domains, mailboxes, mailbox_teams, team_members,
                 is_setup_complete, admin_tokens, req, overruled>>
  /\ Keep

FindTeam(r) ==
  /\ req[r] = Idle /\ SomeAdmin
  /\ \E m \in Rows(mailboxes), t \in Rows(teams) : Goes(r, [stage |-> "link_team", mailbox |-> m, team |-> t])
  /\ UNCHANGED <<tables, is_setup_complete, admin_tokens, overruled, kept>>

LinkTeam(r) ==
  /\ req[r].stage = "link_team"
  /\ LET t == req[r].team IN
     mailbox_teams' = IF teams[t] = Absent THEN mailbox_teams
                      ELSE mailbox_teams \cup {<<req[r].mailbox, t>>}
  /\ Goes(r, Idle)
  /\ UNCHANGED <<users, teams, domains, mailboxes, mailbox_users, team_members,
                 is_setup_complete, admin_tokens, overruled>>
  /\ Keep

UnlinkTeam(m, t) ==
  /\ SomeAdmin /\ <<m, t>> \in mailbox_teams
  /\ mailbox_teams' = mailbox_teams \ {<<m, t>>}
  /\ UNCHANGED <<users, teams, domains, mailboxes, mailbox_users, team_members,
                 is_setup_complete, admin_tokens, req, overruled>>
  /\ Keep

-----------------------------------------------------------------------------
(* requireMailboxAccess: three queries                                     *)

\* Whatever the mailbox route is, the mailbox must be there and active.
CheckMailbox(r) ==
  /\ req[r] = Idle
  /\ \E u \in Users, m \in Rows(mailboxes) :
       /\ users[u] # Absent /\ mailboxes[m].is_active
       /\ Goes(r, [stage |-> "direct", user |-> u, mailbox |-> m])
       /\ kept' = [kept EXCEPT ![r] = Ways(m, u)]
  /\ UNCHANGED <<tables, is_setup_complete, admin_tokens, overruled>>

\* Mutant of CheckDirect: teams are not asked.
CheckDirectOnly(r) ==
  /\ req[r].stage = "direct"
  /\ Goes(r, [req[r] EXCEPT !.stage = IF <<req[r].mailbox, req[r].user>> \in mailbox_users
                                      THEN "admitted" ELSE "refused"])
  /\ UNCHANGED <<tables, is_setup_complete, admin_tokens, overruled, kept>>

CheckDirect(r) ==
  /\ req[r].stage = "direct"
  /\ Goes(r, [req[r] EXCEPT !.stage = IF <<req[r].mailbox, req[r].user>> \in mailbox_users
                                      THEN "admitted" ELSE "team"])
  /\ UNCHANGED <<tables, is_setup_complete, admin_tokens, overruled, kept>>

CheckTeam(r) ==
  /\ req[r].stage = "team"
  /\ Goes(r, [req[r] EXCEPT !.stage =
       IF \E t \in Teams : <<req[r].mailbox, t>> \in mailbox_teams /\ <<t, req[r].user>> \in team_members
       THEN "admitted" ELSE "refused"])
  /\ UNCHANGED <<tables, is_setup_complete, admin_tokens, overruled, kept>>

\* The route goes on, or an error is answered.
Answer(r) ==
  /\ req[r].stage \in {"admitted", "refused", "team_not_deleted"}
  /\ Goes(r, Idle)
  /\ kept' = [kept EXCEPT ![r] = {}]
  /\ UNCHANGED <<tables, is_setup_complete, admin_tokens, overruled>>

-----------------------------------------------------------------------------

Next ==
  \/ \E u \in Users : IssueAdminToken(u) \/ AdminTokenExpires(u)
  \/ \E r \in Requests :
       \/ BeginSetup(r) \/ InsertAdmin(r) \/ CompleteSetup(r) \/ CrashSetup(r)
       \/ BeginCreateUser(r) \/ CreateUser(r) \/ BeginUpdateUser(r) \/ UpdateUser(r) \/ DeleteTeam(r)
       \/ FindMember(r) \/ AddTeamMember(r) \/ FindTeam(r) \/ LinkTeam(r)
       \/ CheckMailbox(r) \/ CheckDirect(r) \/ CheckTeam(r) \/ Answer(r)
  \/ \E t \in Teams : NameTeam(t) \/ \E u \in Users : RemoveTeamMember(t, u)
  \/ \E d \in Domains : AddDomain(d)
  \/ \E m \in Mailboxes :
       \/ CreateMailbox(m) \/ UpdateMailbox(m)
       \/ \E u \in Users : LinkUser(m, u) \/ UnlinkUser(m, u)
       \/ \E t \in Teams : UnlinkTeam(m, t)

Spec == Init /\ [][Next]_vars
-----------------------------------------------------------------------------
(* Properties                                                              *)

\* What a request carries, by what it does next.
Request ==
  {Idle}
  \cup [stage : {"insert_admin"}, username : Usernames]
  \cup [stage : {"complete", "team_not_deleted"}]
  \cup [stage : {"insert_user"}, username : Usernames, role : Role]
  \cup [stage : {"update_user"}, actor : Users, target : Users, patch : Patch]
  \cup [stage : {"add_member"}, team : Teams, user : Users]
  \cup [stage : {"link_team"}, mailbox : Mailboxes, team : Teams]
  \cup [stage : {"direct", "team", "admitted", "refused"}, user : Users, mailbox : Mailboxes]

\* Types of the tables and of the requests.
TypeOK ==
  /\ users \in [Users -> Account \cup {Absent}]
  /\ teams \in [Teams -> TeamNames \cup {Absent}]
  /\ domains \subseteq Domains
  /\ mailboxes \in [Mailboxes -> Mailbox \cup {Absent}]
  /\ mailbox_users \subseteq Mailboxes \X Users
  /\ mailbox_teams \subseteq Mailboxes \X Teams
  /\ team_members \subseteq Teams \X Users
  /\ is_setup_complete \in BOOLEAN /\ overruled \in BOOLEAN
  /\ admin_tokens \subseteq Users
  /\ req \in [Requests -> Request]

\* What is found is still there when the request comes back to it.
CarriedExists ==
  /\ \A u \in admin_tokens : users[u] # Absent
  /\ \A r \in Requests : LET q == req[r] IN
       /\ q.stage \in {"complete", "insert_user"} => Rows(users) # {}
       /\ q.stage = "update_user" => users[q.target] # Absent /\ Allowed(q.actor, q.target, q.patch)
       /\ q.stage = "add_member" => users[q.user] # Absent
       /\ q.stage = "link_team" => mailboxes[q.mailbox] # Absent

\* From the first account on, set up or not.
AdminKept ==
  /\ is_setup_complete => Rows(users) # {}
  /\ Rows(users) # {} /\ ~overruled => \E u \in Users : IsAdmin(u)

\* users/routes.ts:97: an installation that is set up keeps an active administrator,
\* whatever administrators do to each other at once, unless one who had lost the role
\* went on with an old token or a late request.
AdminStays == is_setup_complete /\ ~overruled => \E u \in Users : IsAdmin(u)

\* No link or membership survives what it links, whatever is deleted between the
\* SELECTs of linkTeam and addTeamMember and their inserts.
LinksResolve ==
  /\ \A p \in mailbox_users : mailboxes[p[1]] # Absent /\ users[p[2]] # Absent
  /\ \A p \in mailbox_teams : mailboxes[p[1]] # Absent /\ teams[p[2]] # Absent
  /\ \A p \in team_members : teams[p[1]] # Absent /\ users[p[2]] # Absent

\* middleware/mailbox.ts: access that held all along is not refused because the direct
\* link and the teams are looked up one after the other.
KeptWayAdmits == \A r \in Requests : req[r].stage = "refused" => kept[r] = {}

-----------------------------------------------------------------------------
\* The inductive invariant behind AdminStays and LinksResolve.
DirectoryInv == TypeOK /\ CarriedExists /\ AdminKept /\ LinksResolve
=============================================================================
