---------------------------- MODULE AdminScreens ----------------------------
(***************************************************************************)
(* The administration views for users, mailboxes and teams, and the folder *)
(* and rule settings of a mailbox: a list that is loaded page by page and  *)
(* dialogs that create, change or delete its rows.  One of the views is    *)
(* mounted.                                                                *)
(*                                                                         *)
(* A dialog can be closed while its request is under way, and another row  *)
(* opened in it; answers come in any order, or are lost; other             *)
(* administrators change the same rows.  Of a row the model keeps whether  *)
(* it is active, of a list its page and the server's revision, and of the  *)
(* links of a row whose they are.                                          *)
(***************************************************************************)
EXTENDS Naturals, Sequences, FiniteSets, UnderWay

CONSTANTS
  Rows, None,
  Views,         \* the views to mount
  LastPage,      \* pages of the paginated lists, counted from 0
  MaxLoads,      \* bound: list requests under way
  MaxFetches,    \* bound: requests of the manage dialog under way
  MaxRev,        \* bound: changes of the rows
  MaxClicks      \* bound: dialogs opened and pages turned

VARIABLES
  view,        \* the mounted view
  server,      \* the rows: revision, which are active, whether one was deleted
  table,       \* the list: what it shows, page index, cursors, isLoading, error
  loads,       \* its requests, in the order in which they began
  dialog,      \* the open dialog, the row of each kind of dialog, the edit form
  submitting,  \* kinds of dialog with isSubmitting
  requests,    \* changes under way
  linked,      \* the lists of the manage dialog: whose links they show
  fetches,     \* their requests, and that for the domains of a new mailbox
  choices,     \* what dialogs offer to choose from and was loaded: "domains", "all"
  preparing,   \* manageLoading
  clicks,      \* number of clicks so far
  own,         \* ghost: revision of the last change reported as done
  raced,       \* ghost: the list shown is that of an overtaken request
  crossed,     \* ghost: a page was turned while a list request was under way
  hasty        \* ghost: the manage dialog was opened over requests under way

listVars == <<table, loads, raced, crossed>>
manageVars == <<linked, fetches, choices, preparing, hasty>>
vars == <<view, server, listVars, dialog, submitting, requests, manageVars, clicks, own>>

Kinds == {"create", "edit", "delete", "manage"}
Lists == {"users", "teams"}

\* A list request: the page its cursor leads to, and what the server has at least.
Request(page, frees) ==
  [page |-> page, rev |-> server.rev, active |-> server.active, overtaken |-> FALSE,
   frees |-> frees]

Init ==
  /\ view \in Views
  /\ server = [rev |-> 0, active |-> [r \in Rows |-> TRUE], deleted |-> FALSE]
  /\ table = [shown |-> None, index |-> 0, cursors |-> <<0>>, loading |-> TRUE, error |-> FALSE]
  /\ loads = <<Request(0, None)>>
  /\ dialog = [kind |-> None, of |-> [k \in Kinds |-> None], active |-> TRUE, was |-> TRUE,
               confirm |-> FALSE, confirmed |-> FALSE]
  /\ submitting = {} /\ requests = <<>>
  /\ linked = [l \in Lists |-> None] /\ fetches = {}
  /\ choices = {} /\ preparing = FALSE
  /\ clicks = 0 /\ own = 0
  /\ raced = FALSE /\ crossed = FALSE /\ hasty = FALSE

Click == clicks < MaxClicks /\ clicks' = clicks + 1

-----------------------------------------------------------------------------
(* The list                                                                *)

\* The folders come in one piece.
FinalPage == IF view = "folders" THEN 0 ELSE LastPage

\* The service looks the cursor's row up; if it is gone it starts at the top.
\* Users and mailboxes are never deleted.
ListedPages(page) == IF server.deleted THEN {page, 0} ELSE {page}

\* load(cursor) up to its await.
BeginLoad(page, frees) ==
  /\ Len(loads) < MaxLoads
  /\ loads' = Append(loads, Request(page, frees))
  /\ table' = [table EXCEPT !.loading = TRUE, !.error = FALSE]

Cursor == table.cursors[table.index + 1]
Reload(frees) == BeginLoad(Cursor, frees) /\ UNCHANGED <<raced, crossed>>

Freed(kind) == IF kind = None THEN submitting ELSE submitting \ {kind}

\* The cursor of the next page is kept the first time.
Pushed(page) ==
  IF page < FinalPage /\ Len(table.cursors) = table.index + 1
  THEN Append(table.cursors, page + 1) ELSE table.cursors

LoadArrives ==
  /\ \E i \in DOMAIN loads : \E page \in ListedPages(loads[i].page) :
       /\ loads' = Without([j \in DOMAIN loads |->
                              IF j < i THEN [loads[j] EXCEPT !.overtaken = TRUE] ELSE loads[j]], i)
       /\ raced' = loads[i].overtaken
       /\ submitting' = Freed(loads[i].frees)
       /\ table' = [table EXCEPT !.loading = FALSE, !.cursors = Pushed(page),
                                 !.shown = [page |-> page, rev |-> loads[i].rev,
                                            active |-> loads[i].active]]
  /\ requests' = [i \in DOMAIN requests |-> [requests[i] EXCEPT !.shown = FALSE]]
  /\ UNCHANGED <<view, server, crossed, dialog, manageVars, clicks, own>>

LoadFails ==
  /\ \E i \in DOMAIN loads :
       /\ loads' = Without(loads, i)
       /\ submitting' = Freed(loads[i].frees)
       /\ table' = [table EXCEPT !.loading = FALSE, !.error = TRUE]
  /\ UNCHANGED <<view, server, raced, crossed, dialog, requests, manageVars, clicks, own>>

\* The rows and the pagination are shown when neither a load nor an error is.
Visible == table.shown # None /\ ~table.loading /\ ~table.error /\ dialog.kind = None

Turned(index) ==
  /\ Click
  /\ Len(loads) < MaxLoads
  /\ loads' = Append(loads, Request(table.cursors[index + 1], None))
  /\ table' = [table EXCEPT !.index = index, !.loading = TRUE]
  /\ crossed' = (crossed \/ loads # <<>>)
  /\ UNCHANGED <<view, server, raced, dialog, submitting, requests, manageVars, own>>

GoNext ==
  /\ Visible
  /\ table.shown.page < FinalPage /\ Len(table.cursors) > table.index + 1
  /\ Turned(table.index + 1)

GoPrev == Visible /\ table.index > 0 /\ Turned(table.index - 1)

Retry ==
  /\ Click
  /\ table.error /\ ~table.loading /\ dialog.kind = None
  /\ Reload(None)
  /\ UNCHANGED <<view, server, dialog, submitting, requests, manageVars, own>>

\* Rows that can be switched off.
Switched == view \in {"users", "mailboxes", "rulesets"}

\* Another administrator, or the owner of the mailbox in another tab.
OtherChanges ==
  /\ server.rev < MaxRev
  /\ \E r \in Rows : \E active \in {server.active[r], server.active[r] # Switched} :
     \E deleted \in {server.deleted, view \in {"teams", "folders", "rulesets"}} :
       server' = [server EXCEPT !.rev = @ + 1, !.active[r] = active, !.deleted = @ \/ deleted]
  /\ UNCHANGED <<view, listVars, dialog, submitting, requests, manageVars, clicks, own>>

-----------------------------------------------------------------------------
(* Forms                                                                   *)

quietVars == <<view, server, listVars, manageVars, clicks, own>>

\* Of a dialog that is closed nothing is looked at again but the row of the manage
\* dialog, and the form is overwritten.
Closed == [dialog EXCEPT !.kind = None, !.was = TRUE, !.confirmed = FALSE,
                         !.of = [k \in Kinds |-> IF k = "manage" THEN @[k] ELSE None]]

Opened(kind, row) ==
  /\ Click
  /\ dialog.kind = None
  /\ dialog' = [dialog EXCEPT !.kind = kind, !.of[kind] = row]
  /\ UNCHANGED <<view, server, listVars, submitting, requests, own>>

\* The dialog that creates a row is opened by a button above the list, the others
\* by buttons of a row.
OpenCreate == Opened("create", None) /\ UNCHANGED manageVars
OpenRow(kind) ==
  /\ Visible
  /\ \E row \in Rows : Opened(kind, row)
  /\ UNCHANGED manageVars

\* Mutant of OpenEdit: the switch keeps the position of the last dialog.
OpenEditAsLeft ==
  /\ Visible /\ Click
  /\ \E row \in Rows :
       dialog' = [dialog EXCEPT !.kind = "edit", !.of["edit"] = row,
                                !.was = table.shown.active[row], !.confirmed = FALSE]
  /\ UNCHANGED <<view, server, listVars, manageVars, submitting, requests, own>>

\* The form takes its values from the row as the list shows it.
OpenEdit ==
  /\ Visible /\ Click
  /\ \E row \in Rows :
       dialog' = [dialog EXCEPT !.kind = "edit", !.of["edit"] = row,
                                !.active = table.shown.active[row],
                                !.was = table.shown.active[row], !.confirmed = FALSE]
  /\ UNCHANGED <<view, server, listVars, manageVars, submitting, requests, own>>

\* Mutant of CloseDialog: closing clears isSubmitting.
CloseAndForget ==
  /\ dialog.kind # None
  /\ IF dialog.confirm THEN dialog' = [dialog EXCEPT !.confirm = FALSE]
     ELSE dialog' = Closed
  /\ submitting' = submitting \ {dialog.kind}
  /\ UNCHANGED <<quietVars, requests>>

\* Escape, or the cross of the dialog on top, at any time.
CloseDialog ==
  /\ dialog.kind # None
  /\ IF dialog.confirm THEN dialog' = [dialog EXCEPT !.confirm = FALSE]
     ELSE dialog' = Closed
  /\ UNCHANGED <<quietVars, submitting, requests>>

\* The submit button is disabled while the same kind of dialog is submitting.
Send(kind, list, active, confirmed) ==
  /\ dialog.kind = kind /\ kind \notin submitting
  /\ submitting' = submitting \cup {kind}
  /\ requests' = Append(requests, [kind |-> kind, of |-> dialog.of[kind], list |-> list,
                                   active |-> active, was |-> dialog.was,
                                   confirmed |-> confirmed, shown |-> FALSE])
Submit(kind) ==
  /\ Send(kind, None, TRUE, FALSE)
  /\ UNCHANGED <<quietVars, dialog>>

\* Switching an active row off asks first.
Toggle ==
  /\ dialog.kind = "edit" /\ ~dialog.confirm /\ "edit" \notin submitting
  /\ dialog' = IF dialog.active /\ dialog.was THEN [dialog EXCEPT !.confirm = TRUE]
               ELSE [dialog EXCEPT !.active = ~@]
  /\ UNCHANGED <<quietVars, submitting, requests>>

\* The confirmation submits the whole form.
Confirm ==
  /\ dialog.confirm
  /\ dialog' = [dialog EXCEPT !.active = FALSE, !.confirm = FALSE, !.confirmed = TRUE]
  /\ Send("edit", None, FALSE, TRUE)
  /\ UNCHANGED quietVars

SubmitEdit ==
  /\ ~dialog.confirm
  /\ Send("edit", None, dialog.active, dialog.confirmed)
  /\ UNCHANGED <<quietVars, dialog>>

\* What the change does to the rows.
Changed(request) ==
  [server EXCEPT !.rev = @ + 1,
                 !.active = IF \/ request.kind = "edit" /\ view \in {"users", "mailboxes"}
                               \/ request.kind = "toggle"
                            THEN [@ EXCEPT ![request.of] = request.active] ELSE @,
                 !.deleted = @ \/ request.kind = "delete"]

\* Mutant of Accepted: the list is not loaded again.
AcceptedSilently(i) ==
  /\ server' = Changed(requests[i])
  /\ own' = server'.rev
  /\ requests' = Without(requests, i)
  /\ dialog' = IF dialog.kind = requests[i].kind THEN Closed ELSE dialog
  /\ submitting' = submitting \ {requests[i].kind}
  /\ UNCHANGED <<view, listVars, manageVars, clicks>>

\* Done: the dialog of this kind closes, whichever row it shows by now, and the
\* list is loaded again; the settings of a mailbox wait for it.
Accepted(i) ==
  /\ server' = Changed(requests[i])
  /\ own' = server'.rev
  /\ requests' = Without(requests, i)
  /\ dialog' = IF dialog.kind = requests[i].kind
               THEN Closed ELSE dialog
  /\ Len(loads) < MaxLoads
  /\ LET waits == view \in {"folders", "rulesets"}
         again == [Request(Cursor, IF waits THEN requests[i].kind ELSE None)
                     EXCEPT !.rev = server'.rev, !.active = server'.active]
     IN /\ loads' = Append(loads, again)
        /\ table' = [table EXCEPT !.loading = TRUE, !.error = FALSE]
        /\ submitting' = IF waits THEN submitting ELSE submitting \ {requests[i].kind}
  /\ UNCHANGED <<view, raced, crossed, manageVars, clicks>>

\* An error answer, or none: the change may have been made all the same.  The
\* settings of a mailbox show a deletion's error in place of the list.
NotAccepted(i) ==
  /\ server' \in {server, Changed(requests[i])}
  /\ requests' = Without(requests, i)
  /\ submitting' = submitting \ {requests[i].kind}
  /\ table' = IF view \in {"folders", "rulesets"} /\ requests[i].kind = "delete"
              THEN [table EXCEPT !.error = TRUE] ELSE table
  /\ UNCHANGED <<view, loads, raced, crossed, dialog, manageVars, clicks, own>>

AnswerRequest ==
  \E i \in DOMAIN requests :
    /\ requests[i].kind \notin {"manage", "toggle"}
    /\ server.rev < MaxRev
    /\ Accepted(i) \/ NotAccepted(i)

-----------------------------------------------------------------------------
(* The manage dialog                                                       *)

\* A request of the manage dialog, and the click that sent it; that for the list
\* after a change, of which there is one at a time, frees the dialog.
Fetch(list, row, frees) ==
  [list |-> list, of |-> row, frees |-> frees, click |-> IF frees THEN 0 ELSE clicks]

\* Mutant of Cleared: the links of the last row stay until the new ones arrive.
Uncleared(lists) == linked

\* The lists of the row are cleared before they are loaded.
Cleared(lists) == [l \in Lists |-> IF l \in lists THEN None ELSE linked[l]]

OpenManage(lists) ==
  /\ Visible
  /\ \E row \in Rows :
       /\ Opened("manage", row)
       /\ Cardinality(fetches) + Cardinality(lists) < MaxFetches
       /\ fetches' = fetches \cup {Fetch(l, row, FALSE) : l \in lists \cup {"all"}}
  /\ linked' = Cleared(lists)
  /\ preparing' = TRUE
  /\ hasty' = (fetches # {})
  /\ UNCHANGED choices

\* Somebody is linked: chosen from all users or teams.
Link(list) ==
  /\ ~preparing /\ "all" \in choices
  /\ Send("manage", list, TRUE, FALSE)
  /\ UNCHANGED <<quietVars, dialog>>

\* Somebody is unlinked: chosen from the links shown.
Unlink(list) ==
  /\ linked[list] # None
  /\ Send("manage", list, FALSE, FALSE)
  /\ UNCHANGED <<quietVars, dialog>>

\* Done: the list is loaded again, for the row that the dialog shows by now; the
\* dialog goes on submitting until it is there.  Otherwise an error is shown.
AnswerLink ==
  /\ \E i \in DOMAIN requests :
       /\ requests[i].kind = "manage"
       /\ requests' = Without(requests, i)
       /\ \/ /\ Cardinality(fetches) < MaxFetches
             /\ fetches' = fetches \cup {Fetch(requests[i].list, dialog.of["manage"], TRUE)}
             /\ UNCHANGED submitting
          \/ submitting' = submitting \ {"manage"} /\ UNCHANGED fetches
  /\ UNCHANGED <<view, server, listVars, dialog, linked, choices, preparing, hasty, clicks, own>>

\* Promise.allSettled: of one opening, everybody that could be linked comes last.
Ends(fetch) ==
  /\ fetch.list = "all" =>
       \A other \in fetches \ {fetch} : other.frees \/ other.click # fetch.click
  /\ fetches' = fetches \ {fetch}
  /\ preparing' = (preparing /\ fetch.list # "all")
  /\ submitting' = IF fetch.frees THEN submitting \ {"manage"} ELSE submitting

FetchArrives ==
  /\ \E fetch \in fetches :
       /\ Ends(fetch)
       /\ IF fetch.list \in Lists
          THEN linked' = [linked EXCEPT ![fetch.list] = fetch.of] /\ UNCHANGED choices
          ELSE choices' = choices \cup {fetch.list} /\ UNCHANGED linked
  /\ UNCHANGED <<view, server, listVars, dialog, requests, hasty, clicks, own>>

FetchFails ==
  /\ \E fetch \in fetches : Ends(fetch)
  /\ UNCHANGED <<view, server, listVars, dialog, requests, linked, choices, hasty, clicks, own>>

-----------------------------------------------------------------------------
(* The views                                                               *)

\* AdminUsersView
OpenCreateUser == view = "users" /\ OpenCreate
SubmitCreateUser == view = "users" /\ Submit("create")
OpenEditUser == view = "users" /\ OpenEdit
ToggleUser == view = "users" /\ Toggle
ConfirmDeactivateUser == view = "users" /\ Confirm
SubmitEditUser == view = "users" /\ SubmitEdit
UsersView ==
  \/ OpenCreateUser \/ SubmitCreateUser
  \/ OpenEditUser \/ ToggleUser \/ ConfirmDeactivateUser \/ SubmitEditUser

\* AdminMailboxesView
OpenCreateMailbox ==
  /\ view = "mailboxes" /\ Cardinality(fetches) < MaxFetches
  /\ Opened("create", None)
  /\ fetches' = fetches \cup {Fetch("domains", None, FALSE)}
  /\ UNCHANGED <<linked, choices, preparing, hasty>>
SubmitCreateMailbox == view = "mailboxes" /\ "domains" \in choices /\ Submit("create")
OpenEditMailbox == view = "mailboxes" /\ OpenEdit
ToggleMailbox == view = "mailboxes" /\ Toggle
ConfirmDeactivateMailbox == view = "mailboxes" /\ Confirm
SubmitEditMailbox == view = "mailboxes" /\ SubmitEdit
OpenManageUsers == view = "mailboxes" /\ OpenManage(Lists)
LinkUser == view = "mailboxes" /\ Link("users")
UnlinkUser == view = "mailboxes" /\ Unlink("users")
LinkTeam == view = "mailboxes" /\ Link("teams")
UnlinkTeam == view = "mailboxes" /\ Unlink("teams")
MailboxesView ==
  \/ OpenCreateMailbox \/ SubmitCreateMailbox
  \/ OpenEditMailbox \/ ToggleMailbox \/ ConfirmDeactivateMailbox \/ SubmitEditMailbox
  \/ OpenManageUsers \/ LinkUser \/ UnlinkUser \/ LinkTeam \/ UnlinkTeam

\* AdminTeamsView
OpenCreateTeam == view = "teams" /\ OpenCreate
SubmitCreateTeam == view = "teams" /\ Submit("create")
OpenRenameTeam == view = "teams" /\ OpenRow("edit")
SubmitRenameTeam == view = "teams" /\ Submit("edit")
OpenDeleteTeam == view = "teams" /\ OpenRow("delete")
ConfirmDeleteTeam == view = "teams" /\ Submit("delete")
OpenManageMembers == view = "teams" /\ OpenManage({"users"})
AddMember == view = "teams" /\ Link("users")
RemoveMember == view = "teams" /\ Unlink("users")
TeamsView ==
  \/ OpenCreateTeam \/ SubmitCreateTeam \/ OpenRenameTeam \/ SubmitRenameTeam
  \/ OpenDeleteTeam \/ ConfirmDeleteTeam \/ OpenManageMembers \/ AddMember \/ RemoveMember

\* FolderSettingsTab
OpenCreateFolder == view = "folders" /\ OpenCreate
SubmitCreateFolder == view = "folders" /\ Submit("create")
OpenEditFolder == view = "folders" /\ OpenRow("edit")
SubmitEditFolder == view = "folders" /\ Submit("edit")
OpenDeleteFolder == view = "folders" /\ OpenRow("delete")
ConfirmDeleteFolder == view = "folders" /\ Submit("delete")
FoldersView ==
  \/ OpenCreateFolder \/ SubmitCreateFolder \/ OpenEditFolder \/ SubmitEditFolder
  \/ OpenDeleteFolder \/ ConfirmDeleteFolder

\* RulesetSettingsTab; rulesets are created and edited in RulesetEditor.
OpenDeleteRuleset == view = "rulesets" /\ OpenRow("delete")
ConfirmDeleteRuleset == view = "rulesets" /\ Submit("delete")

\* The switch of a row shows its new position at once; one row at a time.
ToggleRuleset ==
  /\ view = "rulesets" /\ Visible /\ Click
  /\ "toggle" \notin submitting
  /\ submitting' = submitting \cup {"toggle"}
  /\ \E row \in Rows : LET was == table.shown.active[row] IN
       /\ table' = [table EXCEPT !.shown.active[row] = ~was]
       /\ requests' = Append(requests, [kind |-> "toggle", of |-> row, list |-> None,
                                        active |-> ~was, was |-> was,
                                        confirmed |-> TRUE, shown |-> TRUE])
  /\ UNCHANGED <<view, server, loads, raced, crossed, dialog, manageVars, own>>

\* After an error the row goes back, in the list that was shown when it was sent.
AnswerToggle ==
  /\ server.rev < MaxRev
  /\ \E i \in DOMAIN requests : LET request == requests[i] IN
       /\ request.kind = "toggle"
       /\ requests' = Without(requests, i)
       /\ \/ server' = Changed(request) /\ UNCHANGED table
          \/ /\ server' \in {server, Changed(request)}
             /\ table' = [table EXCEPT !.error = TRUE,
                            !.shown.active = IF request.shown
                                             THEN [@ EXCEPT ![request.of] = request.was] ELSE @]
  /\ submitting' = submitting \ {"toggle"}
  /\ UNCHANGED <<view, loads, raced, crossed, dialog, manageVars, clicks, own>>

RulesetsView ==
  \/ OpenDeleteRuleset \/ ConfirmDeleteRuleset \/ ToggleRuleset \/ AnswerToggle

Next ==
  \/ LoadArrives \/ LoadFails \/ GoNext \/ GoPrev \/ Retry \/ OtherChanges
  \/ CloseDialog \/ AnswerRequest \/ AnswerLink \/ FetchArrives \/ FetchFails
  \/ UsersView \/ MailboxesView \/ TeamsView \/ FoldersView \/ RulesetsView

Spec == Init /\ [][Next]_vars

-----------------------------------------------------------------------------
(* Properties                                                              *)

\* Nobody is deactivated unasked: a change that switches off a row which the list
\* showed as active was confirmed, in a dialog for that very row.
DeactivationConfirmed ==
  \A i \in DOMAIN requests :
    requests[i].kind = "edit" /\ ~requests[i].active /\ requests[i].was => requests[i].confirmed

\* A form is sent once: while an answer is awaited, no second request leaves a
\* dialog of the same kind, however often it is closed and opened again.
SingleSubmission ==
  \A i, j \in DOMAIN requests : requests[i].kind = requests[j].kind => i = j

\* When no request is under way, the list shows the view's own changes: it is at
\* least as new as the last one reported as done.  And the cursors lead from page to
\* page, and the list shows the page it is said to show; unless a page was turned
\* over a request still under way or a cursor's row may be gone.  All of this
\* unless the newest answer was not the last to arrive.
ListIsCurrent ==
  loads = <<>> /\ ~table.error /\ ~raced =>
    /\ table.shown.rev >= own
    /\ ~crossed /\ ~server.deleted =>
         /\ table.shown.page = Cursor
         /\ table.cursors = [i \in DOMAIN table.cursors |-> i - 1]

\* The links in the manage dialog, which its buttons remove, are those of the row
\* that the dialog was opened for; unless it was opened while requests of an
\* earlier one were under way.
ManageListBelongs ==
  dialog.kind = "manage" /\ ~hasty =>
    \A l \in Lists : linked[l] \in {None, dialog.of["manage"]}
=============================================================================
