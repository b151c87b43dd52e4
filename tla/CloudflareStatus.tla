-------------------------- MODULE CloudflareStatus --------------------------
(***************************************************************************)
(* What the view of the domains knows of the connection to Cloudflare: the *)
(* status it checks, the trip to Cloudflare and back through the           *)
(* integration view, and the dialog that adds a domain, whose error can    *)
(* tell that the connection is gone.                                       *)
(*                                                                         *)
(* The connection can be made and lost elsewhere at any time: a request    *)
(* that was under way may have met either.                                 *)
(***************************************************************************)
EXTENDS Naturals, Sequences, FiniteSets, UnderWay

CONSTANTS
  None,
  MaxChecks,    \* bound: status requests sent
  MaxTrips,     \* bound: clicks on connect, and returns to the page
  MaxChanges    \* bound: changes of the connection elsewhere

VARIABLES
  page,         \* "domains", "integration", or "away": at another site
  connected,    \* whether the worker has a connection
  oauth,        \* the state of useCloudflareOAuth
  revision,     \* status requests that are overtaken have a lower one
  checks,       \* status requests under way, in the order in which they began
  authorizing,  \* number of requests for the URL at Cloudflare under way
  addDialog,    \* the dialog of useAvailableZones
  zoneLoads,    \* number of its listings of zones under way
  adds,         \* its requests to add a domain under way
  trips, changes,
  moved         \* ghost: the connection has changed since the newest evidence

cloudflareVars == <<page, connected, oauth, revision, checks, authorizing, addDialog,
                    zoneLoads, adds, trips, changes, moved>>
addVars == <<addDialog, zoneLoads, adds>>

Fresh == [configured |-> None, checking |-> FALSE, statusError |-> FALSE,
          reconnect |-> FALSE, connecting |-> FALSE, redirecting |-> FALSE]
NoDialog == [open |-> FALSE, selected |-> FALSE, options |-> FALSE, loading |-> FALSE,
             submitting |-> FALSE]

\* checkStatus up to its await, of an oauth state and its requests.  A request meets
\* the connection as it is now or, later, as it has become.
Check(o, cs, now) ==
  /\ revision < MaxChecks /\ revision' = revision + 1
  /\ oauth' = [o EXCEPT !.checking = TRUE, !.statusError = FALSE]
  /\ checks' = Append(cs, [rev |-> revision + 1, met |-> {now}])
  /\ moved' = FALSE

\* The view is mounted.
Mounted(now) ==
  /\ page' = "domains"
  /\ Check(Fresh, <<>>, now)
  /\ authorizing' = 0
  /\ addDialog' = NoDialog /\ zoneLoads' = 0 /\ adds' = <<>>

Init ==
  /\ page = "domains" /\ connected \in BOOLEAN
  /\ oauth = [Fresh EXCEPT !.checking = TRUE]
  /\ revision = 1 /\ checks = <<[rev |-> 1, met |-> {connected}]>>
  /\ authorizing = 0
  /\ addDialog = NoDialog /\ zoneLoads = 0 /\ adds = <<>>
  /\ trips = 0 /\ changes = 0 /\ moved = FALSE

CanUseCloudflare ==
  page = "domains" /\ oauth.configured = TRUE /\ ~oauth.connecting /\ ~oauth.redirecting

Trip == trips < MaxTrips /\ trips' = trips + 1

-----------------------------------------------------------------------------
(* The status                                                              *)

\* Mutant of CheckArrives: an overtaken answer is taken all the same.
AnyCheckArrives ==
  /\ \E i \in DOMAIN checks : \E answer \in checks[i].met :
       /\ checks' = Without(checks, i)
       /\ oauth' = [oauth EXCEPT !.configured = answer, !.reconnect = @ /\ ~answer,
                                 !.checking = @ /\ checks[i].rev # revision]
  /\ UNCHANGED <<page, connected, revision, authorizing, addVars, trips, changes, moved>>

CheckArrives ==
  /\ \E i \in DOMAIN checks : \E answer \in checks[i].met :
       /\ checks' = Without(checks, i)
       /\ oauth' = IF checks[i].rev = revision
                   THEN [oauth EXCEPT !.configured = answer, !.reconnect = @ /\ ~answer,
                                      !.checking = FALSE]
                   ELSE oauth
  /\ UNCHANGED <<page, connected, revision, authorizing, addVars, trips, changes, moved>>

CheckFails ==
  /\ \E i \in DOMAIN checks :
       /\ checks' = Without(checks, i)
       /\ oauth' = IF checks[i].rev = revision
                   THEN [oauth EXCEPT !.statusError = TRUE, !.checking = FALSE] ELSE oauth
  /\ UNCHANGED <<page, connected, revision, authorizing, addVars, trips, changes, moved>>

\* The button beside the error of the last check.
CheckAgain ==
  /\ page = "domains" /\ ~oauth.checking /\ oauth.statusError /\ ~oauth.redirecting
  /\ Check(oauth, checks, connected)
  /\ UNCHANGED <<page, connected, authorizing, addVars, trips, changes>>

\* Somebody connects or disconnects, or the connection expires.
ConnectionChanges ==
  /\ changes < MaxChanges /\ changes' = changes + 1
  /\ connected' = ~connected
  /\ checks' = [i \in DOMAIN checks |-> [checks[i] EXCEPT !.met = BOOLEAN]]
  /\ adds' = [i \in DOMAIN adds |-> [met |-> BOOLEAN]]
  /\ moved' = TRUE
  /\ UNCHANGED <<page, oauth, revision, authorizing, addDialog, zoneLoads, trips>>

-----------------------------------------------------------------------------
(* To Cloudflare and back                                                  *)

\* connect; the button is shown when the last check says so.
Connect ==
  /\ Trip
  /\ page = "domains" /\ ~oauth.checking /\ ~oauth.statusError
  /\ oauth.configured = FALSE /\ ~oauth.connecting /\ ~oauth.redirecting
  /\ oauth' = [oauth EXCEPT !.connecting = TRUE]
  /\ authorizing' = authorizing + 1
  /\ UNCHANGED <<page, connected, revision, checks, addVars, changes, moved>>

Redirect ==
  /\ page = "domains" /\ authorizing > 0 /\ authorizing' = authorizing - 1
  /\ oauth' = [oauth EXCEPT !.connecting = FALSE, !.redirecting = TRUE]
  /\ UNCHANGED <<page, connected, revision, checks, addVars, trips, changes, moved>>

\* No answer, or no https URL in it.
ConnectFails ==
  /\ page = "domains" /\ authorizing > 0 /\ authorizing' = authorizing - 1
  /\ oauth' = [oauth EXCEPT !.connecting = FALSE, !.redirecting = FALSE]
  /\ UNCHANGED <<page, connected, revision, checks, addVars, trips, changes, moved>>

\* The browser follows the redirection, or the user goes to another site.
GoAway ==
  /\ page = "domains" /\ page' = "away"
  /\ UNCHANGED <<connected, oauth, revision, checks, authorizing, addVars, trips, changes, moved>>

\* Back: the browser has kept the page as it was, with its requests or without.
PageShow ==
  /\ Trip
  /\ page = "away" /\ page' = "domains"
  /\ \E kept \in {checks, <<>>} :
       Check([oauth EXCEPT !.redirecting = FALSE, !.connecting = FALSE], kept, connected)
  /\ UNCHANGED <<connected, authorizing, addVars, changes>>

\* Cloudflare sends the user on: with a code and a state, which the worker turns into
\* a connection, or with an error.
HandleCallback ==
  /\ page = "away" /\ oauth.redirecting
  /\ \/ connected' = TRUE /\ Mounted(TRUE)
     \/ /\ page' = "integration"
        /\ UNCHANGED <<connected, oauth, revision, checks, authorizing, addVars, moved>>
  /\ UNCHANGED <<trips, changes>>

\* From the integration view, Cloudflare or another view: a new instance.
ReturnToDomains ==
  /\ Trip
  /\ Mounted(connected)
  /\ UNCHANGED <<connected, changes>>

-----------------------------------------------------------------------------
(* Adding a domain                                                         *)

connectionVars == <<page, connected, revision, checks, authorizing, changes, moved>>

OpenAdd ==
  /\ Trip
  /\ CanUseCloudflare /\ ~addDialog.open
  /\ addDialog' = [NoDialog EXCEPT !.open = TRUE, !.loading = TRUE,
                                   !.submitting = addDialog.submitting]
  /\ zoneLoads' = zoneLoads + 1
  /\ UNCHANGED <<connectionVars, oauth, adds>>

\* All of them, or an error, of which only errors of the worker's own routes can
\* tell that there is no connection.
ZonesArrive ==
  /\ zoneLoads > 0 /\ zoneLoads' = zoneLoads - 1
  /\ addDialog' \in {[addDialog EXCEPT !.loading = FALSE, !.options = TRUE],
                     [addDialog EXCEPT !.loading = FALSE]}
  /\ UNCHANGED <<connectionVars, oauth, adds, trips>>

SelectZone ==
  /\ addDialog.open /\ addDialog.options /\ ~addDialog.loading /\ ~addDialog.submitting
  /\ addDialog' = [addDialog EXCEPT !.selected = TRUE]
  /\ UNCHANGED <<connectionVars, oauth, zoneLoads, adds, trips>>

CloseAdd ==
  /\ addDialog.open
  /\ addDialog' = [addDialog EXCEPT !.open = FALSE]
  /\ UNCHANGED <<connectionVars, oauth, zoneLoads, adds, trips>>

SubmitAdd ==
  /\ CanUseCloudflare /\ addDialog.open /\ addDialog.selected
  /\ ~addDialog.loading /\ ~addDialog.submitting
  /\ addDialog' = [addDialog EXCEPT !.submitting = TRUE]
  /\ adds' = Append(adds, [met |-> {connected}])
  /\ UNCHANGED <<connectionVars, oauth, zoneLoads, trips>>

\* The domain is added, or something else is wrong.
AddAnswered ==
  /\ adds # <<>> /\ adds' = Tail(adds)
  /\ \/ TRUE \in Head(adds).met /\ addDialog' = [addDialog EXCEPT !.submitting = FALSE, !.open = FALSE]
     \/ addDialog' = [addDialog EXCEPT !.submitting = FALSE]
  /\ UNCHANGED <<connectionVars, oauth, zoneLoads, trips>>

\* Newer evidence than a status request under way, which is overtaken.
HandleOperationError ==
  /\ revision' = revision + 1
  /\ oauth' = [oauth EXCEPT !.checking = FALSE, !.statusError = FALSE,
                            !.configured = FALSE, !.reconnect = TRUE]

\* There is no connection; what has changed since the worker saw that is not known.
AddNotConfigured ==
  /\ adds # <<>> /\ adds' = Tail(adds)
  /\ FALSE \in Head(adds).met
  /\ HandleOperationError
  /\ moved' = (moved \/ Head(adds).met # {FALSE})
  /\ addDialog' = [addDialog EXCEPT !.submitting = FALSE, !.open = FALSE]
  /\ UNCHANGED <<page, connected, checks, authorizing, zoneLoads, trips, changes>>

Next ==
  \/ CheckArrives \/ CheckFails \/ CheckAgain \/ ConnectionChanges
  \/ Connect \/ Redirect \/ ConnectFails \/ GoAway \/ PageShow
  \/ HandleCallback \/ ReturnToDomains
  \/ OpenAdd \/ ZonesArrive \/ SelectZone \/ CloseAdd
  \/ SubmitAdd \/ AddAnswered \/ AddNotConfigured

Spec == Init /\ [][Next]_cloudflareVars

-----------------------------------------------------------------------------
(* Properties                                                              *)

\* Once no check is under way the view says what is true: of overlapping checks, and
\* of an error that overtakes them, the newest counts; unless the connection has
\* changed since.
NewestEvidence ==
  page = "domains" /\ checks = <<>> /\ ~oauth.statusError /\ ~moved =>
    oauth.configured = connected

\* The view never ends up with nothing to do but wait: what it shows as under way is
\* a request that will end it, and when no check is under way it has a status or
\* offers another check.
StatusSettles ==
  page = "domains" =>
    /\ oauth.checking => \E i \in DOMAIN checks : checks[i].rev = revision
    /\ ~oauth.checking => oauth.configured # None \/ oauth.statusError
    /\ oauth.connecting => authorizing > 0
    /\ addDialog.loading => zoneLoads > 0
    /\ addDialog.submitting => adds # <<>>
=============================================================================
