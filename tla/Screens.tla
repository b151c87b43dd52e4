------------------------------- MODULE Screens -------------------------------
(***************************************************************************)
(* The views behind the routes, of which the router mounts one, each with  *)
(* its own state:                                                          *)
(*   admin     the administration views and settings     AdminScreens      *)
(*   mailbox   the list of a mailbox and its stores      MailboxView       *)
(*   message   a message                                 MessageView       *)
(*   editor    a ruleset                                 RulesetEditor     *)
(* and, of the view of the domains, whose parts are composables that share *)
(* no more than whether the connection can be used,                        *)
(*   cloudflare  the connection                          CloudflareStatus  *)
(*   routing     Email Routing                           RoutingStatus     *)
(*   dns         the DNS records                         DnsPanels         *)
(* The state of a view that is not mounted does not exist.                 *)
(***************************************************************************)
EXTENDS Naturals, Sequences, FiniteSets

CONSTANTS
  None,
  Rows, Views, LastPage, MaxLoads, MaxFetches, MaxRev, MaxClicks,           \* AdminScreens
  Mailboxes, Runs, Calls, MaxSyncRev,                                       \* MailboxView
  Messages, Html, Text, MaxOpenings, MaxRuns, MaxDeleted,                   \* MessageView
  RulesetIds, New, MaxIds, MaxLength, MaxBad, MaxVisits,                    \* RulesetEditor
  MaxChecks, MaxTrips, MaxChanges,                                          \* CloudflareStatus
  Domains, MaxActs,                                                         \* RoutingStatus
  Panels, GroupCount, MaxLookups, MaxToggles                                \* DnsPanels

\* Lengths and ids are counted; None is none of the values it stands beside.
ASSUME ScreensAssumption ==
  /\ MaxIds \in Nat /\ MaxLength \in Nat /\ GroupCount \in Nat /\ IsFiniteSet(Domains)
  /\ None \notin Rows \cup Mailboxes \cup Messages \cup RulesetIds \cup {New} \cup BOOLEAN
  /\ None \notin [folder : [of : Mailboxes, name : {"inbox", "other"}],
                  page : Nat, query : BOOLEAN, rev : Nat]
  /\ None # "edit"

VARIABLES
  screen,   \* the mounted view

  view, server, table, loads, dialog, submitting, requests, linked, fetches, choices,
  preparing, clicks, own, raced, crossed, hasty,

  mailboxId, syncStatus, pendingCount, accessible, syncs, inflightRuns, rev, click,
  cache, calls, inflight, inbox, listings, taps, flushed, doubled, broken, acked, outrun,

  messageId, kept, rows, rawCache, runs, message, bodyState, bodyHtml, rawHtml, bodyText,
  remoteImagesBlocked, imagesAllowed, openings, asked, strayed, late, stranded,

  editing, form, errors, isLoading, isSaving, notFound, details, saves, visits, mistaken,

  page, connected, oauth, revision, checks, authorizing, addDialog, zoneLoads, adds, trips,
  changes, moved,

  listed, canFetch, states, routingRevision, routingFetches, switches, target, switching,
  routed, acts, tangled,

  allowed, panels, revisions, lookups, toggles, opened

Admin == INSTANCE AdminScreens
Mailbox == INSTANCE MailboxView WITH
  runs <- syncs, view <- inbox, loads <- listings, clicks <- taps, raced <- outrun,
  MaxRev <- MaxSyncRev
Message == INSTANCE MessageView
Editor == INSTANCE RulesetEditor
Cloudflare == INSTANCE CloudflareStatus
Routing == INSTANCE RoutingStatus
Dns == INSTANCE DnsPanels

adminState == <<view, server, table, loads, dialog, submitting, requests, linked, fetches,
                choices, preparing, clicks, own, raced, crossed, hasty>>
mailboxState == <<mailboxId, syncStatus, pendingCount, accessible, syncs, inflightRuns, rev,
                  click, cache, calls, inflight, inbox, listings, taps, flushed, doubled,
                  broken, acked, outrun>>
messageState == <<messageId, kept, rows, rawCache, runs, message, bodyState, bodyHtml, rawHtml,
                  bodyText, remoteImagesBlocked, imagesAllowed, openings, asked, strayed, late,
                  stranded>>
editorState == <<editing, form, errors, isLoading, isSaving, notFound, details, saves, visits,
                 mistaken>>
cloudflareState == <<page, connected, oauth, revision, checks, authorizing, addDialog, zoneLoads,
                     adds, trips, changes, moved>>
routingState == <<listed, canFetch, states, routingRevision, routingFetches, switches, target,
                  switching, routed, acts, tangled>>
dnsState == <<allowed, panels, revisions, lookups, toggles, opened>>
vars == <<screen, adminState, mailboxState, messageState, editorState,
          cloudflareState, routingState, dnsState>>

NoAdmin ==
  /\ view = None /\ server = None /\ table = None /\ loads = None /\ dialog = None
  /\ submitting = None /\ requests = None /\ linked = None /\ fetches = None
  /\ choices = None /\ preparing = None /\ clicks = None /\ own = None /\ raced = None
  /\ crossed = None /\ hasty = None
NoMailbox ==
  /\ mailboxId = None /\ syncStatus = None /\ pendingCount = None /\ accessible = None
  /\ syncs = None /\ inflightRuns = None /\ rev = None /\ click = None /\ cache = None
  /\ calls = None /\ inflight = None /\ inbox = None /\ listings = None /\ taps = None
  /\ flushed = None /\ doubled = None /\ broken = None /\ acked = None /\ outrun = None
NoMessage ==
  /\ messageId = None /\ kept = None /\ rows = None /\ rawCache = None /\ runs = None
  /\ message = None /\ bodyState = None /\ bodyHtml = None /\ rawHtml = None
  /\ bodyText = None /\ remoteImagesBlocked = None /\ imagesAllowed = None
  /\ openings = None /\ asked = None /\ strayed = None /\ late = None
  /\ stranded = None
NoEditor ==
  /\ editing = None /\ form = None /\ errors = None /\ isLoading = None /\ isSaving = None
  /\ notFound = None /\ details = None /\ saves = None /\ visits = None /\ mistaken = None
NoCloudflare ==
  /\ page = None /\ connected = None /\ oauth = None /\ revision = None /\ checks = None
  /\ authorizing = None /\ addDialog = None /\ zoneLoads = None /\ adds = None
  /\ trips = None /\ changes = None /\ moved = None
NoRouting ==
  /\ listed = None /\ canFetch = None /\ states = None /\ routingRevision = None
  /\ routingFetches = None /\ switches = None /\ target = None /\ switching = None
  /\ routed = None /\ acts = None /\ tangled = None
NoDns ==
  /\ allowed = None /\ panels = None /\ revisions = None /\ lookups = None
  /\ toggles = None /\ opened = None

\* The route has mounted its view.
Init ==
  \/ /\ screen = "admin" /\ Admin!Init
     /\ NoMailbox /\ NoMessage /\ NoEditor
     /\ NoCloudflare /\ NoRouting /\ NoDns
  \/ /\ screen = "mailbox" /\ Mailbox!Init
     /\ NoAdmin /\ NoMessage /\ NoEditor
     /\ NoCloudflare /\ NoRouting /\ NoDns
  \/ /\ screen = "message" /\ Message!Init
     /\ NoAdmin /\ NoMailbox /\ NoEditor
     /\ NoCloudflare /\ NoRouting /\ NoDns
  \/ /\ screen = "editor" /\ Editor!Init
     /\ NoAdmin /\ NoMailbox /\ NoMessage
     /\ NoCloudflare /\ NoRouting /\ NoDns
  \/ /\ screen = "cloudflare" /\ Cloudflare!Init
     /\ NoAdmin /\ NoMailbox /\ NoMessage
     /\ NoEditor /\ NoRouting /\ NoDns
  \/ /\ screen = "routing" /\ Routing!Init
     /\ NoAdmin /\ NoMailbox /\ NoMessage
     /\ NoEditor /\ NoCloudflare /\ NoDns
  \/ /\ screen = "dns" /\ Dns!Init
     /\ NoAdmin /\ NoMailbox /\ NoMessage
     /\ NoEditor /\ NoCloudflare /\ NoRouting

Next ==
  \/ /\ screen = "admin" /\ Admin!Next
     /\ UNCHANGED <<screen, mailboxState, messageState, editorState,
                    cloudflareState, routingState, dnsState>>
  \/ /\ screen = "mailbox" /\ Mailbox!Next
     /\ UNCHANGED <<screen, adminState, messageState, editorState,
                    cloudflareState, routingState, dnsState>>
  \/ /\ screen = "message" /\ Message!Next
     /\ UNCHANGED <<screen, adminState, mailboxState, editorState,
                    cloudflareState, routingState, dnsState>>
  \/ /\ screen = "editor" /\ Editor!Next
     /\ UNCHANGED <<screen, adminState, mailboxState, messageState,
                    cloudflareState, routingState, dnsState>>
  \/ /\ screen = "cloudflare" /\ Cloudflare!Next
     /\ UNCHANGED <<screen, adminState, mailboxState, messageState,
                    editorState, routingState, dnsState>>
  \/ /\ screen = "routing" /\ Routing!Next
     /\ UNCHANGED <<screen, adminState, mailboxState, messageState,
                    editorState, cloudflareState, dnsState>>
  \/ /\ screen = "dns" /\ Dns!Next
     /\ UNCHANGED <<screen, adminState, mailboxState, messageState,
                    editorState, cloudflareState, routingState>>

Spec == Init /\ [][Next]_vars

-----------------------------------------------------------------------------
(* Properties of the view that is mounted                                  *)

\* Nobody is deactivated unasked by the administration views.
DeactivationConfirmed == screen = "admin" => Admin!DeactivationConfirmed

\* A form is sent once, however often its dialog is closed and opened again.
SingleSubmission == screen = "admin" => Admin!SingleSubmission

\* A settled list shows the changes made here, and the page it is said to show.
ListIsCurrent == screen = "admin" => Admin!ListIsCurrent

\* The links in a manage dialog are those of its row.
ManageListBelongs == screen = "admin" => Admin!ManageListBelongs

\* The spinner of a mailbox belongs to a run that will stop it.
SyncingMeansRunning == screen = "mailbox" => Mailbox!SyncingMeansRunning

\* A mailbox is called synced only after a flush of it.
SyncedWasFlushed == screen = "mailbox" => Mailbox!SyncedWasFlushed

\* The folder cache never mixes mailboxes.
CacheBelongs == screen = "mailbox" => Mailbox!CacheBelongs

\* The folder cache does not call itself ready over a change.
ReadyIsFresh == screen = "mailbox" => Mailbox!ReadyIsFresh

\* A list that has settled shows the folder, page and search it is for.
ListSettles == screen = "mailbox" => Mailbox!ListSettles

\* The body shown is that of the message in the route.
BodyBelongs == screen = "message" => Message!BodyBelongs

\* Remote content is shown only of the message it was asked for.
RemoteOnAsking == screen = "message" => Message!RemoteOnAsking

\* A ruleset is saved with its own values, and its errors stay with their rows.
FormBelongs == screen = "editor" => Editor!FormBelongs

\* The newest evidence of the connection to Cloudflare counts.
NewestEvidence == screen = "cloudflare" => Cloudflare!NewestEvidence

\* The routing status of a domain is Cloudflare's.
RoutingShown == screen = "routing" => Routing!RoutingShown

\* A DNS panel is open as its button was last clicked, and ends what it began.
PanelsAsAsked == screen = "dns" => Dns!PanelsAsAsked

\* What a view shows as loading, checking or under way is: a request that has not
\* been overtaken will end it.
WaitingEnds ==
  /\ screen = "message" => Message!LoadingEnds
  /\ screen = "editor" => Editor!LoadingFormEnds
  /\ screen = "cloudflare" => Cloudflare!StatusSettles
  /\ screen = "routing" => Routing!RoutingArrives
=============================================================================
