# A verification project for runmail

runmail is a webmail system on Cloudflare Workers. Inbound email is stored in R2
(the raw message) and D1 (the metadata); a browser client keeps a copy of a
mailbox's metadata in IndexedDB, follows the server through a versioned event log
and works optimistically on the copy. Administrators manage accounts, mailboxes,
teams, domains and rulesets. This directory holds TLA+ models of the server, of the
client and of its screens, TLC configurations that check them on small instances,
and TLAPS proofs of the properties that matter most.

    tlc -workers 2 -config StoreHandlers.cfg MCMailboxStore
    tlapm MailboxStoreProofs.tla

`PROJECT.json` lists the components, the runs, the source lines behind every
definition, the hazards and the findings.

## 1. Inventory

Paths are below `apps/worker/src` (worker), `apps/web/src` (web) and
`packages/shared/src` (shared) of the repository.

| Part | State it keeps | Operations | What is hard | What makes it correct | Model |
|---|---|---|---|---|---|
| Inbound email (worker `handler/inbound`) | a row, a raw object, an event | read rulesets, choose folder, put raw, commit batch, clean up | the folder or the rulesets change meanwhile; the batch fails after the put | no row without its raw email; an existing folder; a decision of rulesets that matched | MailboxStore, Rulesets |
| Message handlers (`modules/messages/service.ts`) | rows, counter, events | set flag, move, permanent delete | each reads, awaits, then writes by id | only mail once trashed is destroyed; the log tells what the table shows | MailboxStore |
| Versions and log (`lib/allocate.ts`, `sync_events`) | counter, events | bump and insert in one batch, prune | concurrent batches; pruning by time | dense versions, a faithful redo log | DeltaLog, MailboxStore |
| Folders (`modules/folders`) | folders, rows | delete with re-homing in batches | messages moved in between two batches | no row stranded in a dropped folder | MailboxStore, Rulesets |
| Retention job (`modules/retention`) | rows, raw objects, events | expire, prune | runs minutes against all handlers; crash; a chunk fails | expired mail goes | MailboxStore |
| Sync API (`getSyncDelta`, `listMessages`, `processMutations`) | none | delta after a cursor, snapshot pages, batched mutations | two queries without a transaction; pruning gaps | what is answered leads to the server's table | SyncEngine, MutationQueue |
| Client engine (`sync/engine.ts`, `sync/events.ts`) | local tables, cursor | delta run, full resync | crash at any await, replay over newer rows | the local table becomes the server's | SyncEngine |
| Client queue (`sync/queue.ts`) | `sync_queue`, optimistic rows | enqueue, flush, reconcile | lost answers, resends, rejections | no click forgotten, rejected clicks rolled back | MutationQueue |
| Sessions (worker `modules/auth`; web `stores/auth.ts`) | refresh tokens, stored token, access token | login, rotate, logout, change password, deactivate | tabs sharing one token, lost answers, races with revocation | one live token per session; no tab loses the session of the others | AuthSession |
| Rules engine (`lib/rules-engine.ts`) | none | evaluate | priorities, case, bounded regular expressions | the decision is the declared one | RulesEngine |
| Rulesets (`modules/rulesets`) | rulesets, conditions, actions | create, replace, toggle, delete | three tables, three reads, a mixture of versions | what is stored is what one form sent, whole, but for a toggle over another write | Rulesets |
| Users, mailboxes, teams, domains, setup, access check (`modules/*`, `middleware/*`) | accounts, links, the setup flag | administration, `requireMailboxAccess` | stale tokens, deletions between a SELECT and its insert | an administrator stays; links resolve; who may enter is let in | Directory |
| Cloudflare integration (`lib/cloudflare-auth.ts`, `modules/cloudflare`) | the token column, a cache per isolate | refresh, connect, disconnect | single flight per isolate only; rotation whose answer is lost | the column is what the administrator asked for | CloudflareToken |
| Mailbox and folder stores, inbox view (web `stores/mailbox.ts`, `stores/mailbox-folders.ts`, `composables/use-folder-messages.ts`) | open mailbox, sync status, folder cache, list | open, run sync, load, invalidate, page, search | switching while loads and runs are under way | a view shows what it is open for | MailboxView |
| Message view (`composables/use-email-body.ts`, `lib/raw-cache.ts`) | body, cache of raw emails | load, allow remote content, next, previous | the route changes under a load | the body is that of the message in the route | MessageView |
| Administration views, folder and rule settings (`views/Admin*.vue`, `components/email`) | a list, dialogs, a form | page, create, edit, delete, link | dialogs reopened over requests, answers out of order | a form is sent once; lists are current | AdminScreens, RulesetEditor |
| View of the domains (`views/AdminDomainsView.vue` and its composables) | connection, routing and DNS states | check, connect, add, switch, look up | overlapping checks with revisions | the newest evidence counts | CloudflareStatus, RoutingStatus, DnsPanels |
| Router, login, setup and profile forms, translations, icons, zod schemas | – | – | presentation | – | Screens (which view is mounted); else not modelled |

How they interact: everything that changes a message goes through one D1 batch
that also bumps the mailbox's counter and inserts the event, so the handlers and
the jobs meet in the tables of MailboxStore only. Clients see the tables through
the log (delta) and through page queries (snapshot); the tabs of one browser
profile share one IndexedDB and one `localStorage`. A view talks to stores and
composables that go on when it is gone. There are no locks across tabs or isolates,
and no transaction spans two statements outside a batch.

## 2. Modules

    SyncEvents        vocabulary: rows, events, applySyncEvent
      DeltaLog        what the server of one mailbox promises (abstract)
      MailboxStore    the server, statement by statement     -> implements DeltaLog
        MailboxStoreProofs
      SyncEngine      a profile following a server            (server = DeltaLog's Append)
        SyncEngineProofs  (the queue's theorems too)
        MutationQueue clicks, flushes and the worker's processMutations on top
    AuthSession       refresh tokens of one user
      AuthSessionProofs
    RulesEngine       evaluateRulesets, and the decision without its loop
      Rulesets        the tables of rulesets, their requests, the inbound reader
        RulesetsProofs
    Directory         accounts, links, setup, access checks
      DirectoryProofs
    CloudflareToken   the worker's connection to Cloudflare
      CloudflareTokenProofs
    UnderWay          the requests of a view, in the order they began
      Screens         the views behind the routes, one of which is mounted
        AdminScreens, MailboxView, MessageView, RulesetEditor,
        CloudflareStatus, RoutingStatus, DnsPanels
        MailViewsProofs, ScreensProofs
    MC*               model values, symmetry and constraints for TLC

Common conventions. An asynchronous function is cut at every `await` that reaches
a database, a bucket or the network: each piece is an action, and `req[r]`,
`run[t]`, `flush[t]`, `handler[h]`, `loads`, `runs`, `fetches` hold what it carries over. A D1
`batch` and a Dexie transaction are one step. A request may fail or its isolate
or tab may disappear at any of these points. Headers, bodies, names, hashes and
formats are abstracted away; a message is its id, its flags, its folder, its
retention stamp and its version. A variable marked "ghost" is not in the code: it
remembers an order of events for a property. A definition said to be a mutant of
another is that definition with a plausible bug; no specification uses it.

**SyncEvents** holds the row, the four event types and `ApplySyncEvent`, the
client's `applySyncEvent`. System folders other than inbox, spam and trash get no
special treatment in the code and are represented by the inbox.

**MailboxStore** has `messages`, `last_version`, `sync_events`, `folders`,
`bucket`, `clock` and the running handlers.

| Code | Actions |
|---|---|
| `handleInboundEmail` | ReceiveEmail, PutRawEmail, CommitEmail; RejectEmail and DeleteRawEmail when the batch fails; Fail when the put does |
| `setMessageRead`, `setMessageStarred` (`setFlag`) | LoadForFlag, CommitFlag |
| `moveMessage` | LoadForMove, FindTargetFolder, CommitMove |
| `permanentDelete` | LoadForDelete, CheckInTrash, CommitDelete, DeleteRawEmail |
| `deleteFolder` | LoadFolder, SelectMessages, RehomeChunk, RehomeLastAndDrop |
| `runRetentionCleanup` | StartRetention, CommitRetentionChunk, SkipRetentionChunk (its batch failed), DeleteChunkRaw, PruneSyncEvents, RetentionCrash |

What D1 is relied on for, here and in Rulesets and Directory: a batch is atomic,
statements of different batches are serialised, and the foreign keys and unique
indexes of the migrations hold. The order in which a batch numbers its messages is
arbitrary (`Orders`).

**DeltaLog** is the contract between the two sides: every change of the table is
an `Append` of events numbered densely, at most one per message, whose effect on
the table is `ApplySyncEvent`; besides that, any events may vanish. MailboxStore
implements it (`RedoLog`, through `Log == INSTANCE DeltaLog WITH ...`), and
SyncEngine's server is built from the same `Append` and `Prune`, so what holds of
the client holds against the real server. In particular pruning may leave any
events, not only the newest: the code prunes by timestamps.

**SyncEngine** follows `doRunDeltaSync` action by action: AskDelta and AnswerDelta
(the two queries of `getSyncDelta`), ApplyEvent for each event of a page,
ClearMessages / ListMessages / PutPage / SaveWatermark for the full resync,
ListFolders / ClearFolders / PutFolders, Finish. The ghosts `history` and
`unsignalled` are the server's table at every version, and whether some answer has
passed over pruned events without saying so. `NeverStale`, `SyncedTable` and
`QueueDrains` are conditional on `~unsignalled` because the code really has that
gap (section 5).

**MutationQueue** adds the queue. A POST lives on its own: the client may give up
on it while the worker goes on. Whatever `processMutations` throws is answered as
rejected; a mutation that has nothing to change (`NoOp`: the flag has the value, the
message is in the folder) is answered ok and commits nothing, no event and no version,
which is what a click sent again usually meets. A rejected message is fetched again after
the flush. The browser stamps an optimistic move with its own clock (`BrowserNow`), the
worker with its own; the ghost `restamped` names messages whose stamp no event will
correct.

**AuthSession** has the refresh-token table, the user's active flag, the requests
in the worker, the token each browser profile stores and each tab's access token
and waiting call. Rotation is the claim (one `UPDATE .. WHERE revoked_at IS NULL
RETURNING`), the read of the user, and the insert, three separate statements. A
network error is GiveUp: the request may or may not have taken place.

**RulesEngine** is pure. A text is a sequence of letters with upper and lower case;
`EvaluateRulesets` is the code's loop over rulesets in order of priority and id,
with the loop over the actions of each inside, written as recursive functions on the
number of turns; `Decides` says what it should be without a loop: the last move of the
acting rulesets, and the flags any of them sets.

**Rulesets** cuts `createRuleset`, `updateRuleset`, `deleteRuleset` and the toggle of
the settings page (two reads, then a replacement) at their awaits: BeginCreate/
Update/Delete/Toggle, ValidateFolders, SelectRuleset, GetConditions, GetActions,
CommitCreate/Update/Delete; LoadFolder and DropFolder are `deleteFolder`, and
SelectEnabled, SelectConditions, SelectActions, ChooseFolder, StoreMail are the inbound
handler. The two halves of its `Promise.all` come in either order. The ghost `submitted`
holds what forms have sent, from the moment they send it; a toggle sends nothing of its own,
it puts back what it has read. Another write between its reads makes it *torn*, and a
ruleset that a torn toggle has stored is *mixed* until a form replaces it.

**Directory** has the tables of users, teams, domains, mailboxes and their three link
tables, the setup flag and the administrators' access tokens, whose role may be
stale. Setup is BeginSetup, InsertAdmin, CompleteSetup, and may die in between;
users are created and edited in two steps (BeginCreateUser / CreateUser,
BeginUpdateUser / UpdateUser), links made in two (FindMember / AddTeamMember,
FindTeam / LinkTeam); `requireMailboxAccess` is CheckMailbox, CheckDirect, CheckTeam.

**CloudflareToken** has the token column, a cache and a `refreshPromise` per isolate,
and Cloudflare as an external server that accepts every refresh token of a grant
once. Join waits for the refresh of another request; Refresh, ReadToken, Exchange /
Refused / ExchangeFails / RotationLost, StoreRotated, CacheRotated are
`getCloudflareAccessToken`; callback and disconnect follow.

**Screens** mounts one of seven views; the state of the others does not exist, so
that each view is checked by itself on its own small instance, in one run. Each of
the view modules is complete of itself (`MessageView` is also run alone).

| Module | Code | State and actions |
|---|---|---|
| AdminScreens | the three administration views, the folder and the ruleset settings, `use-cursor-pagination.ts`, `use-form-submit.ts`, `paginate-all.ts` | the list with page and cursors, its requests; a dialog of each kind (create, edit, delete, manage) with its submission; the links of the manage dialog. Answers are AnswerRequest, LoadArrives, FetchArrives, AnswerLink and their failures; OtherChanges is another administrator. |
| MailboxView | `stores/mailbox.ts`, `stores/mailbox-folders.ts`, `use-folder-messages.ts`, `use-mailbox-workspace.ts` | runSync (DeltaApplies, DeltaEnds, FlushEnds, RunCounted) in which callers share a delta run but not a flush; the folder store (Load, Published, Enqueued); loadMessages (LoadPending, LoadRows, LoadTotal). |
| MessageView | `MessageDetailView.vue`, `use-email-body.ts`, `use-message-siblings.ts`, `raw-cache.ts` | loadMessage as RowArrives, LoadSiblings, GetCachedRaw, FetchRawEmail, PutCachedRaw, Parsed; the route, remote content, deletion elsewhere. |
| RulesetEditor | `RulesetEditorTab.vue` | the form and its errors row by row, loads and saves under way, the route. |
| CloudflareStatus | `use-cloudflare-oauth.ts`, `use-available-zones.ts`, the integration view | checks with their revision, the trip to Cloudflare and back, the dialog that adds a domain. |
| RoutingStatus | `use-domain-routing-status.ts` and its dialogs | the status of each domain, fetched one after the other; switches. |
| DnsPanels | `use-domain-dns-records.ts`, `DomainDnsPanel.vue`, `doh-verify.ts` | panels, their revisions, the lookups of groups. |

## 3. Runs

| Run | Kind | What it shows |
|---|---|---|
| store_handlers | pass | Two handlers of any kind interleave over two messages and a custom folder: rows keep their raw email and an existing folder, carry their newest event, and the log is a redo log (the refinement to DeltaLog). |
| store_retention | pass | One handler against the retention job as time passes: the retention clock, only mail once in Trash or Spam is destroyed, and expired mail goes eventually. |
| engine_runs | pass | One tab against a committing and pruning server, runs cut off anywhere: a finished run leaves the server's table at its cursor, and at every moment no row is older than the persisted cursor. |
| queue_flush | pass | Two clicks and two POSTs with lost answers and closed tabs: no click is lost before it was answered; a row shows a pending click or something the server has shown since the cursor. |
| queue_drains | pass | A move, and a custom folder that may go: when requests stop failing and the mailbox is quiet, queue and tables converge (liveness), but for the retention stamp of a move that was none. |
| session_rotation | pass | Two tabs of one profile and one of another refresh, log in and out, change the password, reload and lose answers: rotation never forks a session, and a stored token is accepted, or its successor is on its way, or the session was ended on purpose or its rotation's answer was lost. |
| session_tabs | violation | Three tabs refresh: the one whose retry is overtaken removes the live token the others have just stored. |
| ruleset_requests | pass | Two requests on two rulesets, and a message that reads them meanwhile: what is stored is what one form sent, whole, or what a toggle that read over another write put together; an undisturbed message is decided as declared, and a disturbed one is touched only by rulesets that matched. |
| directory | pass | Two requests at a time and any tokens: an active administrator stays unless one who had lost the role went on, links resolve, and access that held all along is never refused. |
| cloudflare_connection | pass | Two isolates, three requests, two grants: no isolate presents a token it has replaced, the column is what was asked for unless writers overlapped, and an isolate told to forget a grant does. |
| screens | pass | Seven views with late, reordered, failed and lost answers: what a view shows, sends and waits for belongs to what the user has open. |
| raw_cache | violation | The reader goes on while a raw email is fetched: it is cached under the id of the next message. |

Each violation is a finding of `PROJECT.json`, with the lines it contradicts. In
passing runs, a property that does not hold in one known order of events says so: a
ghost remembers that this order has occurred (`raced`, `hasty`, `late`,
`tangled`, `overruled`, `disturbed`, ...), and the property speaks of all other
behaviours. Section 5 lists those orders.

### Bounds and why they are enough

- *Messages* 1–2, *Requests* 2: every race in the server is between two handlers
  over one message, or between a handler and a job over a set; two messages make
  batches with more than one event and chunk boundaries (chunk sizes 1 and 2).
- *MaxVersion* 2–3: no handler (or commit) starts beyond it. Three commits are
  create, one change and the change racing it, or a page boundary
  (*DeltaLimit* 2) with one event beyond.
- *MaxTime* 2 with ages of 1: a message can expire, be rescued, and expire again.
- *PageSize* 1 with two messages: arrivals and deletions between two pages.
- *Flags*: one flag is enough, since flags are independent columns.
- *Posts*, *MaxMutations* 1–2, *FlushChunk* 1: a resend overlapping its lost
  original, and a second chunk. The liveness run has one click, a move, which may be
  answered with an event, without one, or not at all.
- *Tokens* 3, *Handlers* 2–3, *Tabs* 3: two sessions and one rotation, or a
  session rotated twice, on one or two profiles.
- Rulesets: *Ids* 2 with two inputs that differ in priority, operator, moves and
  match types, and two messages; `MaxVersions` lets the contents of two forms be sent for
  the first ruleset, so that versions can mix, and `Toggled` ends its toggles when both
  have been sent and none is mixed.
- Directory: two users and names, one of each other kind, two requests; bodies
  change one field (`OneField`). Two users suffice to take each other out, two
  requests to delete between a SELECT and its insert.
- CloudflareToken: two isolates, three requests (a refresh in each and an
  administrator), two grants (*MaxGrants*), one rotation of each (*MaxSpent*). The
  VIEW `Undisturbed` identifies states that differ only in the histories `asked` and
  `forgotten` after `disturbed`: no action reads them, and both properties that do hold
  trivially from there on.
- Screens: two interchangeable values stand for rows, mailboxes, messages, rulesets,
  domains and panels, and a third for a text message. Two loads, three fetches, three
  clicks: enough to open, leave and come back over a request under way. *MaxChecks* 4
  and *MaxTrips* 5 cover a trip to Cloudflare and back over an older check;
  *MaxToggles* 4 is open, close, open with a retry; *GroupCount* 3 is the code's.
  *MaxBad* 1 marks one row of the ruleset form at a time, next to rows that are not
  marked: enough for an error to end up at the wrong row. The state of a view that the
  user has left is reset to its initial value, since it no longer exists.
- `CONSTRAINT Unsettled` cuts safety runs of SyncEngine and MutationQueue at
  `Settle`, after which only steps that were possible before are; it is not used in
  the liveness run. `Quiet` (session_tabs) keeps the counterexample free of failures.
- Symmetry is used in runs without liveness properties only.

Deadlock is checked except in directory, screens and raw_cache: there a bound on
clicks, openings or names may leave nothing to do, and an idle system may stop.

### Fairness

- `FairSpec` (MailboxStore): weak fairness of the retention job's start and steps,
  since the cron trigger fires every day and a run carries on unless it crashes;
  strong fairness of the deleting batch, because D1 may fail it, but not forever.
- `QFairSpec` (MutationQueue): weak fairness of a tab's sync and flush (the
  five-minute timer, `openMailbox`, and a run goes on until it ends) and of the
  worker on a request it has accepted. Nothing obliges the network to work:
  `QueueDrains` has `<>steady` as antecedent, a step `Settle` that may happen at any
  time and after which no request fails and no tab is closed; that the mailbox
  falls quiet is the effect of MaxVersion.
- The views have no fairness: whether a server answers is not theirs to say. That
  waiting can end is stated as an invariant instead (`WaitingEnds`,
  `SyncingMeansRunning`): whatever is shown as under way is a request that has not
  been overtaken and will clear it, whether it succeeds or fails.

## 4. Proofs

All are for arbitrary sets (finite where the assumptions say so) of messages, folders, flags,
handlers, tokens, tabs, devices, rulesets, accounts, teams, mailboxes, domains and requests,
and for every bound. They rest on the named assumptions of the modules, which TLC
evaluates for each run:

- model values stay outside of the sets they are not members of (`AbsentAssumption`,
  `NullAssumption`, `AuthAssumption`, the first part of `DirectoryAssumption`, most of
  `ScreensAssumption`), and so do names that are used as tags: the way `"direct"` is
  no team, the mutation `"move"` no flag, `None` no row, mailbox, list or dialog;
- a mailbox starts with finitely many rulesets (an initial condition of Rulesets);
- bounds, page and chunk sizes are numbers, chunk and page sizes at least one;
- `Messages` (MailboxStore, SyncEngine) and `Domains` (Screens) are finite, system and
  custom folders disjoint, `Rank` (the order of the listing) injective, `DeviceOf` maps tabs
  to devices, and inputs, patches and mutations are of their types.

| Theorem | Statement |
|---|---|
| TypeCorrect | `Spec => []TypeOK` of MailboxStore |
| StoreImplementsLog | `Spec => RedoLog`: MailboxStore refines DeltaLog |
| InvariantHolds | `Spec => []IInv` of MailboxStore |
| StoreSafe, RowsKeepFolders, ClockFollowsFolder, RowsShowNewest | RowHasRaw, RowInExistingFolder, RetentionClock, NewestEventOfRow always hold |
| DestroysOnlyTrashed | `Spec => DestroyedOnlyAfterTrash` |
| RunsLeaveTheServersTable, RowsAreNeverStale | `Spec /\ []OneAtATime => SyncedTable`, `... => []NeverStale` of SyncEngine |
| OneTabIsInSync | with one tab, `Spec => SyncedTable /\ []NeverStale` |
| ClicksAreKept | `QSpec => []NoMutationForgotten` of MutationQueue |
| RowsShowServerOrClicks | `QSpec /\ []OneBusy => []ShowsServerOrPending` of MutationQueue |
| OneTabShowsServerOrClicks | with one tab, `QSpec => []ShowsServerOrPending` |
| RunsLeaveTheServersRows | under `[]OneBusy`, a run ends with the flags and folders of the server's rows but for pending clicks (`SyncedButForClicks`) |
| RotationNeverForks, StoredTokensUsable | OneTokenPerSession, StoredTokenUsable of AuthSession always hold |
| RulesetsStoredWhole | `Spec => []StoredWhole` of Rulesets |
| UndisturbedDecisionsAgree, OnlyMatchesAct | DecisionAgrees, ActsOnlyOnMatch of Rulesets always hold |
| DirectoryInvariant | `Spec => []DirectoryInv` of Directory |
| AdministratorStays, LinksAlwaysResolve, KeptAccessAdmits | AdminStays, LinksResolve, KeptWayAdmits of Directory always hold |
| TokensPresentedOnce, ColumnFollowsAdministrator, DisconnectIsRemembered | PresentsOnce, ColumnAsAsked, DisconnectForgets of CloudflareToken always hold |
| UnaskedNever, FormsAreSentOnce, ListsFollow, LinksAreThoseOfTheRow | DeactivationConfirmed, SingleSubmission, ListIsCurrent, ManageListBelongs of Screens always hold |
| SpinnersHaveARun, SyncedIsEarned, CachesDoNotMix, ReadyCachesAreFresh, ListsSettle | SyncingMeansRunning, SyncedWasFlushed, CacheBelongs, ReadyIsFresh, ListSettles |
| BodiesBelong, ImagesOnAsking, FormsKeepTheirRuleset | BodyBelongs, RemoteOnAsking, FormBelongs |
| NewestEvidenceCounts, RoutingIsCloudflares, PanelsFollowTheirButtons | NewestEvidence, RoutingShown, PanelsAsAsked |
| WaitingIsForSomething | WaitingEnds |

*The store.* None of its four safety properties is inductive: a handler that is about to
write must carry something that makes its write harmless. `IInv` adds exactly
that. `CreatingIsPrivate`: an id under ingestion is known to its handler alone and
its raw email is stored by the time the batch runs, so the insert cannot collide
and no delete can precede it. `RawDeletesAreLate`: whoever is about to delete a raw
email has already deleted the row, and ids are not reused (`IdsAreIngested`).
`DoomedWereTrashed`: whoever is about to delete a row read it in Trash or Spam.
`PendingStamps`: folder and stamp travel together. `VersionsBounded`: a row is not
ahead of the counter. The proof groups steps by what they touch: `Quiet` for all
reads, `CommitOne` and `CommitMany` for batches, and one short lemma per action
that instantiates them.

*The refinement.* A batch with one event is an `Append` (AppendOne), a batch over a
set is one in any order (AppendMany); all other steps stutter or prune.

*The client engine.* The two properties compare tables of different moments while a run is
somewhere in between, so the invariant needs a relation that a half-applied log keeps. Two
rows *agree but for a log* (`Agrees`) when each field in which they differ is the
business of some event of that log, and a table *follows* a log (`FollowsLast`)
when it shows what the last event about each thing says. A commit adds its event to
the log (`CommitAgrees`, `CommitFollows`), a client that applies an event of the log keeps the
agreement, and the oldest event can be dropped once it is applied; with an empty
log the tables are equal. `EngineInv` says for each stage of a run which tables agree but for
which log: the local table with the server's but for what comes after the persisted cursor
(`RestAgrees`), a replay with the server's but for what it has yet to apply or ask for
(`ReplayAgrees`), with the table at its cursor but for what it has in hand
(`EndAgrees`), a resync page by page (`ResyncAgrees`). `StaleInv` says that rows and what a
tab has copied were shown at or after the cursor. All of it speaks of logs that are
complete after some version (`NoGap`); where pruning has made a hole, the answer that
passes over it sets `unsignalled`. The theorems have `[]OneAtATime` as antecedent, that runs
of different tabs do not overlap: without it they are false (section 5, two
tabs), and OneTabIsInSync shows that `inflightRuns` provides it within a tab. `EngineInv` is
said of any table, not of the variable `local`: every step of a run that keeps it for one
table keeps it for another that goes through the same clearing, pages and events
(`RunKeeps`, `Mirrored`). The two theorems take the local table itself (`LocalInv`), the
queue takes another.

*The queue.* What a flush deletes are the rows of a POST that was answered in full, but
the client only knows that an answer has come: `QueueInv` ties each waiting tab to a POST of
its own whose remaining work and answers together are the rows it sent (`PostOfItsOwn`), and
lets only answered rows be deleted (`DeletesAnswered`).

*What rows show under clicks.* With optimistic writes in it the local table is no longer one
that EngineInv describes, and which fields are to blame changes from step to step. `ClickInv`
says instead that there is a table for which EngineInv stands and which the local one equals
(`ButForClicks`) but for fields that show a click in the queue, or rows that a flush is
going to fetch or has failed to fetch. A click changes only the local table. The interesting
step is `DeleteRow`, where a field loses its excuse: its click is either refused, and the
message waits to be reconciled, or it is *settled* (`Settled`): the server's row has had its
value at some version from the persisted cursor on. An event of the click's own is not
needed for that, and an answer ok without one is what shows it: the worker found the value
in the row, and the cursor is not ahead of the row. The other table then takes the value
over (`RowSettled`), before any delta run has brought it. Settled clicks and fetched rows stay so while the
server goes on (`SettledStays`, `FetchedStays`), because the cursor does not move during a
flush: that is what `[]OneBusy`, one tab synchronising (run or flush) at a time, is needed
for. Fields are flags and the folder; of the retention stamp, which the browser guesses,
nothing is claimed. ShowsServerOrPending follows, and when a run ends the other table is the server's
(`FinishKeeps`), so nothing of a refused or overtaken click is left.

*The sessions.* `RotationInv` adds that a session whose token is claimed has no
live token and no second claim on its way (`RotationIsExclusive`), and that the
session named by a token exists (`SessionsAreIssued`, so a fresh login cannot join
an old session). Revocations, expiry and all client steps only revoke or drop
requests (`QuietStepKeepsRotation`); only ClaimToken and InsertToken need an
argument. `StoredTokenUsable` needs to know who waits for what: what a tab waits for
is what its request is about (`WaitsForOwn`), nobody else waits for it (`OneWaiter`),
and a rotation without a waiting tab has been written off (`HeadlessWrittenOff`), so
a claim kills a stored token only when that token's own tab will replace it; a
granted token is known to nobody else until its tab stores it (`GrantedIsPrivate`,
`MentionedAreIssued`), and no two devices hold the same one (`OneDevice`).

*The rulesets.* What forms send is recorded when they send it (BeginCreate, BeginUpdate),
never when something is stored, so `StoredWhole` compares the tables with it. The invariant
adds what requests carry (`Sent`): one that is not torn carries the contents of one form, a
torn one a row, conditions and actions that forms sent at some time. Each commit
replaces the rows of all three tables or of none, an update of a ruleset that has gone
fails on its foreign key before it leaves anything behind, and `deleteFolder` takes the flag
alone. What needs care is the toggle: while it reads an undisturbed ruleset, what it has
read and what the tables still hold belong to one form, and every write of the ruleset makes
it torn.

*The rules engine.* `EvaluationDecides` proves, for every finite set of rulesets with
different ids and every message, that the two nested loops compute what `Decides` says. The
library's induction theorems cannot be instantiated here (they take an operator), so a loop is
handled with the least number principle, which takes a set: a loop has a run (`LoopRuns`),
and if some turn left the loop's invariant (`Acted` for actions, `Turned` for rulesets), the
least such turn would have a predecessor that keeps it. The sort is an argument of
its own (`SortedExists`, `InOrderSorts`). `MailInv` then carries it through the inbound
handler: a message that reads holds rows, conditions and actions that were each
submitted at some time, and as long as no change has disturbed it, those of the tables
at its first query.

*The directory.* `AdminStays` does not survive a step by itself: `DirectoryInv` adds that an
administrator is there from the first account on, before the setup is complete
(`AdminKept`), and that whatever row a request has found is still there when it
comes back (`CarriedExists`), with the guard it passed (`Allowed`): an edit by an
administrator in office leaves the editor in office. Links are made to rows that cannot
go, or with a foreign key on the team that can. `KeptWayAdmits` needs `KeptInv`: of the
ways into a mailbox a request has kept since its first query, those left at the
second query are still open, and those left after it are teams.

*The Cloudflare token.* `RotationInv` is a chain of custody: the newest token of a grant is in
the column or known to one request, an answer on its way is newer than every token about to be
presented (`RotatedIsNewest`), a new grant is known to its callback alone
(`ConnectedIsNew`), and nothing in the column or about to be presented has been replaced
(`NotReplaced`). From there, as long as writers have not overlapped (`~disturbed`),
there is one writer, and the column follows from how far it has come (`ColumnFollows`).

*The views.* `Next` of Screens is a step of the view that is mounted, so an invariant of
each view is proved from its own Init and Next and carried over at the end
(`ScreensInv`, ScreensSteps). Requests under way are a sequence, and the first lemmas
say what is left of one when an answer comes from any place of it (`Removed`,
`RemovedOne`, `RemovedPlaces`). The invariants then say who is
responsible for what is on the screen:

- `AdminInv`: of each kind of dialog the submission is held by one request, one load or one
  fetch (`OneEach`); the newest load is the last of the sequence unless all that
  are left are overtaken (`ListFollows`); the links shown or on their way are those
  of the row (`LinksBelong`).
- `MailboxInv`: a delta run has a caller that waits for it, and the open mailbox one
  runSync, which turns its spinner, unless it was reopened over one (`SyncInv`); whoever
  waits for a read of folders waits for one of the same mailbox, and a read finds what was
  acknowledged unless it was told that it may not (`CacheInv`); the list shows the
  selection or a load of it is to come that has not been overtaken, and after a sync what
  is in the database, or the call that tells the view is to come (`ListInv`).
- `MessageInv`: the body of the route's message is to come, or all runs are overtaken and it
  is shown (`BodyShown`); a skeleton belongs to a run, or to a view whose init gave up before
  it loaded anything (`LoadingShown`); a permission for another message is shown only over a run that
  will end it (`ImagesShown`).
- `EditorInv`: what the form holds is the ruleset in the route, or that is on its way behind
  a skeleton, or the form is blank and the folders are being loaded (`OwnValues`),
  what a save sends is its own (`SavesBelong`), one save is that of the form shown and
  the forms of others share no row with it (`OneSave`), and errors stand at the places of
  their rows (`Tidy`).
- `CloudflareInv`: unless the connection has changed, a check of the newest revision has met
  the truth, or the status is the truth (`NewestIsRight`).
- `RoutingInv`: of a domain at most one request counts, a fetch of the newest refresh or a
  switch, and it has met the truth (`Untangled`); a domain without a status is covered by
  one (`Arriving`).
- `DnsInv`: the lookups of the current revision of a panel and its groups correspond one to
  one (`PanelSound`).

Attempts to prove these properties changed three of them. ListSettles was false for a
click that is still being written when its view is left and the mailbox opened again: TLC's
bounds had been too small to meet it, the ghost `behind` now names it (section 5). In the
ruleset editor the model ran out of row ids and handed one out twice (`FreeIds`), and
SyncEngine pruned only the oldest events, fewer behaviours than the code has.

Only model-checked:

- the liveness properties (ExpiredGoes, QueueDrains), which are beyond the prover.

Every safety property of a passing run is stated by a theorem.

## 5. What the code does that a reader might not expect

Met while modelling; the properties are stated so that they hold beside them, and the
models contain all of this behaviour.

- *Mail rescued from Trash can still be destroyed.* `permanentDelete`
  (`modules/messages/service.ts:309`) and the retention job
  (`modules/retention/service.ts:56`) delete by id what was in Trash when it was
  read; PRD RETN-10 keeps mail outside Trash and Spam until the user deletes it.
- *A gap in the log may go unsignalled.* Events are pruned by a timestamp taken before
  their version is allocated (`retention/service.ts:82`), so the survivors need not be a
  suffix; with none left, `min(sync_version)` is NULL and an old cursor counts as up
  to date (`messages/service.ts:370`; PRD SYNC-9).
- *Two tabs replay into one IndexedDB.* `sync/engine.ts:12` keeps one run per tab, so
  the slower tab writes older rows under the newer cursor (PRD SYNC-6); engine_runs and
  queue_flush therefore have one tab. A mailbox that is left and opened again over its own
  flush synchronises beside it in the same way (`stores/mailbox.ts:106`).
- *A rejected click may stay.* Its queue row is deleted before its message is fetched
  (`sync/queue.ts:210`); if that fetch fails, nothing rolls it back (PRD OPTI-4).
- *A retry that fails for a passing reason clears the session*
  (`stores/auth.ts:85-88`), although the first attempt is careful not to; and a refresh
  in flight when another tab logs out logs the profile in again.
- *A pending click may flicker*: a replay of older events hides it until the flush.
- *Two isolates can spend one Cloudflare token*, and the loser clears what the winner
  stored (`lib/cloudflare-auth.ts:184`); a refresh in flight reconnects what was disconnected.
- *A demoted administrator goes on* for the life of the access token
  (`middleware/auth.ts:36`); two can take each other out.
- *A click that outlives its view tells nobody.* `refreshTick` belongs to the view
  (`MailboxInboxView.vue:56,77,130`): a click still being written when the mailbox is left
  and opened again is missing from the new view's list until the next sync.
- *A move to the folder a message is in* is answered ok without an event
  (`messages/service.ts:239`), which leaves the clock of the server alone; the retention
  stamp that the click set in the browser (`sync/queue.ts:46`) stays until some later event
  of the message brings another. A move that is only sent again
  is corrected by the event of the first time.
- *A toggle can store a mixture.* It reads row, conditions and actions and writes them back
  (`RulesetSettingsTab.vue:144`): over another write the ruleset gets the row of one form and
  the conditions or actions of another, or loses the edit.
- *A blank form can be saved over a ruleset.* While `init` loads the folders
  (`RulesetEditorTab.vue:85`) the form is shown and enabled (`:404`), and it is blank.
- *Skeletons and spinners that stay.* A message view whose mailbox could not be resolved
  loads nothing and keeps its skeleton (`MessageDetailView.vue:126`), although
  `stores/mailbox.ts:46` leaves the error to the view's own loading. A delta that throws, or a
  count that throws in the handler of an earlier throw, leaves the mailbox "syncing"
  (`stores/mailbox.ts:64`, `:83`) until it is opened again.
- *Answers without a token.* `loadMessages`, `loadMessage` and the list requests of the
  administration views let an older answer overwrite a newer one; the editor fills
  its form with a ruleset the route has left; a manage dialog reopened over its
  requests shows the links of the other row.

## 6. Not modelled

- Parsing of inbound email, size and recipient checks: the outcome is a choice (accept
  with some folder, or reject).
- An ambiguous batch (committed, but reported as failed) and an R2 that loses
  objects: D1 and R2 are taken at their word.
- `createFolder` and `renameFolder`, which touch names only, and the order of listings.
- The timestamp cursor of `getSyncDelta`, which the client never sends.
- Passwords, hashing and JWT contents; an access token is valid, expired or absent.
  The wipe of local databases at logout, and the registry of databases.
- The Cloudflare API behind the proxy, and the signed state of the OAuth trip.
- The router's guard with its cached verdict (`ensureAccessible`), the forms for login,
  setup and profile, the account menu, translations, icons, themes and layouts.
- A record of type MX without content, which stays pending in its panel
  (`use-domain-dns-records.ts:126`): no record for Email Routing lacks it.
- The HTML sanitiser (a flag says whether it lets remote content through), the
  comparison of DNS records (a choice of verdicts), searching and sorting of
  messages, zod formats: functions of strings with no state.

## 7. Plan

Done: the store, its contract and proofs; the client engine and queue; sessions;
rulesets and their engine; the directory; the Cloudflare token; the views; and of all of
them the safety properties proved. Left, in order:

1. What two overlapping tabs still guarantee: the persisted cursor and the rows drift apart,
   and whether the next full run of either tab ends that is not yet stated.
2. A refresh that meets a logout of another tab: the behaviour is in AuthSession,
   a property that tells it from an ordinary login is not.
3. The registry and wipe of local databases against a tab that still syncs.
4. The forms for login and profile, with `performRefresh` behind them.
