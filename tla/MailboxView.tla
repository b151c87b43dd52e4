---------------------------- MODULE MailboxView ----------------------------
(***************************************************************************)
(* One tab of the mail client above the local databases: the mailbox store *)
(* (which mailbox is open, how its synchronisation stands), the folder     *)
(* projection shared by the views, and the inbox view with its paged list. *)
(* Every function is cut at its awaits; the user goes on clicking, and     *)
(* leaves for another mailbox, while answers are under way.                *)
(*                                                                         *)
(* The contents of a local database are abstracted to a revision number:   *)
(* SyncEngine and MutationQueue model what a revision consists of.  Every  *)
(* folder has two pages.  Going to another mailbox leads through the       *)
(* picker, so a view shows one mailbox from mount to unmount.              *)
(***************************************************************************)
EXTENDS Naturals, Sequences, FiniteSets, UnderWay

CONSTANTS
  Mailboxes, None,
  Runs,        \* numbers of the runSync calls that may be under way together
  Calls,       \* and of the load calls of the folder store
  MaxLoads,    \* bound: loadMessages calls under way together
  MaxRev,      \* bound: changes of one local database
  MaxClicks    \* bound: things the user does

Idle == [stage |-> "idle"]
Names == {"inbox", "other"}
Folder(b, name) == [of |-> b, name |-> name]

VARIABLES
  mailboxId, syncStatus, pendingCount, accessible,   \* stores/mailbox.ts
  runs,          \* runSync calls, from one await to the next
  inflightRuns,  \* mailboxes with a delta run under way; its callers share it
  rev,           \* mailbox -> revision of its local database
  click,         \* the click on a message that is being carried out
  cache,         \* stores/mailbox-folders.ts: of, status, and what it shows
  calls,         \* calls of its load
  inflight,      \* the call whose read others wait for
  view,          \* the mounted inbox view: route, selection and list; behind is a ghost:
                 \* a click made in an earlier view was written since this one is mounted
  loads,         \* its loadMessages calls, in the order in which they began
  clicks,        \* number of clicks so far
  flushed,       \* ghost: mailboxes that were flushed while they were open
  doubled,       \* ghost: the last runSync began while one of its mailbox was under way
  broken,        \* ghost: a delta run threw, or both counts after a flush
  acked,         \* ghost: revision of the last click that invalidated the cache
  raced          \* ghost: the rows shown are those of an overtaken load

storeVars == <<mailboxId, syncStatus, pendingCount, accessible>>
cacheVars == <<cache, calls, inflight>>
viewVars == <<view, loads, raced>>
vars == <<storeVars, runs, inflightRuns, rev, click, cacheVars, viewVars, clicks,
          flushed, doubled, broken, acked>>

NoView == [route |-> None, folder |-> None, page |-> 1, query |-> FALSE,
           loading |-> FALSE, error |-> FALSE, list |-> None, total |-> 0,
           behind |-> FALSE]
Empty == [of |-> None, status |-> "idle", rows |-> None]

Init ==
  /\ mailboxId = None /\ syncStatus = "idle" /\ pendingCount = None /\ accessible = {}
  /\ runs = [r \in Runs |-> Idle]
  /\ inflightRuns = {}
  /\ rev = [b \in Mailboxes |-> 0]
  /\ click = Idle
  /\ cache = Empty
  /\ calls = [c \in Calls |-> Idle]
  /\ inflight = None
  /\ view = NoView
  /\ loads = <<>>
  /\ clicks = 0
  /\ flushed = {} /\ doubled = FALSE /\ broken = FALSE /\ raced = FALSE
  /\ acked = [b \in Mailboxes |-> 0]

Click == clicks < MaxClicks /\ clicks' = clicks + 1

\* The number of a new run or call: the first that is not in use.
First(f, x) == f[x] = Idle /\ \A y \in DOMAIN f : f[y] = Idle => x <= y

-----------------------------------------------------------------------------
(* The message list of the view                                            *)

\* loadMessages up to its first await.
Begin(v, ls) ==
  IF v.folder = None \/ mailboxId # v.route THEN [view |-> v, loads |-> ls]
  ELSE [view |-> [v EXCEPT !.loading = TRUE, !.error = FALSE],
        loads |-> Append(ls, [stage |-> "queue", overtaken |-> FALSE])]

\* Mutant of Shows: the page has no watcher.
ShowsFolderOnly(v) ==
  LET selected == [v EXCEPT !.page = IF v.folder # view.folder \/ v.query # view.query
                                     THEN 1 ELSE @]
  IN IF v.folder # view.folder \/ v.query # view.query
     THEN Begin(selected, loads) ELSE [view |-> selected, loads |-> loads]

\* The watchers: another folder or another search goes to page 1, and each of
\* folder, page, search and refreshTick calls loadMessages when it has changed.
Shows(v) ==
  LET selected == [v EXCEPT !.page = IF v.folder # view.folder \/ v.query # view.query
                                     THEN 1 ELSE @]
      first == IF v.folder # view.folder \/ v.query # view.query
               THEN Begin(selected, loads) ELSE [view |-> selected, loads |-> loads]
      second == IF selected.page # view.page
                THEN Begin(first.view, first.loads) ELSE first
  IN second

Watched(after) == view' = after.view /\ loads' = after.loads /\ Len(after.loads) <= MaxLoads

\* The pending rows are there; folder, page and search are read only now.
LoadPending ==
  /\ \E i \in DOMAIN loads :
       /\ loads[i].stage = "queue"
       /\ IF view.folder = None
          THEN /\ loads' = Without(loads, i)
               /\ view' = [view EXCEPT !.loading = FALSE, !.error = TRUE]
          ELSE /\ loads' = [loads EXCEPT ![i] =
                             [stage |-> "rows", overtaken |-> @.overtaken,
                              list |-> [folder |-> view.folder, page |-> view.page,
                                        query |-> view.query, rev |-> rev[view.route]]]]
               /\ UNCHANGED view
  /\ UNCHANGED <<storeVars, runs, inflightRuns, rev, click, cacheVars, raced, clicks,
                 flushed, doubled, broken, acked>>

\* The rows are shown, whatever is selected by now; a search ends here.
LoadRows ==
  /\ \E i \in DOMAIN loads :
       /\ loads[i].stage = "rows"
       /\ LET shown == loads[i].list
              rest == [j \in DOMAIN loads |->
                         IF j < i THEN [loads[j] EXCEPT !.overtaken = TRUE] ELSE loads[j]]
          IN /\ raced' = loads[i].overtaken
             /\ IF shown.query
                THEN /\ loads' = Without(rest, i)
                     /\ view' = [view EXCEPT !.list = shown, !.total = 1, !.loading = FALSE]
                ELSE /\ loads' = [rest EXCEPT ![i] = [stage |-> "total", overtaken |-> @.overtaken,
                                                      folder |-> shown.folder]]
                     /\ view' = [view EXCEPT !.list = shown]
  /\ UNCHANGED <<storeVars, runs, inflightRuns, rev, click, cacheVars, clicks,
                 flushed, doubled, broken, acked>>

\* The number of rows; a folder of another mailbox has none here.
LoadTotal ==
  /\ \E i \in DOMAIN loads :
       /\ loads[i].stage = "total"
       /\ loads' = Without(loads, i)
       /\ view' = [view EXCEPT !.loading = FALSE,
                               !.total = IF loads[i].folder.of = view.route THEN 2 ELSE 0]
  /\ UNCHANGED <<storeVars, runs, inflightRuns, rev, click, cacheVars, raced, clicks,
                 flushed, doubled, broken, acked>>

LoadFails ==
  /\ \E i \in DOMAIN loads :
       /\ loads' = Without(loads, i)
       /\ view' = [view EXCEPT !.loading = FALSE, !.error = TRUE]
  /\ UNCHANGED <<storeVars, runs, inflightRuns, rev, click, cacheVars, raced, clicks,
                 flushed, doubled, broken, acked>>

\* A folder of the navigation, as the cache shows it.
SelectFolder ==
  /\ Click
  /\ view.route # None /\ cache.rows # None
  /\ \E name \in Names : Watched(Shows([view EXCEPT !.folder = Folder(cache.rows.of, name)]))
  /\ UNCHANGED <<storeVars, runs, inflightRuns, rev, click, cacheVars, raced,
                 flushed, doubled, broken, acked>>

Search ==
  /\ Click
  /\ view.route # None
  /\ Watched(Shows([view EXCEPT !.query = ~@]))
  /\ UNCHANGED <<storeVars, runs, inflightRuns, rev, click, cacheVars, raced,
                 flushed, doubled, broken, acked>>

\* The pagination is shown with the list, unless a search is.
GoNext ==
  /\ Click
  /\ ~view.query /\ view.page < view.total /\ ~view.loading
  /\ Watched(Shows([view EXCEPT !.page = @ + 1]))
  /\ UNCHANGED <<storeVars, runs, inflightRuns, rev, click, cacheVars, raced,
                 flushed, doubled, broken, acked>>

GoPrev ==
  /\ Click
  /\ ~view.query /\ view.total > 1 /\ view.page > 1 /\ ~view.loading
  /\ Watched(Shows([view EXCEPT !.page = @ - 1]))
  /\ UNCHANGED <<storeVars, runs, inflightRuns, rev, click, cacheVars, raced,
                 flushed, doubled, broken, acked>>

\* The retry button of the error.
Retry ==
  /\ Click
  /\ view.error /\ ~view.loading
  /\ Watched(Begin(view, loads))
  /\ UNCHANGED <<storeVars, runs, inflightRuns, rev, click, cacheVars, raced,
                 flushed, doubled, broken, acked>>

-----------------------------------------------------------------------------
(* The folder projection                                                   *)

\* A read begins: the projection of another mailbox is dropped.
Loading(b) == [of |-> b, status |-> "loading", rows |-> IF cache.of = b THEN cache.rows ELSE None]

\* load(b) up to its first await, on behalf of the mounted view.
Load(b, force) ==
  \E c \in Calls :
    /\ First(calls, c)
    /\ LET call == [stage |-> "ready", of |-> b, force |-> force, from |-> rev[b],
                    on |-> inflight, live |-> TRUE, missed |-> FALSE]
       IN IF ~force /\ cache.of = b /\ cache.status = "ready"
          THEN calls' = [calls EXCEPT ![c] = call] /\ UNCHANGED <<cache, inflight>>
          ELSE IF inflight # None /\ calls[inflight].of = b
          THEN calls' = [calls EXCEPT ![c] = [call EXCEPT !.stage = "wait"]]
               /\ UNCHANGED <<cache, inflight>>
          ELSE /\ calls' = [calls EXCEPT ![c] = [call EXCEPT !.stage = "read"]]
               /\ cache' = Loading(b)
               /\ inflight' = c

\* After `await load(...)`: the view keeps its folder if the list has it, else
\* takes the one of the address or the inbox, and loads the messages.
Chosen(rows, name) ==
  IF rows = None THEN None
  ELSE IF view.folder # None /\ view.folder.of = rows.of THEN view.folder
  ELSE Folder(rows.of, name)

FoldersLoaded(live, rows) ==
  IF live
  THEN \E name \in Names :
         LET selected == Shows([view EXCEPT !.folder = Chosen(rows, name)])
         IN Watched(Begin(selected.view, selected.loads))
  ELSE UNCHANGED <<view, loads>>

\* Nothing had to be read.
LoadReady ==
  /\ \E c \in Calls :
       /\ calls[c].stage = "ready"
       /\ calls' = [calls EXCEPT ![c] = Idle]
       /\ FoldersLoaded(calls[c].live, cache.rows)
  /\ UNCHANGED <<storeVars, runs, inflightRuns, rev, click, cache, inflight, raced, clicks,
                 flushed, doubled, broken, acked>>

\* Mutant of Published: whatever was read is shown.
PublishedAlways(b, from, missed, ok) ==
  IF ok THEN [of |-> cache.of, status |-> "ready", rows |-> [of |-> b, from |-> from, missed |-> missed]]
  ELSE [of |-> cache.of, status |-> "error", rows |-> None]

\* What a finished read leaves in the cache; a read of a mailbox that is no
\* longer the cache's is dropped.
Published(b, from, missed, ok) ==
  IF cache.of # b THEN cache
  ELSE IF ok THEN [of |-> b, status |-> "ready", rows |-> [of |-> b, from |-> from, missed |-> missed]]
  ELSE [of |-> b, status |-> "error", rows |-> None]

\* A read ends.  Calls that waited for it end with it, or, if forced, read again,
\* whichever mailbox the cache belongs to by now.
ReadEnds ==
  /\ \E c \in Calls, ok \in BOOLEAN :
       /\ calls[c].stage = "read"
       /\ LET b == calls[c].of
              waiting == {w \in Calls : calls[w].stage = "wait" /\ calls[w].on = c}
              again == {w \in waiting : calls[w].force}
              done == {c} \cup (waiting \ again)
              published == Published(b, calls[c].from, calls[c].missed, ok)
              rows == IF again = {} \/ published.of = b THEN published.rows ELSE None
          IN /\ calls' = [w \in Calls |-> IF w \in done THEN Idle
                                         ELSE IF w \in again
                                         THEN [calls[w] EXCEPT !.stage = "read", !.from = rev[b],
                                                                       !.missed = FALSE]
                                         ELSE calls[w]]
             /\ cache' = IF again = {} THEN published
                         ELSE [of |-> b, status |-> "loading", rows |-> rows]
             /\ IF again # {} THEN inflight' \in again
                ELSE inflight' = IF inflight = c THEN None ELSE inflight
             /\ FoldersLoaded(\E w \in done : calls[w].live, rows)
  /\ UNCHANGED <<storeVars, runs, inflightRuns, rev, click, raced, clicks,
                 flushed, doubled, broken, acked>>

-----------------------------------------------------------------------------
(* Clicks on a message                                                     *)

\* enqueue: the optimistic write goes to the mailbox that is open.
Enqueue ==
  /\ Click
  /\ view.list # None /\ ~view.loading /\ ~view.error /\ mailboxId # None
  /\ click = Idle
  /\ click' = [stage |-> "write", of |-> mailboxId, rev |-> 0, live |-> TRUE]
  /\ UNCHANGED <<storeVars, runs, inflightRuns, rev, cacheVars, viewVars,
                 flushed, doubled, broken, acked>>

\* Mutant of Invalidated: only the view is told.
NotInvalidated == UNCHANGED <<cache, calls>>

\* invalidate(), and the view is told.
Invalidated ==
  /\ cache' = [cache EXCEPT !.status = IF @ = "ready" THEN "stale" ELSE @]
  /\ calls' = [c \in Calls |-> IF calls[c].stage = "read" /\ calls[c].of = click.of
                               THEN [calls[c] EXCEPT !.missed = TRUE] ELSE calls[c]]

Enqueued(written) ==
  /\ click' = Idle
  /\ Invalidated
  /\ acked' = [acked EXCEPT ![click.of] = written]
  /\ IF click.live THEN Watched(Begin(view, loads)) ELSE UNCHANGED <<view, loads>>

\* The transaction commits.
EnqueueCommits ==
  /\ click.stage = "write" /\ rev[click.of] < MaxRev
  /\ rev' = [rev EXCEPT ![click.of] = @ + 1]
  /\ IF mailboxId = click.of
     THEN /\ click' = [click EXCEPT !.stage = "count", !.rev = rev'[click.of]]
          /\ view' = [view EXCEPT !.behind = @ \/ (view.route # None /\ ~click.live)]
          /\ UNCHANGED <<cache, calls, loads, acked>>
     ELSE Enqueued(rev'[click.of])
  /\ UNCHANGED <<storeVars, runs, inflightRuns, inflight, raced, clicks,
                 flushed, doubled, broken>>

\* refreshPendingCount: the count is written whichever mailbox is open by now.
EnqueueCounted ==
  /\ click.stage = "count"
  /\ pendingCount' = click.of
  /\ Enqueued(click.rev)
  /\ UNCHANGED <<mailboxId, syncStatus, accessible, runs, inflightRuns, rev, inflight, raced,
                 clicks, flushed, doubled, broken>>

-----------------------------------------------------------------------------
(* Synchronisation                                                         *)

RunOf(b) == \E r \in Runs : runs[r] # Idle /\ runs[r].of = b

\* runSync past its guard, for the mailbox id; runDeltaSync joins a run under way.
Sync(id) ==
  /\ \E r \in Runs :
       /\ First(runs, r)
       /\ runs' = [runs EXCEPT ![r] = [stage |-> "delta", of |-> id]]
  /\ inflightRuns' = inflightRuns \cup {id}
  /\ syncStatus' = "syncing"
  /\ doubled' = RunOf(id)

\* The timer, the buttons, and the settings that have changed a folder.
RunSync ==
  /\ Click
  /\ mailboxId # None /\ syncStatus # "syncing"
  /\ Sync(mailboxId)
  /\ UNCHANGED <<mailboxId, pendingCount, accessible, rev, click, cacheVars, viewVars,
                 flushed, broken, acked>>

\* A delta run changes the local database; so does a flush, by reconciling and
\* by its last delta run.
DeltaApplies ==
  /\ \E b \in Mailboxes :
       /\ b \in inflightRuns \/ \E r \in Runs : runs[r] # Idle /\ runs[r].of = b /\ runs[r].stage = "flush"
       /\ rev[b] < MaxRev
       /\ rev' = [rev EXCEPT ![b] = @ + 1]
  /\ UNCHANGED <<storeVars, runs, inflightRuns, click, cacheVars, viewVars, clicks,
                 flushed, doubled, broken, acked>>

\* Mutant of DeltaEnds: a failed run does not report.
DeltaEndsSilently ==
  /\ \E b \in inflightRuns, result \in {"ok", "offline", "error"} :
       /\ inflightRuns' = inflightRuns \ {b}
       /\ runs' = [r \in Runs |->
                     IF runs[r] # Idle /\ runs[r].stage = "delta" /\ runs[r].of = b
                     THEN IF mailboxId = b /\ result = "ok"
                          THEN [runs[r] EXCEPT !.stage = "flush"] ELSE Idle
                     ELSE runs[r]]
  /\ UNCHANGED <<storeVars, rev, click, cacheVars, viewVars, clicks,
                 flushed, doubled, broken, acked>>

\* The delta run of b ends: each caller stops if another mailbox is open, reports
\* a failure, or goes on to flush.
DeltaEnds ==
  /\ \E b \in inflightRuns, result \in {"ok", "offline", "error"} :
       /\ inflightRuns' = inflightRuns \ {b}
       /\ runs' = [r \in Runs |->
                     IF runs[r] # Idle /\ runs[r].stage = "delta" /\ runs[r].of = b
                     THEN IF mailboxId = b /\ result = "ok"
                          THEN [runs[r] EXCEPT !.stage = "flush"] ELSE Idle
                     ELSE runs[r]]
       /\ syncStatus' = IF mailboxId = b /\ result # "ok" THEN result ELSE syncStatus
  /\ UNCHANGED <<mailboxId, pendingCount, accessible, rev, click, cacheVars, viewVars, clicks,
                 flushed, doubled, broken, acked>>

\* The local database throws: runSync has no handler here, its callers end.
DeltaThrows ==
  /\ \E b \in inflightRuns :
       /\ inflightRuns' = inflightRuns \ {b}
       /\ runs' = [r \in Runs |->
                     IF runs[r] # Idle /\ runs[r].stage = "delta" /\ runs[r].of = b
                     THEN Idle ELSE runs[r]]
       /\ broken' = TRUE
  /\ UNCHANGED <<storeVars, rev, click, cacheVars, viewVars, clicks, flushed, doubled, acked>>

\* The flush ends, or throws, which counts as synced; the pending rows are counted.
FlushEnds ==
  /\ \E r \in Runs, blocked \in BOOLEAN :
       /\ runs[r].stage = "flush"
       /\ LET current == mailboxId = runs[r].of IN
          /\ runs' = [runs EXCEPT ![r] = IF current
                        THEN [stage |-> "count", of |-> @.of,
                              verdict |-> IF blocked THEN "error" ELSE "synced"]
                        ELSE Idle]
          /\ flushed' = IF current THEN flushed \cup {mailboxId} ELSE flushed
  /\ UNCHANGED <<storeVars, inflightRuns, rev, click, cacheVars, viewVars, clicks,
                 doubled, broken, acked>>

\* The status changes; a mounted view reads the folders again after a sync.
Report(status) ==
  /\ syncStatus' = status
  /\ IF status = "synced" /\ syncStatus # "synced" /\ view.route # None
     THEN Load(view.route, TRUE) ELSE UNCHANGED cacheVars

\* Mutant of RunCounted: the status of a run is reported whichever mailbox is open.
RunCountedStale ==
  /\ \E r \in Runs :
       /\ runs[r].stage = "count"
       /\ runs' = [runs EXCEPT ![r] = Idle]
       /\ pendingCount' = runs[r].of
       /\ Report(runs[r].verdict)
  /\ UNCHANGED <<mailboxId, accessible, inflightRuns, rev, click, viewVars, clicks,
                 flushed, doubled, broken, acked>>

\* The count is there.  It is shown in any case, the status only if the mailbox
\* is still open.
RunCounted ==
  /\ \E r \in Runs :
       /\ runs[r].stage = "count"
       /\ runs' = [runs EXCEPT ![r] = Idle]
       /\ pendingCount' = runs[r].of
       /\ IF mailboxId = runs[r].of THEN Report(runs[r].verdict)
          ELSE UNCHANGED <<syncStatus, cacheVars>>
  /\ UNCHANGED <<mailboxId, accessible, inflightRuns, rev, click, viewVars, clicks,
                 flushed, doubled, broken, acked>>

\* The count throws.  A run whose mailbox is still open catches that, counts again and
\* will report "synced"; what the second count throws nothing catches, and the
\* status stays.
RunCountThrows ==
  /\ \E r \in Runs :
       /\ runs[r].stage = "count"
       /\ \/ /\ mailboxId = runs[r].of
             /\ runs' = [runs EXCEPT ![r].verdict = "synced"]
             /\ UNCHANGED broken
          \/ /\ runs' = [runs EXCEPT ![r] = Idle]
             /\ broken' = (broken \/ mailboxId = runs[r].of)
  /\ UNCHANGED <<storeVars, inflightRuns, rev, click, cacheVars, viewVars, clicks,
                 flushed, doubled, acked>>

-----------------------------------------------------------------------------
(* Navigation                                                              *)

OpenMailbox(b) ==
  /\ mailboxId' = b
  /\ pendingCount' = None
  /\ Sync(b)
  /\ broken' = FALSE

\* From the picker to the inbox of b.  The guard asks once whether b may be
\* opened; when the answer is lost it lets the user through, and the view reports
\* that the mailbox could not be resolved.
Mount ==
  /\ Click
  /\ view.route = None
  /\ \E b \in Mailboxes :
       /\ accessible' \in {accessible \cup {b}, accessible}
       /\ view' = [NoView EXCEPT !.route = b, !.error = mailboxId # b /\ b \notin accessible']
       /\ IF mailboxId = b \/ b \notin accessible'
          THEN UNCHANGED <<mailboxId, syncStatus, pendingCount, runs, inflightRuns,
                           doubled, broken>>
          ELSE OpenMailbox(b)
       /\ IF mailboxId = b \/ b \in accessible' THEN Load(b, FALSE) ELSE UNCHANGED cacheVars
  /\ UNCHANGED <<rev, click, loads, raced, flushed, acked>>

\* The view is unmounted; what it was awaiting goes on without it.
Abandon ==
  /\ view' = NoView /\ loads' = <<>> /\ raced' = FALSE
  /\ click' = IF click = Idle THEN Idle ELSE [click EXCEPT !.live = FALSE]
Unheard == [c \in Calls |-> IF calls[c] = Idle THEN Idle ELSE [calls[c] EXCEPT !.live = FALSE]]

Unmount ==
  /\ Click
  /\ view.route # None
  /\ Abandon
  /\ calls' = Unheard
  /\ UNCHANGED <<storeVars, runs, inflightRuns, rev, cache, inflight,
                 flushed, doubled, broken, acked>>

\* Logout: the selection is dropped, and the projection with it.
CloseMailbox ==
  /\ Click
  /\ mailboxId # None
  /\ mailboxId' = None /\ syncStatus' = "idle" /\ pendingCount' = None
  /\ Abandon
  /\ calls' = Unheard
  /\ cache' = Empty
  /\ doubled' = FALSE /\ broken' = FALSE
  /\ UNCHANGED <<accessible, runs, inflightRuns, rev, inflight, flushed, acked>>

Next ==
  \/ LoadPending \/ LoadRows \/ LoadTotal \/ LoadFails
  \/ SelectFolder \/ Search \/ GoNext \/ GoPrev \/ Retry
  \/ LoadReady \/ ReadEnds
  \/ Enqueue \/ EnqueueCommits \/ EnqueueCounted
  \/ RunSync \/ DeltaApplies \/ DeltaEnds \/ DeltaThrows \/ FlushEnds
  \/ RunCounted \/ RunCountThrows
  \/ Mount \/ Unmount \/ CloseMailbox

Spec == Init /\ [][Next]_vars

-----------------------------------------------------------------------------
(* Properties                                                              *)

\* The spinner belongs to a run of the open mailbox, so that runSync, which does
\* nothing while it turns, is never blocked for good: unless the local database
\* threw in a delta run, or in the count of the handler of an earlier throw, which
\* nothing catches (stores/mailbox.ts:64, :83).
SyncingMeansRunning == syncStatus = "syncing" => RunOf(mailboxId) \/ broken

\* "Never write status for a stale run": the open mailbox is called synced only
\* after a flush of this very mailbox.
SyncedWasFlushed == syncStatus = "synced" => mailboxId \in flushed

\* "Never publish a stale mailbox's projection": the folders and counts in the
\* cache are those of the mailbox that the cache says it holds.
CacheBelongs == cache.rows # None => cache.rows.of = cache.of

\* A projection that passes for ready counts every click made since, so the next
\* view may skip the read; unless the click fell into the read itself.
ReadyIsFresh ==
  cache.status = "ready" /\ ~cache.rows.missed => cache.rows.from >= acked[cache.of]

\* When nothing is under way, the list shows the folder, page and search that are
\* selected, and after a sync all that the local database holds by then; unless a
\* load was overtaken by a later one, or the mailbox was left and opened again while
\* a first runSync went on: then "synced" is reported twice, and no watcher sees
\* the second time; or while a click was being written, which tells only the view it
\* was made in (refreshTick is the view's own).
Settled ==
  /\ loads = <<>> /\ ~view.error /\ click = Idle
  /\ view.route = mailboxId /\ view.folder # None
  /\ \A c \in Calls : calls[c].stage = "idle" \/ ~calls[c].live
ListSettles ==
  Settled /\ ~raced =>
    /\ view.list # None
    /\ view.list.folder = view.folder /\ view.list.page = view.page
    /\ view.list.query = view.query
    /\ syncStatus = "synced" /\ ~RunOf(view.route) /\ ~doubled /\ ~view.behind
         => view.list.rev = rev[view.route]
=============================================================================
