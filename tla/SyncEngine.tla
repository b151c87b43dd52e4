----------------------------- MODULE SyncEngine -----------------------------
(***************************************************************************)
(* One browser profile following one mailbox: doRunDeltaSync of the client *)
(* against getSyncDelta, listMessages and listFolders of the worker.       *)
(*                                                                         *)
(* The server is the one DeltaLog promises (MailboxStore implements it):   *)
(* every commit is a Log!Append.  The profile holds one local database,    *)
(* shared by its tabs; a tab has at most one run in flight (inflightRuns). *)
(* Every await of a run is a boundary between steps: server and other tabs *)
(* move on in between, the network fails and tabs are closed.              *)
(*                                                                         *)
(* A retention run may prune any of the events (MailboxStore has the       *)
(* timestamps by which it chooses them).                                   *)
(***************************************************************************)
EXTENDS SyncEvents, FiniteSets, FiniteSetsExt, Functions

CONSTANTS
  Tabs,        \* tabs that have the mailbox open
  Rank,        \* message -> position in the listing, newest email_date first
  DeltaLimit,  \* SYNC_DELTA_LIMIT
  PageSize,    \* messages per page of the snapshot (50 in the code)
  MaxVersion   \* bound: commits stop here

ASSUME EngineAssumption ==
  /\ Rank \in [Messages -> Nat \ {0}] /\ IsInjective(Rank)
  /\ DeltaLimit \in Nat \ {0} /\ PageSize \in Nat \ {0} /\ MaxVersion \in Nat
  /\ IsFiniteSet(Messages)

VARIABLES
  messages, last_version, sync_events,  \* the server, see DeltaLog
  folders,         \* the server's table `folders`
  ingested,        \* message ids the server has handed out
  local,           \* the profile's table `messages`
  local_folders,   \* its table `folders`
  last_sync_version,  \* its persisted cursor, in `sync_state`
  run,             \* tab -> what its run carries from one await to the next
  history,         \* ghost: version -> the server's table at that version
  steady,          \* from now on no request fails and no tab is closed
  unsignalled      \* ghost: some answer passed over missing events silently

Log == INSTANCE DeltaLog

serverVars == <<messages, last_version, sync_events, folders, ingested, history>>
localVars == <<local, local_folders, last_sync_version>>
vars == <<serverVars, localVars, run, steady, unsignalled>>

NoRow == [m \in Messages |-> Absent]
Idle == [stage |-> "idle"]

Init ==
  /\ Log!Init
  /\ folders = Folders
  /\ ingested = {}
  /\ local = NoRow
  /\ local_folders = {}
  /\ last_sync_version = 0
  /\ run = [t \in Tabs |-> Idle]
  /\ history = [v \in {0} |-> NoRow]
  /\ steady = FALSE
  /\ unsignalled = FALSE

-----------------------------------------------------------------------------
(* The server                                                              *)

\* One batch that carries the events of `batch`, numbered from last_version + 1.
Commit(batch) ==
  LET last == Max(DOMAIN batch)
      about(m) == {v \in DOMAIN batch : batch[v].message_id = m} IN
  /\ last <= MaxVersion
  /\ messages' = [m \in Messages |->
                    IF about(m) = {} THEN messages[m]
                    ELSE LET v == Max(about(m)) IN ApplySyncEvent(messages[m], v, batch[v])]
  /\ Log!Append(batch, last)
  /\ history' = [v \in 0..last |->
                   IF v \in DOMAIN history THEN history[v] ELSE messages']

CommitOne(event) == Commit([v \in {last_version + 1} |-> event])

ReceiveEmail ==
  \E m \in Messages \ ingested, f \in folders :
    /\ CommitOne([event_type |-> "message_created", message_id |-> m, created_at |-> 0,
                  message |-> [flags |-> [flag \in Flags |-> FALSE], folder_id |-> f,
                               folder_entered_at |-> EnteredAt(f, 0),
                               sync_version |-> last_version + 1]])
    /\ ingested' = ingested \cup {m}
    /\ UNCHANGED folders

\* setFlag, moveMessage and permanentDelete, by whichever client.  What they
\* checked when they loaded the row may no longer hold when they commit: the
\* event can repeat the present state or name a message that is already gone.
SetFlag ==
  \E m \in ingested, flag \in Flags, value \in BOOLEAN :
    /\ CommitOne([event_type |-> "message_updated", message_id |-> m,
                  flag |-> flag, value |-> value, created_at |-> 0])
    /\ UNCHANGED <<folders, ingested>>

MoveMessage ==
  \E m \in ingested, f \in folders :
    /\ CommitOne([event_type |-> "message_moved", message_id |-> m, folder_id |-> f,
                  folder_entered_at |-> EnteredAt(f, 0), created_at |-> 0])
    /\ UNCHANGED <<folders, ingested>>

DeleteMessage ==
  \E m \in ingested :
    /\ CommitOne([event_type |-> "message_deleted", message_id |-> m, created_at |-> 0])
    /\ UNCHANGED <<folders, ingested>>

\* The batch that ends a folder deletion.
DeleteFolder ==
  \E f \in folders \cap CustomFolders :
    LET S == {m \in Messages : messages[m] # Absent /\ messages[m].folder_id = f} IN
    /\ folders' = folders \ {f}
    /\ IF S = {}
       THEN UNCHANGED <<messages, last_version, sync_events, history>>
       ELSE \E order \in Bijection((last_version + 1)..(last_version + Cardinality(S)), S) :
              Commit([v \in DOMAIN order |->
                        [event_type |-> "message_moved", message_id |-> order[v],
                         folder_id |-> "system.inbox", folder_entered_at |-> Null,
                         created_at |-> 0]])
    /\ UNCHANGED ingested

\* The retention job forgets what was created before its cutoff (retention/service.ts:82),
\* perhaps everything: any events, since the order of timestamps need not be that of
\* versions.
PruneSyncEvents ==
  \E V \in (SUBSET DOMAIN sync_events) \ {{}} :
    /\ Log!Prune(V)
    /\ UNCHANGED <<folders, ingested, history>>

Server ==
  /\ \/ ReceiveEmail \/ SetFlag \/ MoveMessage \/ DeleteMessage \/ DeleteFolder
     \/ PruneSyncEvents
  /\ UNCHANGED <<localVars, run, steady, unsignalled>>

-----------------------------------------------------------------------------
(* A run, as seen by tab t                                                 *)

Becomes(t, state) == run' = [run EXCEPT ![t] = state]

\* runDeltaSync starts a run unless one is in flight; it reads sync_state.
StartRun(t) ==
  /\ run[t] = Idle
  /\ Becomes(t, [stage |-> "ask", cursor |-> last_sync_version, resyncHandled |-> FALSE])
  /\ UNCHANGED <<serverVars, localVars, steady, unsignalled>>

\* The condition under which getSyncDelta asks for a full resync.
PruningGap(cursor) ==
  DOMAIN sync_events # {} /\ Min(DOMAIN sync_events) > 1
    /\ cursor < Min(DOMAIN sync_events) - 1

\* getSyncDelta's first query.  A second gap within one run ends the run.
AskDelta(t) ==
  /\ run[t].stage = "ask"
  /\ Becomes(t, IF ~PruningGap(run[t].cursor) THEN [run[t] EXCEPT !.stage = "query"]
                ELSE IF run[t].resyncHandled THEN Idle
                ELSE [stage |-> "clear", min_version |-> Min(DOMAIN sync_events)])
  /\ UNCHANGED <<serverVars, localVars, steady, unsignalled>>

\* Its second query: the first DeltaLimit events after the cursor.
AnswerDelta(t) ==
  /\ run[t].stage = "query"
  /\ LET cursor == run[t].cursor
         after == {v \in DOMAIN sync_events : v > cursor}
         rows == {v \in after : Cardinality({w \in after : w <= v}) <= DeltaLimit}
     IN /\ Becomes(t, [stage |-> "apply", resyncHandled |-> run[t].resyncHandled,
                       events |-> Restrict(sync_events, rows),
                       cursor |-> Max(rows \cup {cursor}),
                       has_more |-> Cardinality(rows) = DeltaLimit])
        /\ unsignalled' = (unsignalled \/ ~((cursor + 1)..last_version \subseteq DOMAIN sync_events))
  /\ UNCHANGED <<serverVars, localVars, steady>>

\* Mutant of ApplyEvent: the events of an answer are applied newest first.
ApplyNewestEvent(t) ==
  /\ run[t].stage = "apply"
  /\ LET events == run[t].events IN
       IF DOMAIN events = {}
       THEN /\ Becomes(t, IF run[t].has_more
                          THEN [stage |-> "ask", cursor |-> run[t].cursor,
                                resyncHandled |-> run[t].resyncHandled]
                          ELSE [stage |-> "list_folders", cursor |-> run[t].cursor])
            /\ UNCHANGED local
       ELSE LET v == Max(DOMAIN events) IN
            /\ local' = [local EXCEPT ![events[v].message_id] = ApplySyncEvent(@, v, events[v])]
            /\ Becomes(t, [run[t] EXCEPT !.events = Restrict(@, DOMAIN @ \ {v})])
  /\ UNCHANGED <<serverVars, local_folders, last_sync_version, steady, unsignalled>>

ApplyEvent(t) ==
  /\ run[t].stage = "apply"
  /\ LET events == run[t].events IN
       IF DOMAIN events = {}
       THEN /\ Becomes(t, IF run[t].has_more
                          THEN [stage |-> "ask", cursor |-> run[t].cursor,
                                resyncHandled |-> run[t].resyncHandled]
                          ELSE [stage |-> "list_folders", cursor |-> run[t].cursor])
            /\ UNCHANGED local
       ELSE LET v == Min(DOMAIN events) IN
            /\ local' = [local EXCEPT ![events[v].message_id] = ApplySyncEvent(@, v, events[v])]
            /\ Becomes(t, [run[t] EXCEPT !.events = Restrict(@, DOMAIN @ \ {v})])
  /\ UNCHANGED <<serverVars, local_folders, last_sync_version, steady, unsignalled>>

\* Mutant of ClearMessages: the snapshot is laid over the old rows.
KeepMessages(t) ==
  /\ run[t].stage = "clear"
  /\ Becomes(t, [stage |-> "list", min_version |-> run[t].min_version, after |-> 0])
  /\ UNCHANGED <<serverVars, localVars, steady, unsignalled>>

\* Full resync: empty the table, then fetch it page by page.
ClearMessages(t) ==
  /\ run[t].stage = "clear"
  /\ local' = NoRow
  /\ Becomes(t, [stage |-> "list", min_version |-> run[t].min_version, after |-> 0])
  /\ UNCHANGED <<serverVars, local_folders, last_sync_version, steady, unsignalled>>

ListMessages(t) ==
  /\ run[t].stage = "list"
  /\ LET rest == {m \in Messages : messages[m] # Absent /\ Rank[m] > run[t].after}
         page == {m \in rest : Cardinality({n \in rest : Rank[n] <= Rank[m]}) <= PageSize}
     IN Becomes(t, [stage |-> "put", min_version |-> run[t].min_version,
                    page |-> Restrict(messages, page), has_more |-> page # rest,
                    after |-> Max({Rank[m] : m \in page} \cup {run[t].after})])
  /\ UNCHANGED <<serverVars, localVars, steady, unsignalled>>

PutPage(t) ==
  /\ run[t].stage = "put"
  /\ local' = [m \in Messages |->
                 IF m \in DOMAIN run[t].page THEN run[t].page[m] ELSE local[m]]
  /\ Becomes(t, IF run[t].has_more
                THEN [stage |-> "list", min_version |-> run[t].min_version,
                      after |-> run[t].after]
                ELSE [stage |-> "save_watermark", min_version |-> run[t].min_version])
  /\ UNCHANGED <<serverVars, local_folders, last_sync_version, steady, unsignalled>>

\* Mutant of SaveWatermark: the delta starts over from version 0.
ResetCursor(t) ==
  /\ run[t].stage = "save_watermark"
  /\ last_sync_version' = 0
  /\ Becomes(t, [stage |-> "ask", cursor |-> 0, resyncHandled |-> TRUE])
  /\ UNCHANGED <<serverVars, local, local_folders, steady, unsignalled>>

\* The cursor resumes at the watermark, persisted at once.
SaveWatermark(t) ==
  /\ run[t].stage = "save_watermark"
  /\ last_sync_version' = run[t].min_version
  /\ Becomes(t, [stage |-> "ask", cursor |-> run[t].min_version, resyncHandled |-> TRUE])
  /\ UNCHANGED <<serverVars, local, local_folders, steady, unsignalled>>

ListFolders(t) ==
  /\ run[t].stage = "list_folders"
  /\ Becomes(t, [stage |-> "clear_folders", cursor |-> run[t].cursor, folders |-> folders])
  /\ UNCHANGED <<serverVars, localVars, steady, unsignalled>>

ClearFolders(t) ==
  /\ run[t].stage = "clear_folders"
  /\ local_folders' = {}
  /\ Becomes(t, [run[t] EXCEPT !.stage = "put_folders"])
  /\ UNCHANGED <<serverVars, local, last_sync_version, steady, unsignalled>>

PutFolders(t) ==
  /\ run[t].stage = "put_folders"
  /\ local_folders' = local_folders \cup run[t].folders
  /\ Becomes(t, [stage |-> "finish", cursor |-> run[t].cursor])
  /\ UNCHANGED <<serverVars, local, last_sync_version, steady, unsignalled>>

\* Persist the cursor: the run is over.
Finish(t) ==
  /\ run[t].stage = "finish"
  /\ last_sync_version' = run[t].cursor
  /\ Becomes(t, Idle)
  /\ UNCHANGED <<serverVars, local, local_folders, steady, unsignalled>>

\* A request fails, the session has expired, or the tab is closed and reopened.
Abort(t) ==
  /\ ~steady
  /\ run[t] # Idle
  /\ Becomes(t, Idle)
  /\ UNCHANGED <<serverVars, localVars, steady, unsignalled>>

Run(t) ==
  \/ StartRun(t) \/ AskDelta(t) \/ AnswerDelta(t) \/ ApplyEvent(t)
  \/ ClearMessages(t) \/ ListMessages(t) \/ PutPage(t) \/ SaveWatermark(t)
  \/ ListFolders(t) \/ ClearFolders(t) \/ PutFolders(t) \/ Finish(t)

\* The interruptions end, if they ever do.
Settle ==
  /\ ~steady
  /\ steady' = TRUE
  /\ UNCHANGED <<serverVars, localVars, run, unsignalled>>

Next == Server \/ Settle \/ \E t \in Tabs : Run(t) \/ Abort(t)

Spec == Init /\ [][Next]_vars

-----------------------------------------------------------------------------
(* Properties                                                              *)

\* After a run the local table is the server's table at the cursor the run
\* reports, whatever the server committed or pruned meanwhile and wherever
\* earlier runs were cut off; unless an answer silently skipped history.
SyncedTable ==
  [][\A t \in Tabs : Finish(t) /\ ~unsignalled => local = history[run[t].cursor]]_vars

\* What a local row shows is something the server showed at or after the
\* persisted cursor: field by field for the flags, together for the folder and
\* the retention clock that was started on entering it.
RowsNotStale ==
  \A m \in Messages : local[m] # Absent =>
    LET seen == {s \in last_sync_version..last_version : history[s][m] # Absent} IN
    /\ \A flag \in Flags : \E s \in seen : history[s][m].flags[flag] = local[m].flags[flag]
    /\ \E s \in seen : /\ history[s][m].folder_id = local[m].folder_id
                       /\ history[s][m].folder_entered_at = local[m].folder_entered_at

\* That holds at every moment, also in the middle of a replay or a resync and
\* after a crash: the persisted cursor never runs ahead of the local rows.  In
\* particular no message deleted before the cursor is ever shown.
NeverStale == ~unsignalled => RowsNotStale
=============================================================================
