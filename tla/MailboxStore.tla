---------------------------- MODULE MailboxStore ----------------------------
(***************************************************************************)
(* The server side of one mailbox: the D1 tables `messages`, `folders`,    *)
(* `mailbox_sync_counters` and `sync_events`, the R2 bucket of raw emails, *)
(* and everything that writes them concurrently: inbound email, the flag,  *)
(* move and permanent-delete handlers, folder deletion and the daily       *)
(* retention job.                                                          *)
(*                                                                         *)
(* A handler is an asynchronous function: each of its database reads, its  *)
(* db.batch (one D1 transaction) and each R2 call is a step of its own,    *)
(* and steps of different handlers interleave.  `req[r]` holds what the    *)
(* handler carries from one await to the next.  A handler may fail or be   *)
(* evicted at any of its awaits.                                           *)
(*                                                                         *)
(* Bounds: no handler starts once the counter has reached MaxVersion, and  *)
(* the clock stops at MaxTime.                                             *)
(***************************************************************************)
EXTENDS SyncEvents, FiniteSets, Functions

CONSTANTS
  Requests,        \* handler instances that may be in flight together
  RetentionAge,    \* TRASH_SPAM_RETENTION_DAYS, in clock ticks
  SyncAge,         \* SYNC_RETENTION_DAYS, in clock ticks
  RetentionChunk,  \* messages per retention batch (20 in the code)
  FolderChunk,     \* messages per folder-deletion batch (25 in the code)
  MaxVersion, MaxTime

ASSUME BoundsAssumption ==
  /\ RetentionAge \in Nat \ {0} /\ SyncAge \in Nat \ {0}
  /\ RetentionChunk \in Nat \ {0} /\ FolderChunk \in Nat \ {0}
  /\ MaxVersion \in Nat /\ MaxTime \in Nat

ASSUME FiniteAssumption == IsFiniteSet(Messages)

VARIABLES
  messages, last_version, sync_events,  \* see DeltaLog
  folders,    \* ids present in the table `folders`
  bucket,     \* messages whose raw object is in R2
  clock,      \* Date.now()
  req,        \* request handlers in flight
  retention,  \* the retention job
  ingested,   \* message ids handed out by createId
  trashed     \* history: messages whose row has ever been in Trash or Spam

logVars == <<messages, last_version, sync_events, trashed>>
vars == <<messages, last_version, sync_events, folders, bucket, clock, req,
          retention, ingested, trashed>>

Idle == [stage |-> "idle"]

-----------------------------------------------------------------------------
(* Committing a batch                                                      *)

\* The versions the next n bumps of the counter allocate.
Allocated(n) == (last_version + 1)..(last_version + n)

\* n bumps of the counter, each consumed by one row of sync_events.
Emit(n, batch) ==
  /\ last_version' = last_version + n
  /\ sync_events' = [v \in DOMAIN sync_events \cup Allocated(n) |->
                       IF v \in Allocated(n) THEN batch[v] ELSE sync_events[v]]

EmitOne(event) == Emit(1, [v \in Allocated(1) |-> event])

\* UPDATE, INSERT or DELETE of message rows.
WriteRows(rows) ==
  /\ messages' = rows
  /\ trashed' = trashed \cup
       {m \in Messages : rows[m] # Absent /\ rows[m].folder_id \in RetentionFolders}

\* Mutant of Moved: the old retention stamp survives the move.
MovedKeepingStamp(row, folder, entered, v) ==
  IF row = Absent THEN Absent ELSE [row EXCEPT !.folder_id = folder, !.sync_version = v]

\* UPDATE messages SET folder_id, folder_entered_at, sync_version.
Moved(row, folder, entered, v) ==
  IF row = Absent THEN Absent
  ELSE [row EXCEPT !.folder_id = folder, !.folder_entered_at = entered,
                   !.sync_version = v]

\* The orders in which the statements of a batch can treat the messages in S.
Orders(S) == Bijection(Allocated(Cardinality(S)), S)

\* A slice of at most n messages off the front of a list of unspecified order.
IsChunk(S, todo, n) ==
  S \subseteq todo /\ (Cardinality(S) = n \/ (S = todo /\ Cardinality(S) <= n))

-----------------------------------------------------------------------------
Init ==
  /\ messages = [m \in Messages |-> Absent]
  /\ last_version = 0
  /\ sync_events = [v \in {} |-> {}]
  /\ folders = Folders
  /\ bucket = {}
  /\ clock = 0
  /\ req = [r \in Requests |-> Idle]
  /\ retention = Idle
  /\ ingested = {}
  /\ trashed = {}

Starts(r) == req[r] = Idle /\ last_version < MaxVersion

Becomes(r, state) == req' = [req EXCEPT ![r] = state]

-----------------------------------------------------------------------------
(* Inbound email                                                           *)

\* The mailbox and the rulesets have been read; the target folder is the one
\* the rulesets decided on when it still exists, the inbox otherwise.
ReceiveEmail(r) ==
  /\ Starts(r)
  /\ \E m \in Messages \ ingested, flags \in [Flags -> BOOLEAN], f \in folders :
       /\ ingested' = ingested \cup {m}
       /\ Becomes(r, [stage |-> "put_raw",
            event |-> [event_type |-> "message_created", message_id |-> m,
                       message |-> [flags |-> flags, folder_id |-> f,
                                    folder_entered_at |-> EnteredAt(f, clock),
                                    sync_version |-> 0],
                       created_at |-> clock]])
  /\ UNCHANGED <<logVars, folders, bucket, clock, retention>>

\* The R2 put precedes the D1 batch; if it throws the email is refused (Fail).
PutRawEmail(r) ==
  /\ req[r].stage = "put_raw"
  /\ bucket' = bucket \cup {req[r].event.message_id}
  /\ Becomes(r, [req[r] EXCEPT !.stage = "batch"])
  /\ UNCHANGED <<logVars, folders, clock, retention, ingested>>

\* bump, INSERT INTO messages, INSERT INTO sync_events; the foreign key
\* requires the folder to exist.
CommitEmail(r) ==
  /\ req[r].stage = "batch" /\ req[r].event.event_type = "message_created"
  /\ LET e == req[r].event IN
       /\ e.message.folder_id \in folders
       /\ EmitOne([e EXCEPT !.message = [@ EXCEPT !.sync_version = last_version + 1]])
       /\ WriteRows([messages EXCEPT ![e.message_id] =
                       [e.message EXCEPT !.sync_version = last_version + 1]])
  /\ Becomes(r, Idle)
  /\ UNCHANGED <<folders, bucket, clock, retention, ingested>>

\* The batch threw: the raw object is removed again and the email refused.
RejectEmail(r) ==
  /\ req[r].stage = "batch" /\ req[r].event.event_type = "message_created"
  /\ Becomes(r, [stage |-> "delete_raw", message_id |-> req[r].event.message_id])
  /\ UNCHANGED <<logVars, folders, bucket, clock, retention, ingested>>

-----------------------------------------------------------------------------
(* Flags and moves                                                         *)

\* loadMessage found the row and the flag differs; `now` is read here.
LoadForFlag(r) ==
  /\ Starts(r)
  /\ \E m \in Messages, flag \in Flags, value \in BOOLEAN :
       /\ messages[m] # Absent
       /\ messages[m].flags[flag] # value
       /\ Becomes(r, [stage |-> "batch",
            event |-> [event_type |-> "message_updated", message_id |-> m,
                       flag |-> flag, value |-> value, created_at |-> clock]])
  /\ UNCHANGED <<logVars, folders, bucket, clock, retention, ingested>>

\* Mutant of CommitFlag: the UPDATE forgets sync_version.
CommitFlagKeepingVersion(r) ==
  /\ req[r].stage = "batch" /\ req[r].event.event_type = "message_updated"
  /\ LET e == req[r].event
         row == messages[e.message_id] IN
       /\ EmitOne(e)
       /\ WriteRows([messages EXCEPT ![e.message_id] =
                       IF row = Absent THEN Absent
                       ELSE [row EXCEPT !.flags = [@ EXCEPT ![e.flag] = e.value]]])
  /\ Becomes(r, Idle)
  /\ UNCHANGED <<folders, bucket, clock, retention, ingested>>

CommitFlag(r) ==
  /\ req[r].stage = "batch" /\ req[r].event.event_type = "message_updated"
  /\ LET e == req[r].event
         v == last_version + 1
         row == messages[e.message_id] IN
       /\ EmitOne(e)
       /\ WriteRows([messages EXCEPT ![e.message_id] =
                       IF row = Absent THEN Absent
                       ELSE [row EXCEPT !.flags = [@ EXCEPT ![e.flag] = e.value],
                                        !.sync_version = v]])
  /\ Becomes(r, Idle)
  /\ UNCHANGED <<folders, bucket, clock, retention, ingested>>

LoadForMove(r) ==
  /\ Starts(r)
  /\ \E m \in Messages, to \in Folders :
       /\ messages[m] # Absent
       /\ Becomes(r, [stage |-> "find_folder", message_id |-> m, to |-> to,
                      from |-> messages[m].folder_id])
  /\ UNCHANGED <<logVars, folders, bucket, clock, retention, ingested>>

\* The target folder exists and is not the one the row was loaded from; a
\* missing or equal folder ends the handler (Fail).
FindTargetFolder(r) ==
  /\ req[r].stage = "find_folder"
  /\ req[r].to \in folders /\ req[r].to # req[r].from
  /\ Becomes(r, [stage |-> "batch",
       event |-> [event_type |-> "message_moved",
                  message_id |-> req[r].message_id, folder_id |-> req[r].to,
                  folder_entered_at |-> EnteredAt(req[r].to, clock),
                  created_at |-> clock]])
  /\ UNCHANGED <<logVars, folders, bucket, clock, retention, ingested>>

\* Mutant of CommitMove: the event of a move never carries a retention stamp.
CommitMoveWithoutStamp(r) ==
  /\ req[r].stage = "batch" /\ req[r].event.event_type = "message_moved"
  /\ LET e == req[r].event IN
       /\ messages[e.message_id] # Absent => e.folder_id \in folders
       /\ EmitOne([e EXCEPT !.folder_entered_at = Null])
       /\ WriteRows([messages EXCEPT ![e.message_id] =
                       Moved(@, e.folder_id, e.folder_entered_at, last_version + 1)])
  /\ Becomes(r, Idle)
  /\ UNCHANGED <<folders, bucket, clock, retention, ingested>>

\* The UPDATE of an existing row needs its new folder to exist (foreign key).
CommitMove(r) ==
  /\ req[r].stage = "batch" /\ req[r].event.event_type = "message_moved"
  /\ LET e == req[r].event IN
       /\ messages[e.message_id] # Absent => e.folder_id \in folders
       /\ EmitOne(e)
       /\ WriteRows([messages EXCEPT ![e.message_id] =
                       Moved(@, e.folder_id, e.folder_entered_at, last_version + 1)])
  /\ Becomes(r, Idle)
  /\ UNCHANGED <<folders, bucket, clock, retention, ingested>>

-----------------------------------------------------------------------------
(* Permanent delete                                                        *)

LoadForDelete(r) ==
  /\ Starts(r)
  /\ \E m \in Messages :
       /\ messages[m] # Absent
       /\ Becomes(r, [stage |-> "check_trash", message_id |-> m,
                      from |-> messages[m].folder_id])
  /\ UNCHANGED <<logVars, folders, bucket, clock, retention, ingested>>

\* Mutants of CheckInTrash: no check of the folder, and R2 emptied before D1.
CheckNothing(r) ==
  /\ req[r].stage = "check_trash"
  /\ Becomes(r, [stage |-> "batch",
       event |-> [event_type |-> "message_deleted",
                  message_id |-> req[r].message_id, created_at |-> clock]])
  /\ UNCHANGED <<logVars, folders, bucket, clock, retention, ingested>>

CheckInTrashAndDeleteRaw(r) ==
  /\ req[r].stage = "check_trash"
  /\ req[r].from = "system.trash"
  /\ bucket' = bucket \ {req[r].message_id}
  /\ Becomes(r, [stage |-> "batch",
       event |-> [event_type |-> "message_deleted",
                  message_id |-> req[r].message_id, created_at |-> clock]])
  /\ UNCHANGED <<logVars, folders, clock, retention, ingested>>

\* The folder the row was loaded from is the trash; otherwise NOT_IN_TRASH.
CheckInTrash(r) ==
  /\ req[r].stage = "check_trash"
  /\ req[r].from = "system.trash"
  /\ Becomes(r, [stage |-> "batch",
       event |-> [event_type |-> "message_deleted",
                  message_id |-> req[r].message_id, created_at |-> clock]])
  /\ UNCHANGED <<logVars, folders, bucket, clock, retention, ingested>>

CommitDelete(r) ==
  /\ req[r].stage = "batch" /\ req[r].event.event_type = "message_deleted"
  /\ LET e == req[r].event IN
       /\ EmitOne(e)
       /\ WriteRows([messages EXCEPT ![e.message_id] = Absent])
       /\ Becomes(r, [stage |-> "delete_raw", message_id |-> e.message_id])
  /\ UNCHANGED <<folders, bucket, clock, retention, ingested>>

\* Best effort, after the D1 batch; a failing R2 call is swallowed (Fail).
DeleteRawEmail(r) ==
  /\ req[r].stage = "delete_raw"
  /\ bucket' = bucket \ {req[r].message_id}
  /\ Becomes(r, Idle)
  /\ UNCHANGED <<logVars, folders, clock, retention, ingested>>

-----------------------------------------------------------------------------
(* Deleting a custom folder                                                *)

\* Mutant of LoadFolder: system folders can be deleted too.
LoadAnyFolder(r) ==
  /\ Starts(r)
  /\ \E f \in folders : Becomes(r, [stage |-> "select_messages", folder |-> f])
  /\ UNCHANGED <<logVars, folders, bucket, clock, retention, ingested>>

LoadFolder(r) ==
  /\ Starts(r)
  /\ \E f \in folders \cap CustomFolders :
       Becomes(r, [stage |-> "select_messages", folder |-> f])
  /\ UNCHANGED <<logVars, folders, bucket, clock, retention, ingested>>

SelectMessages(r) ==
  /\ req[r].stage = "select_messages"
  /\ Becomes(r, [stage |-> "rehome", folder |-> req[r].folder, now |-> clock,
                 todo |-> {m \in Messages : messages[m] # Absent
                             /\ messages[m].folder_id = req[r].folder}])
  /\ UNCHANGED <<logVars, folders, bucket, clock, retention, ingested>>

\* Per message bump, UPDATE to the inbox, emit message_moved.
Rehome(S, now) ==
  \E order \in Orders(S) :
    /\ Emit(Cardinality(S),
            [v \in DOMAIN order |->
               [event_type |-> "message_moved", message_id |-> order[v],
                folder_id |-> "system.inbox", folder_entered_at |-> Null,
                created_at |-> now]])
    /\ WriteRows([m \in Messages |->
                    IF m \in S
                    THEN Moved(messages[m], "system.inbox", Null,
                               CHOOSE v \in DOMAIN order : order[v] = m)
                    ELSE messages[m]])

RehomeChunk(r) ==
  /\ req[r].stage = "rehome"
  /\ \E S \in SUBSET req[r].todo :
       /\ IsChunk(S, req[r].todo, FolderChunk) /\ S # req[r].todo
       /\ Rehome(S, req[r].now)
       /\ Becomes(r, [req[r] EXCEPT !.todo = @ \ S])
  /\ UNCHANGED <<folders, bucket, clock, retention, ingested>>

\* Mutant of RehomeLastAndDrop: no foreign key on messages.folder_id.
DropWithoutForeignKey(r) ==
  /\ req[r].stage = "rehome"
  /\ Cardinality(req[r].todo) <= FolderChunk
  /\ Rehome(req[r].todo, req[r].now)
  /\ folders' = folders \ {req[r].folder}
  /\ Becomes(r, Idle)
  /\ UNCHANGED <<bucket, clock, retention, ingested>>

\* The last batch also drops the folder; the foreign key makes the whole batch
\* fail when a row still points at it.
RehomeLastAndDrop(r) ==
  /\ req[r].stage = "rehome"
  /\ Cardinality(req[r].todo) <= FolderChunk
  /\ Rehome(req[r].todo, req[r].now)
  /\ \A m \in Messages : messages'[m] # Absent
                           => messages'[m].folder_id # req[r].folder
  /\ folders' = folders \ {req[r].folder}
  /\ Becomes(r, Idle)
  /\ UNCHANGED <<bucket, clock, retention, ingested>>

\* An early return, a thrown error or an evicted isolate: nothing more happens.
Fail(r) ==
  /\ req[r] # Idle
  /\ Becomes(r, Idle)
  /\ UNCHANGED <<logVars, folders, bucket, clock, retention, ingested>>

-----------------------------------------------------------------------------
(* The retention job                                                       *)

Expired(m) ==
  /\ messages[m] # Absent
  /\ messages[m].folder_id \in RetentionFolders
  /\ messages[m].folder_entered_at # Null
  /\ messages[m].folder_entered_at + RetentionAge < clock

\* Mutant of StartRetention: spam is never expired.
StartRetentionOfTrash ==
  /\ retention = Idle
  /\ retention' = [stage |-> "deleting", now |-> clock,
                   todo |-> {m \in Messages : Expired(m) /\ messages[m].folder_id = "system.trash"},
                   chunk |-> {}]
  /\ UNCHANGED <<logVars, folders, bucket, clock, req, ingested>>

StartRetention ==
  /\ retention = Idle
  /\ retention' = [stage |-> "deleting", now |-> clock,
                   todo |-> {m \in Messages : Expired(m)}, chunk |-> {}]
  /\ UNCHANGED <<logVars, folders, bucket, clock, req, ingested>>

\* Per message bump, emit message_deleted, DELETE the row.
CommitRetentionChunk ==
  /\ retention.stage = "deleting"
  /\ \E S \in SUBSET retention.todo :
       /\ S # {} /\ IsChunk(S, retention.todo, RetentionChunk)
       /\ \E order \in Orders(S) :
            Emit(Cardinality(S),
                 [v \in DOMAIN order |->
                    [event_type |-> "message_deleted",
                     message_id |-> order[v], created_at |-> retention.now]])
       /\ WriteRows([m \in Messages |-> IF m \in S THEN Absent ELSE messages[m]])
       /\ retention' = [retention EXCEPT !.stage = "raw", !.todo = @ \ S, !.chunk = S]
  /\ UNCHANGED <<folders, bucket, clock, req, ingested>>

\* The batch of one chunk threw: it is skipped and the job goes on.
SkipRetentionChunk ==
  /\ retention.stage = "deleting"
  /\ \E S \in SUBSET retention.todo :
       /\ S # {} /\ IsChunk(S, retention.todo, RetentionChunk)
       /\ retention' = [retention EXCEPT !.todo = @ \ S]
  /\ UNCHANGED <<logVars, folders, bucket, clock, req, ingested>>

\* Promise.all of best-effort R2 deletes: any of them may have failed.
DeleteChunkRaw ==
  /\ retention.stage = "raw"
  /\ \E deleted \in SUBSET retention.chunk : bucket' = bucket \ deleted
  /\ retention' = [retention EXCEPT !.stage = "deleting", !.chunk = {}]
  /\ UNCHANGED <<logVars, folders, clock, req, ingested>>

\* DELETE FROM sync_events WHERE created_at < syncCutoff.
PruneSyncEvents ==
  /\ retention.stage = "deleting" /\ retention.todo = {}
  /\ LET kept == {v \in DOMAIN sync_events :
                    sync_events[v].created_at + SyncAge >= retention.now}
     IN sync_events' = [v \in kept |-> sync_events[v]]
  /\ retention' = Idle
  /\ UNCHANGED <<messages, last_version, trashed, folders, bucket, clock, req, ingested>>

\* The scheduled invocation dies between two of its awaits.
RetentionCrash ==
  /\ retention # Idle
  /\ retention' = Idle
  /\ UNCHANGED <<logVars, folders, bucket, clock, req, ingested>>

Tick ==
  /\ clock < MaxTime
  /\ clock' = clock + 1
  /\ UNCHANGED <<logVars, folders, bucket, req, retention, ingested>>

-----------------------------------------------------------------------------
Ingest(r) == ReceiveEmail(r) \/ PutRawEmail(r) \/ CommitEmail(r) \/ RejectEmail(r)
SetFlag(r) == LoadForFlag(r) \/ CommitFlag(r)
MoveMessage(r) == LoadForMove(r) \/ FindTargetFolder(r) \/ CommitMove(r)
PermanentDelete(r) == LoadForDelete(r) \/ CheckInTrash(r) \/ CommitDelete(r) \/ DeleteRawEmail(r)
DeleteFolder(r) == LoadFolder(r) \/ SelectMessages(r) \/ RehomeChunk(r) \/ RehomeLastAndDrop(r)
RetentionJob ==
  \/ StartRetention \/ CommitRetentionChunk \/ SkipRetentionChunk
  \/ DeleteChunkRaw \/ PruneSyncEvents \/ RetentionCrash

Next ==
  \/ \E r \in Requests :
       Ingest(r) \/ SetFlag(r) \/ MoveMessage(r) \/ PermanentDelete(r)
         \/ DeleteFolder(r) \/ Fail(r)
  \/ RetentionJob
  \/ Tick

Spec == Init /\ [][Next]_vars
-----------------------------------------------------------------------------
(* Properties                                                              *)

\* What a handler may carry from one await to the next.
Request ==
  {Idle}
  \cup [stage : {"put_raw"}, event : CreatedEvent]
  \cup [stage : {"batch"}, event : Event]
  \cup [stage : {"delete_raw"}, message_id : Messages]
  \cup [stage : {"find_folder"}, message_id : Messages, to : Folders, from : Folders]
  \cup [stage : {"check_trash"}, message_id : Messages, from : Folders]
  \cup [stage : {"select_messages"}, folder : CustomFolders]
  \cup [stage : {"rehome"}, folder : CustomFolders, now : Nat, todo : SUBSET Messages]

RetentionState ==
  {Idle} \cup [stage : {"deleting", "raw"}, now : Nat,
               todo : SUBSET Messages, chunk : SUBSET Messages]

\* Type correctness of the tables, the bucket and the handlers' locals.
TypeOK ==
  /\ messages \in [Messages -> Row \cup {Absent}]
  /\ last_version \in Nat
  /\ DOMAIN sync_events \subseteq 1..last_version
  /\ sync_events = [v \in DOMAIN sync_events |-> sync_events[v]]
  /\ \A v \in DOMAIN sync_events : sync_events[v] \in Event
  /\ folders \subseteq Folders /\ SystemFolders \subseteq folders
  /\ bucket \subseteq Messages
  /\ clock \in Nat
  /\ req \in [Requests -> Request]
  /\ retention \in RetentionState
  /\ ingested \subseteq Messages
  /\ trashed \subseteq Messages

\* A message listed in the mailbox can be opened: its raw email is in R2.  Puts
\* precede the inserting batch and deletes follow the deleting batch, whatever
\* fails or races in between (handler/inbound/index.ts, lib/r2.ts).
RowHasRaw == \A m \in Messages : messages[m] # Absent => m \in bucket

\* No row is ever stranded in a folder that a concurrent folder deletion has
\* dropped (the completeness guard of deleteFolder).
RowInExistingFolder ==
  \A m \in Messages : messages[m] # Absent => messages[m].folder_id \in folders

\* The retention clock runs exactly for the rows in Trash and Spam, whichever
\* handler put them there last.
RetentionClock ==
  \A m \in Messages : messages[m] # Absent =>
    (messages[m].folder_entered_at # Null <=> messages[m].folder_id \in RetentionFolders)

\* A row carries the version of the newest surviving event about it, it shows
\* what that event says, and nothing brings a deleted message back.
NewestEventOfRow ==
  \A v \in DOMAIN sync_events :
    LET e == sync_events[v]
        row == messages[e.message_id] IN
    row # Absent =>
      /\ v <= row.sync_version /\ row.sync_version <= last_version
      /\ e.event_type # "message_deleted"
      /\ v = row.sync_version => ApplySyncEvent(row, v, e) = row

\* Nobody's mail is destroyed without ever having been in Trash or Spam, however
\* handlers, folder deletion and the retention job interleave.
DestroyedOnlyAfterTrash ==
  [][\A m \in Messages : messages[m] # Absent /\ messages'[m] = Absent
                           => m \in trashed]_vars

\* The sync log is a faithful redo log: a step changes rows exactly as a client
\* applying the step's events would, and numbers those events densely.
Log == INSTANCE DeltaLog WITH
  messages <- messages, last_version <- last_version, sync_events <- sync_events
RedoLog == Log!Spec

-----------------------------------------------------------------------------
(* The inductive invariant behind the safety properties                    *)

\* The handler is about to insert a row.
Creating(q) ==
  \/ q.stage = "put_raw"
  \/ q.stage = "batch" /\ q.event.event_type = "message_created"

\* The messages a handler, or the retention job, still holds an id of.
Mentions(q) ==
  {m \in Messages :
     \/ q.stage \in {"put_raw", "batch"} /\ m = q.event.message_id
     \/ q.stage \in {"find_folder", "check_trash", "delete_raw"} /\ m = q.message_id
     \/ q.stage = "rehome" /\ m \in q.todo
     \/ q.stage \in {"deleting", "raw"} /\ m \in q.todo \cup q.chunk}

\* Whoever refers to a message has it from createId.
IdsAreIngested ==
  /\ \A m \in Messages : messages[m] # Absent => m \in ingested
  /\ \A v \in DOMAIN sync_events : sync_events[v].message_id \in ingested
  /\ \A r \in Requests : Mentions(req[r]) \subseteq ingested
  /\ Mentions(retention) \subseteq ingested

\* An id under ingestion is known to its handler alone: no row, no event, and no
\* other handler can touch it; when the batch runs, its raw email is stored.
CreatingIsPrivate ==
  \A r \in Requests : Creating(req[r]) =>
    LET m == req[r].event.message_id IN
    /\ messages[m] = Absent
    /\ \A v \in DOMAIN sync_events : sync_events[v].message_id # m
    /\ \A s \in Requests \ {r} : m \notin Mentions(req[s])
    /\ m \notin Mentions(retention)
    /\ req[r].stage = "batch" => m \in bucket

\* A raw email is deleted only when its row is gone.
RawDeletesAreLate ==
  /\ \A r \in Requests : req[r].stage = "delete_raw" => messages[req[r].message_id] = Absent
  /\ \A m \in Messages :
       retention.stage \in {"deleting", "raw"} /\ m \in retention.chunk => messages[m] = Absent

\* Only messages that have been in Trash or Spam are on their way out.
DoomedWereTrashed ==
  /\ \A m \in Messages : messages[m] # Absent /\ messages[m].folder_id \in RetentionFolders
                           => m \in trashed
  /\ \A r \in Requests :
       /\ req[r].stage = "check_trash" /\ req[r].from = "system.trash"
            => req[r].message_id \in trashed
       /\ req[r].stage = "batch" /\ req[r].event.event_type = "message_deleted"
            => req[r].event.message_id \in trashed
  /\ \A m \in Messages :
       retention.stage \in {"deleting", "raw"} /\ m \in retention.todo => m \in trashed

\* The stamps that handlers are about to write agree with their target folder.
StampMatches(folder, at) == at # Null <=> folder \in RetentionFolders

PendingStamps ==
  \A r \in Requests :
    /\ Creating(req[r]) =>
         StampMatches(req[r].event.message.folder_id, req[r].event.message.folder_entered_at)
    /\ req[r].stage = "batch" /\ req[r].event.event_type = "message_moved" =>
         StampMatches(req[r].event.folder_id, req[r].event.folder_entered_at)

VersionsBounded ==
  \A m \in Messages : messages[m] # Absent => messages[m].sync_version <= last_version

IInv ==
  /\ TypeOK
  /\ RowHasRaw /\ RowInExistingFolder /\ RetentionClock /\ NewestEventOfRow
  /\ IdsAreIngested /\ CreatingIsPrivate /\ RawDeletesAreLate
  /\ DoomedWereTrashed /\ PendingStamps /\ VersionsBounded

-----------------------------------------------------------------------------
\* The cron trigger fires again after every run, and D1 does not fail the
\* deleting batch forever.
FairSpec ==
  /\ Spec
  /\ WF_vars(StartRetention) /\ WF_vars(DeleteChunkRaw) /\ WF_vars(PruneSyncEvents)
  /\ SF_vars(CommitRetentionChunk)

\* RETN-1: an expired message does not stay: the job removes it, or somebody
\* takes it out of Trash and Spam first.
ExpiredGoes == \A m \in Messages : Expired(m) ~> ~Expired(m)
=============================================================================
