------------------------- MODULE MailboxStoreProofs -------------------------
(***************************************************************************)
(* Proofs about MailboxStore, for every set of messages, folders, flags    *)
(* and concurrent handlers and every retention age and chunk size: types,  *)
(* that it implements DeltaLog, and that IInv is inductive, hence the      *)
(* safety properties.                                                      *)
(***************************************************************************)
EXTENDS MailboxStore, FiniteSetTheorems, TLAPS

-----------------------------------------------------------------------------
(* What a request record says about itself                                 *)

\* A handler at its batch carries the event the batch will emit (env.DB.batch).
LEMMA BatchRequest ==
  ASSUME NEW q \in Request, q.stage = "batch"
  PROVE  q = [stage |-> "batch", event |-> q.event] /\ q.event \in Event
BY DEF Request, Idle

\* Before the R2 put only inbound email carries an event, a message_created.
LEMMA PutRawRequest ==
  ASSUME NEW q \in Request, q.stage = "put_raw"
  PROVE  q = [stage |-> "put_raw", event |-> q.event] /\ q.event \in CreatedEvent
BY DEF Request, Idle

\* deleteFolder carries its folder, its one Date.now() and the messages left to move.
LEMMA RehomeRequest ==
  ASSUME NEW q \in Request, q.stage = "rehome"
  PROVE  /\ q = [stage |-> "rehome", folder |-> q.folder, now |-> q.now, todo |-> q.todo]
         /\ q.folder \in CustomFolders /\ q.now \in Nat /\ q.todo \subseteq Messages
BY DEF Request, Idle

\* Handlers between two reads carry message and folder ids, nothing of the row.
LEMMA LookupRequest ==
  ASSUME NEW q \in Request
  PROVE  /\ q.stage = "find_folder" => q.message_id \in Messages /\ q.to \in Folders /\ q.from \in Folders
         /\ q.stage = "check_trash" => q.message_id \in Messages /\ q.from \in Folders
         /\ q.stage = "delete_raw" => q.message_id \in Messages
         /\ q.stage = "select_messages" => q.folder \in CustomFolders
BY DEF Request, Idle

\* An event is of the kind its event_type names (schema/sync.ts).
LEMMA EventKinds ==
  ASSUME NEW e \in Event
  PROVE  /\ e.message_id \in Messages /\ e.created_at \in Nat
         /\ e.event_type = "message_created" => e \in CreatedEvent
         /\ e.event_type = "message_updated" => e \in UpdatedEvent
         /\ e.event_type = "message_moved" => e \in MovedEvent
         /\ e.event_type = "message_deleted" => e \in DeletedEvent
BY DEF Event, CreatedEvent, UpdatedEvent, MovedEvent, DeletedEvent

\* The folder_entered_at of a move is a time or null.
LEMMA EntryStamp ==
  ASSUME NEW f \in Folders, NEW now \in Nat
  PROVE  EnteredAt(f, now) \in Nat \cup {Null}
BY DEF EnteredAt

\* A batch over a set of messages emits finitely many events.
LEMMA ChunkFinite ==
  ASSUME NEW S \in SUBSET Messages
  PROVE  Cardinality(S) \in Nat
BY FiniteAssumption, FS_Subset, FS_CardinalityType

-----------------------------------------------------------------------------
(* Type correctness                                                        *)

\* Emitting n well-typed events keeps the counter and the log well typed.
LEMMA EmitTypes ==
  ASSUME TypeOK, NEW n \in Nat, NEW batch, Emit(n, batch),
         \A v \in Allocated(n) : batch[v] \in Event
  PROVE  /\ last_version' \in Nat
         /\ DOMAIN sync_events' \subseteq 1..last_version'
         /\ sync_events' = [v \in DOMAIN sync_events' |-> sync_events'[v]]
         /\ \A v \in DOMAIN sync_events' : sync_events'[v] \in Event
BY DEF TypeOK, Emit, Allocated

\* The same for the handlers that emit a single event.
LEMMA EmitOneTypes ==
  ASSUME TypeOK, NEW e \in Event, EmitOne(e)
  PROVE  /\ last_version' \in Nat
         /\ DOMAIN sync_events' \subseteq 1..last_version'
         /\ sync_events' = [v \in DOMAIN sync_events' |-> sync_events'[v]]
         /\ \A v \in DOMAIN sync_events' : sync_events'[v] \in Event
BY EmitTypes DEF EmitOne

\* Writing well-typed rows keeps the table and the history of trashed ids well typed.
LEMMA WriteRowsTypes ==
  ASSUME TypeOK, NEW rows \in [Messages -> Row \cup {Absent}], WriteRows(rows)
  PROVE  messages' \in [Messages -> Row \cup {Absent}] /\ trashed' \subseteq Messages
BY DEF TypeOK, WriteRows

\* The update of a move keeps a row a row, and a missing row missing.
LEMMA MovedTypes ==
  ASSUME NEW row \in Row \cup {Absent}, NEW f \in Folders,
         NEW at \in Nat \cup {Null}, NEW v \in Nat
  PROVE  Moved(row, f, at, v) \in Row \cup {Absent}
BY AbsentAssumption DEF Moved, Row

\* An order of the statements of a batch is a bijection onto the messages.
LEMMA OrdersFact ==
  ASSUME TypeOK, NEW S \in SUBSET Messages, NEW o \in Orders(S)
  PROVE  /\ DOMAIN o = Allocated(Cardinality(S))
         /\ \A v \in DOMAIN o : o[v] \in S /\ v \in Nat /\ v > last_version
         /\ \A v, w \in DOMAIN o : o[v] = o[w] => v = w
         /\ \A m \in S : \E v \in DOMAIN o : o[v] = m
BY ChunkFinite DEF Orders, Allocated, TypeOK, Bijection, Injection, Surjection, IsInjective

\* The empty mailbox is well typed.
LEMMA TypeInit == Init => TypeOK
BY DEF Init, TypeOK, Folders, Request, RetentionState, Idle

\* Every step of inbound email keeps the types: the put, the batch and its clean-up.
LEMMA TypeIngest ==
  ASSUME TypeOK, NEW r \in Requests, Ingest(r)
  PROVE  TypeOK'
<1>1. CASE ReceiveEmail(r)
  <2>1. PICK m \in Messages \ ingested, flags \in [Flags -> BOOLEAN], f \in folders :
          /\ ingested' = ingested \cup {m}
          /\ Becomes(r, [stage |-> "put_raw",
               event |-> [event_type |-> "message_created", message_id |-> m,
                          message |-> [flags |-> flags, folder_id |-> f,
                                       folder_entered_at |-> EnteredAt(f, clock),
                                       sync_version |-> 0],
                          created_at |-> clock]])
    BY <1>1 DEF ReceiveEmail
  <2>2. EnteredAt(f, clock) \in Nat \cup {Null}
    BY EntryStamp DEF TypeOK
  <2>3. [event_type |-> "message_created", message_id |-> m,
         message |-> [flags |-> flags, folder_id |-> f,
                      folder_entered_at |-> EnteredAt(f, clock), sync_version |-> 0],
         created_at |-> clock] \in CreatedEvent
    BY <2>2 DEF TypeOK, CreatedEvent, Row
  <2>4. req' \in [Requests -> Request]
    BY <2>1, <2>3 DEF TypeOK, Becomes, Request
  <2> QED BY <1>1, <2>1, <2>4 DEF TypeOK, ReceiveEmail, logVars
<1>2. CASE PutRawEmail(r)
  <2>1. req[r] = [stage |-> "put_raw", event |-> req[r].event] /\ req[r].event \in CreatedEvent
    BY <1>2, PutRawRequest DEF PutRawEmail, TypeOK
  <2>2. [req[r] EXCEPT !.stage = "batch"] = [stage |-> "batch", event |-> req[r].event]
    BY <2>1
  <2>3. req' \in [Requests -> Request]
    BY <1>2, <2>1, <2>2 DEF PutRawEmail, Becomes, TypeOK, Request, Event
  <2>4. req[r].event.message_id \in Messages
    BY <2>1 DEF CreatedEvent
  <2> QED BY <1>2, <2>3, <2>4 DEF TypeOK, PutRawEmail, logVars
<1>3. CASE CommitEmail(r)
  <2> DEFINE e == req[r].event
             row == [e.message EXCEPT !.sync_version = last_version + 1]
  <2>1. e \in CreatedEvent
    BY <1>3, BatchRequest, EventKinds DEF CommitEmail, TypeOK
  <2>2. row \in Row
    BY <2>1 DEF CreatedEvent, Row, TypeOK
  <2>3. [e EXCEPT !.message = [@ EXCEPT !.sync_version = last_version + 1]] \in Event
    BY <2>1, <2>2 DEF CreatedEvent, Event
  <2>4. [messages EXCEPT ![e.message_id] = row] \in [Messages -> Row \cup {Absent}]
    BY <2>1, <2>2 DEF TypeOK, CreatedEvent
  <2>5. req' \in [Requests -> Request]
    BY <1>3 DEF CommitEmail, Becomes, TypeOK, Request
  <2>6. /\ EmitOne([e EXCEPT !.message = [@ EXCEPT !.sync_version = last_version + 1]])
        /\ WriteRows([messages EXCEPT ![e.message_id] = row])
    BY <1>3 DEF CommitEmail
  <2> HIDE DEF e, row
  <2> QED BY <1>3, <2>3, <2>4, <2>5, <2>6, EmitOneTypes, WriteRowsTypes DEF TypeOK, CommitEmail
<1>4. CASE RejectEmail(r)
  <2>1. req[r].event.message_id \in Messages
    BY <1>4, BatchRequest, EventKinds DEF RejectEmail, TypeOK
  <2>2. req' \in [Requests -> Request]
    BY <1>4, <2>1 DEF RejectEmail, Becomes, TypeOK, Request
  <2> QED BY <1>4, <2>2 DEF TypeOK, RejectEmail, logVars
<1> QED BY <1>1, <1>2, <1>3, <1>4 DEF Ingest

\* So do the steps of setFlag ...
LEMMA TypeSetFlag ==
  ASSUME TypeOK, NEW r \in Requests, SetFlag(r)
  PROVE  TypeOK'
<1>1. CASE LoadForFlag(r)
  <2>1. req' \in [Requests -> Request]
    BY <1>1 DEF LoadForFlag, Becomes, TypeOK, Request, Event, UpdatedEvent
  <2> QED BY <1>1, <2>1 DEF TypeOK, LoadForFlag, logVars
<1>2. CASE CommitFlag(r)
  <2> DEFINE e == req[r].event
             row == messages[e.message_id]
             new == IF row = Absent THEN Absent
                    ELSE [row EXCEPT !.flags = [@ EXCEPT ![e.flag] = e.value],
                                     !.sync_version = last_version + 1]
  <2>1. e \in Event /\ e \in UpdatedEvent
    BY <1>2, BatchRequest, EventKinds DEF CommitFlag, TypeOK
  <2>2. row \in Row \cup {Absent}
    BY <2>1 DEF UpdatedEvent, TypeOK
  <2>3. new \in Row \cup {Absent}
    <3>1. e.flag \in Flags /\ e.value \in BOOLEAN /\ last_version + 1 \in Nat
      BY <2>1 DEF UpdatedEvent, TypeOK
    <3> HIDE DEF e, row
    <3>2. ASSUME row # Absent PROVE new \in Row
      <4>1. row \in Row
        BY <2>2, <3>2
      <4>2. [row.flags EXCEPT ![e.flag] = e.value] \in [Flags -> BOOLEAN]
        BY <3>1, <4>1 DEF Row
      <4> QED BY <3>1, <3>2, <4>1, <4>2 DEF Row
    <3> QED BY <3>2
  <2>4. [messages EXCEPT ![e.message_id] = new] \in [Messages -> Row \cup {Absent}]
    BY <2>1, <2>3 DEF TypeOK, UpdatedEvent
  <2>5. req' \in [Requests -> Request]
    BY <1>2 DEF CommitFlag, Becomes, TypeOK, Request
  <2>6. EmitOne(e) /\ WriteRows([messages EXCEPT ![e.message_id] = new])
    BY <1>2 DEF CommitFlag
  <2> HIDE DEF e, row, new
  <2> QED BY <1>2, <2>1, <2>4, <2>5, <2>6, EmitOneTypes, WriteRowsTypes DEF TypeOK, CommitFlag
<1> QED BY <1>1, <1>2 DEF SetFlag

\* ... of moveMessage, its folder lookup included ...
LEMMA TypeMoveMessage ==
  ASSUME TypeOK, NEW r \in Requests, MoveMessage(r)
  PROVE  TypeOK'
<1>1. CASE LoadForMove(r)
  <2>1. req' \in [Requests -> Request]
    <3>1. PICK m \in Messages, to \in Folders :
            /\ messages[m] # Absent
            /\ Becomes(r, [stage |-> "find_folder", message_id |-> m, to |-> to,
                           from |-> messages[m].folder_id])
      BY <1>1 DEF LoadForMove
    <3>2. messages[m].folder_id \in Folders
      BY <3>1 DEF TypeOK, Row
    <3> QED BY <3>1, <3>2 DEF Becomes, TypeOK, Request
  <2> QED BY <1>1, <2>1 DEF TypeOK, LoadForMove, logVars
<1>2. CASE FindTargetFolder(r)
  <2>1. req[r].message_id \in Messages /\ req[r].to \in Folders
    BY <1>2, LookupRequest DEF FindTargetFolder, TypeOK
  <2>2. EnteredAt(req[r].to, clock) \in Nat \cup {Null}
    BY <2>1, EntryStamp DEF TypeOK
  <2>3. req' \in [Requests -> Request]
    BY <1>2, <2>1, <2>2 DEF FindTargetFolder, Becomes, TypeOK, Request, Event, MovedEvent
  <2> QED BY <1>2, <2>3 DEF TypeOK, FindTargetFolder, logVars
<1>3. CASE CommitMove(r)
  <2> DEFINE e == req[r].event
             new == Moved(messages[e.message_id], e.folder_id, e.folder_entered_at,
                          last_version + 1)
  <2>1. e \in Event /\ e \in MovedEvent
    BY <1>3, BatchRequest, EventKinds DEF CommitMove, TypeOK
  <2>2. new \in Row \cup {Absent}
    <3>1. messages[e.message_id] \in Row \cup {Absent} /\ last_version + 1 \in Nat
      BY <2>1, EventKinds DEF TypeOK
    <3>2. e.folder_id \in Folders /\ e.folder_entered_at \in Nat \cup {Null}
      BY <2>1 DEF MovedEvent
    <3> HIDE DEF e
    <3> QED BY <3>1, <3>2, MovedTypes
  <2>3. [messages EXCEPT ![e.message_id] = new] \in [Messages -> Row \cup {Absent}]
    BY <2>1, <2>2 DEF TypeOK, MovedEvent
  <2>4. req' \in [Requests -> Request]
    BY <1>3 DEF CommitMove, Becomes, TypeOK, Request
  <2>5. EmitOne(e) /\ WriteRows([messages EXCEPT ![e.message_id] = new])
    BY <1>3 DEF CommitMove
  <2> HIDE DEF e, new
  <2> QED BY <1>3, <2>1, <2>3, <2>4, <2>5, EmitOneTypes, WriteRowsTypes DEF TypeOK, CommitMove
<1> QED BY <1>1, <1>2, <1>3 DEF MoveMessage

\* ... of permanentDelete and its best-effort raw delete ...
LEMMA TypePermanentDelete ==
  ASSUME TypeOK, NEW r \in Requests, PermanentDelete(r)
  PROVE  TypeOK'
<1>1. CASE LoadForDelete(r)
  <2>1. PICK m \in Messages :
          /\ messages[m] # Absent
          /\ Becomes(r, [stage |-> "check_trash", message_id |-> m,
                         from |-> messages[m].folder_id])
    BY <1>1 DEF LoadForDelete
  <2>2. messages[m].folder_id \in Folders
    BY <2>1 DEF TypeOK, Row
  <2>3. req' \in [Requests -> Request]
    BY <2>1, <2>2 DEF Becomes, TypeOK, Request
  <2> QED BY <1>1, <2>3 DEF TypeOK, LoadForDelete, logVars
<1>2. CASE CheckInTrash(r)
  <2>1. req[r].message_id \in Messages
    BY <1>2, LookupRequest DEF CheckInTrash, TypeOK
  <2>2. req' \in [Requests -> Request]
    BY <1>2, <2>1 DEF CheckInTrash, Becomes, TypeOK, Request, Event, DeletedEvent
  <2> QED BY <1>2, <2>2 DEF TypeOK, CheckInTrash, logVars
<1>3. CASE CommitDelete(r)
  <2> DEFINE e == req[r].event
  <2>1. e \in Event /\ e.message_id \in Messages
    BY <1>3, BatchRequest, EventKinds DEF CommitDelete, TypeOK
  <2>2. [messages EXCEPT ![e.message_id] = Absent] \in [Messages -> Row \cup {Absent}]
    BY <2>1 DEF TypeOK
  <2>3. req' \in [Requests -> Request]
    BY <1>3, <2>1 DEF CommitDelete, Becomes, TypeOK, Request
  <2>4. EmitOne(e) /\ WriteRows([messages EXCEPT ![e.message_id] = Absent])
    BY <1>3 DEF CommitDelete
  <2> HIDE DEF e
  <2> QED BY <1>3, <2>1, <2>2, <2>3, <2>4, EmitOneTypes, WriteRowsTypes DEF TypeOK, CommitDelete
<1>4. CASE DeleteRawEmail(r)
  <2>1. req' \in [Requests -> Request]
    BY <1>4 DEF DeleteRawEmail, Becomes, TypeOK, Request
  <2> QED BY <1>4, <2>1 DEF TypeOK, DeleteRawEmail, logVars
<1> QED BY <1>1, <1>2, <1>3, <1>4 DEF PermanentDelete

\* One batch of folder deletion.
LEMMA RehomeTypes ==
  ASSUME TypeOK, NEW S \in SUBSET Messages, NEW now \in Nat, Rehome(S, now)
  PROVE  /\ messages' \in [Messages -> Row \cup {Absent}] /\ trashed' \subseteq Messages
         /\ last_version' \in Nat
         /\ DOMAIN sync_events' \subseteq 1..last_version'
         /\ sync_events' = [v \in DOMAIN sync_events' |-> sync_events'[v]]
         /\ \A v \in DOMAIN sync_events' : sync_events'[v] \in Event
<1> DEFINE batch(o) == [v \in DOMAIN o |->
                          [event_type |-> "message_moved", message_id |-> o[v],
                           folder_id |-> "system.inbox", folder_entered_at |-> Null,
                           created_at |-> now]]
           rows(o) == [m \in Messages |->
                         IF m \in S
                         THEN Moved(messages[m], "system.inbox", Null,
                                    CHOOSE v \in DOMAIN o : o[v] = m)
                         ELSE messages[m]]
<1>1. PICK o \in Orders(S) : Emit(Cardinality(S), batch(o)) /\ WriteRows(rows(o))
  BY DEF Rehome
<1>2. /\ DOMAIN o = Allocated(Cardinality(S))
      /\ \A v \in DOMAIN o : o[v] \in S /\ v \in Nat
  BY OrdersFact
<1>3. \A v \in DOMAIN o : batch(o)[v] \in Event
  BY <1>2 DEF Event, MovedEvent, Folders, SystemFolders
<1>4. ASSUME NEW m \in Messages PROVE rows(o)[m] \in Row \cup {Absent}
  <2> DEFINE v == CHOOSE w \in DOMAIN o : o[w] = m
  <2>1. ASSUME m \in S PROVE v \in Nat
    <3>1. \E w \in DOMAIN o : o[w] = m
      BY <2>1, OrdersFact
    <3> QED BY <1>2, <3>1
  <2> QED BY <2>1, MovedTypes DEF TypeOK, Folders, SystemFolders
<1> QED BY <1>1, <1>2, <1>3, <1>4, EmitTypes, WriteRowsTypes, ChunkFinite

\* ... and of deleteFolder, from its reads to the drop.
LEMMA TypeDeleteFolder ==
  ASSUME TypeOK, NEW r \in Requests, DeleteFolder(r)
  PROVE  TypeOK'
<1>1. CASE LoadFolder(r)
  <2>1. req' \in [Requests -> Request]
    BY <1>1 DEF LoadFolder, Becomes, TypeOK, Request
  <2> QED BY <1>1, <2>1 DEF TypeOK, LoadFolder, logVars
<1>2. CASE SelectMessages(r)
  <2>1. req[r].folder \in CustomFolders
    BY <1>2, LookupRequest DEF SelectMessages, TypeOK
  <2>2. req' \in [Requests -> Request]
    BY <1>2, <2>1 DEF SelectMessages, Becomes, TypeOK, Request
  <2> QED BY <1>2, <2>2 DEF TypeOK, SelectMessages, logVars
<1>3. CASE RehomeChunk(r)
  <2>1. /\ req[r] = [stage |-> "rehome", folder |-> req[r].folder, now |-> req[r].now,
                     todo |-> req[r].todo]
        /\ req[r].folder \in CustomFolders /\ req[r].now \in Nat
        /\ req[r].todo \subseteq Messages
    BY <1>3, RehomeRequest DEF RehomeChunk, TypeOK
  <2>2. PICK S \in SUBSET req[r].todo :
          Rehome(S, req[r].now) /\ Becomes(r, [req[r] EXCEPT !.todo = @ \ S])
    BY <1>3 DEF RehomeChunk
  <2>3. [req[r] EXCEPT !.todo = @ \ S]
          = [stage |-> "rehome", folder |-> req[r].folder, now |-> req[r].now,
             todo |-> req[r].todo \ S]
    BY <2>1
  <2>4. req' \in [Requests -> Request]
    BY <2>1, <2>2, <2>3 DEF Becomes, TypeOK, Request
  <2>5. S \in SUBSET Messages
    BY <2>1
  <2> QED BY <1>3, <2>1, <2>2, <2>4, <2>5, RehomeTypes DEF TypeOK, RehomeChunk
<1>4. CASE RehomeLastAndDrop(r)
  <2>1. /\ req[r].folder \in CustomFolders /\ req[r].now \in Nat
        /\ req[r].todo \in SUBSET Messages
    BY <1>4, RehomeRequest DEF RehomeLastAndDrop, TypeOK
  <2>2. req' \in [Requests -> Request]
    BY <1>4 DEF RehomeLastAndDrop, Becomes, TypeOK, Request
  <2>3. SystemFolders \subseteq folders'
    BY <1>4, <2>1, FoldersAssumption DEF RehomeLastAndDrop, TypeOK
  <2>4. Rehome(req[r].todo, req[r].now)
    BY <1>4 DEF RehomeLastAndDrop
  <2> QED BY <1>4, <2>1, <2>2, <2>3, <2>4, RehomeTypes DEF TypeOK, RehomeLastAndDrop
<1> QED BY <1>1, <1>2, <1>3, <1>4 DEF DeleteFolder

\* A running retention job carries its start time, its selection and its chunk.
LEMMA RetentionRecord ==
  ASSUME TypeOK, retention.stage = "deleting" \/ retention.stage = "raw"
  PROVE  /\ retention = [stage |-> retention.stage, now |-> retention.now,
                         todo |-> retention.todo, chunk |-> retention.chunk]
         /\ retention.now \in Nat
         /\ retention.todo \subseteq Messages /\ retention.chunk \subseteq Messages
BY DEF TypeOK, RetentionState, Idle

\* The retention job keeps the types, crashes and failed chunks included.
LEMMA TypeRetention ==
  ASSUME TypeOK, RetentionJob
  PROVE  TypeOK'
<1>1. CASE StartRetention
  BY <1>1 DEF StartRetention, TypeOK, RetentionState, logVars
<1>2. CASE CommitRetentionChunk
  <2> DEFINE batch(o) == [v \in DOMAIN o |->
                            [event_type |-> "message_deleted", message_id |-> o[v],
                             created_at |-> retention.now]]
             rows(S) == [m \in Messages |-> IF m \in S THEN Absent ELSE messages[m]]
  <2>1. /\ retention = [stage |-> "deleting", now |-> retention.now,
                        todo |-> retention.todo, chunk |-> retention.chunk]
        /\ retention.now \in Nat
        /\ retention.todo \subseteq Messages
    BY <1>2, RetentionRecord DEF CommitRetentionChunk
  <2>2. PICK S \in SUBSET retention.todo : \E o \in Orders(S) :
          /\ Emit(Cardinality(S), batch(o)) /\ WriteRows(rows(S))
          /\ retention' = [retention EXCEPT !.stage = "raw", !.todo = @ \ S, !.chunk = S]
    BY <1>2 DEF CommitRetentionChunk
  <2> PICK o \in Orders(S) : Emit(Cardinality(S), batch(o))
    BY <2>2
  <2>3. S \in SUBSET Messages
    BY <2>1
  <2>4. /\ DOMAIN o = Allocated(Cardinality(S))
        /\ \A v \in DOMAIN o : o[v] \in S
    BY <2>3, OrdersFact
  <2>5. \A v \in DOMAIN o : batch(o)[v] \in Event
    BY <2>1, <2>3, <2>4 DEF Event, DeletedEvent
  <2>6. rows(S) \in [Messages -> Row \cup {Absent}]
    BY DEF TypeOK
  <2>7. retention' \in RetentionState
    BY <2>1, <2>2, <2>3 DEF RetentionState
  <2>8. UNCHANGED <<folders, bucket, clock, req, ingested>>
    BY <1>2 DEF CommitRetentionChunk
  <2> HIDE DEF rows, batch
  <2> QED BY <2>2, <2>3, <2>4, <2>5, <2>6, <2>7, <2>8, EmitTypes, WriteRowsTypes, ChunkFinite
          DEF TypeOK
<1>3. CASE SkipRetentionChunk
  <2>1. retention' \in RetentionState
    BY <1>3, RetentionRecord DEF SkipRetentionChunk, RetentionState
  <2> QED BY <1>3, <2>1 DEF SkipRetentionChunk, TypeOK, logVars
<1>4. CASE DeleteChunkRaw
  <2>1. retention' \in RetentionState
    BY <1>4, RetentionRecord DEF DeleteChunkRaw, RetentionState
  <2> QED BY <1>4, <2>1 DEF DeleteChunkRaw, TypeOK, logVars
<1>5. CASE PruneSyncEvents
  BY <1>5 DEF PruneSyncEvents, TypeOK, RetentionState
<1>6. CASE RetentionCrash
  BY <1>6 DEF RetentionCrash, TypeOK, RetentionState, logVars
<1> QED BY <1>1, <1>2, <1>3, <1>4, <1>5, <1>6 DEF RetentionJob

\* Every step of the store keeps the types.
LEMMA TypeNext == TypeOK /\ [Next]_vars => TypeOK'
<1> SUFFICES ASSUME TypeOK, [Next]_vars PROVE TypeOK'
  OBVIOUS
<1>1. CASE UNCHANGED vars
  BY <1>1 DEF vars, TypeOK
<1>2. ASSUME NEW r \in Requests, Fail(r) PROVE TypeOK'
  BY <1>2 DEF Fail, Becomes, TypeOK, Request, logVars
<1>3. CASE Tick
  BY <1>3 DEF Tick, TypeOK, logVars
<1> QED BY <1>1, <1>2, <1>3, TypeIngest, TypeSetFlag, TypeMoveMessage, TypePermanentDelete,
           TypeDeleteFolder, TypeRetention DEF Next

\* Type correctness of the server's tables, bucket and handlers.
THEOREM TypeCorrect == Spec => []TypeOK
BY TypeInit, TypeNext, PTL DEF Spec

-----------------------------------------------------------------------------
(* MailboxStore implements DeltaLog: every interleaving of the handlers,   *)
(* the folder deletion and the retention job leaves a sync log from which  *)
(* a client reproduces the table.                                          *)

\* A batch that emits one event and treats its message's row as a client would
\* is one Append of the abstract log.
LEMMA AppendOne ==
  ASSUME TypeOK, NEW e \in Event, EmitOne(e), NEW row,
         messages' = [messages EXCEPT ![e.message_id] = row],
         row = ApplySyncEvent(messages[e.message_id], last_version + 1, e)
  PROVE  Log!Append(sync_events', last_version')
<1>1. last_version \in Nat /\ last_version' = last_version + 1
  BY DEF EmitOne, Emit, TypeOK
<1>2. Log!NewVersions(last_version') = {last_version + 1}
  BY <1>1 DEF Log!NewVersions
<1>3. Allocated(1) = {last_version + 1}
  BY <1>1 DEF Allocated
<1>4. sync_events'[last_version + 1] = e
  BY <1>3 DEF EmitOne, Emit
<1>5. sync_events' = [v \in DOMAIN sync_events \cup Log!NewVersions(last_version') |->
                        IF v \in Log!NewVersions(last_version') THEN sync_events'[v]
                        ELSE sync_events[v]]
  BY <1>2, <1>3 DEF EmitOne, Emit
<1>6. e.message_id \in Messages /\ messages \in [Messages -> Row \cup {Absent}]
  BY EventKinds DEF TypeOK
<1>7. /\ DOMAIN messages' = Messages
      /\ messages'[e.message_id] = row
      /\ \A m \in Messages : m # e.message_id => messages'[m] = messages[m]
  BY <1>6
<1>8. \A v \in Log!NewVersions(last_version') :
        messages'[sync_events'[v].message_id]
          = ApplySyncEvent(messages[sync_events'[v].message_id], v, sync_events'[v])
  BY <1>2, <1>4, <1>7
<1>9. \A m \in Messages :
        (\A v \in Log!NewVersions(last_version') : sync_events'[v].message_id # m)
          => messages'[m] = messages[m]
  BY <1>2, <1>4, <1>7
<1>10. \A v, w \in Log!NewVersions(last_version') :
         sync_events'[v].message_id = sync_events'[w].message_id => v = w
  BY <1>2
<1>11. last_version' > last_version
  BY <1>1
<1> QED BY <1>5, <1>7, <1>8, <1>9, <1>10, <1>11 DEF Log!Append, Log!ApplySyncEvent, ApplySyncEvent

\* The batch of inbound email is an Append.
LEMMA CommitEmailAppends ==
  ASSUME TypeOK, NEW r \in Requests, CommitEmail(r)
  PROVE  Log!Append(sync_events', last_version')
<1> DEFINE e == req[r].event
           row == [e.message EXCEPT !.sync_version = last_version + 1]
           new == [e EXCEPT !.message = [@ EXCEPT !.sync_version = last_version + 1]]
<1>1. e \in CreatedEvent
  BY BatchRequest, EventKinds DEF CommitEmail, TypeOK
<1>2. row \in Row
  BY <1>1 DEF CreatedEvent, Row, TypeOK
<1>3. /\ new \in Event /\ new.message = row /\ new.message_id = e.message_id
      /\ new.event_type = "message_created"
  BY <1>1, <1>2 DEF CreatedEvent, Event
<1>4. EmitOne(new) /\ messages' = [messages EXCEPT ![e.message_id] = row]
  BY DEF CommitEmail, WriteRows
<1>5. row = ApplySyncEvent(messages[new.message_id], last_version + 1, new)
  BY <1>3 DEF ApplySyncEvent
<1> HIDE DEF e, row, new
<1> QED BY <1>3, <1>4, <1>5, AppendOne

\* The batch of setFlag is, whether its row is still there or not.
LEMMA CommitFlagAppends ==
  ASSUME TypeOK, NEW r \in Requests, CommitFlag(r)
  PROVE  Log!Append(sync_events', last_version')
<1> DEFINE e == req[r].event
           row == messages[e.message_id]
           new == IF row = Absent THEN Absent
                  ELSE [row EXCEPT !.flags = [@ EXCEPT ![e.flag] = e.value],
                                   !.sync_version = last_version + 1]
<1>1. e \in Event /\ e.event_type = "message_updated"
  BY BatchRequest DEF CommitFlag, TypeOK
<1>2. EmitOne(e) /\ messages' = [messages EXCEPT ![e.message_id] = new]
  BY DEF CommitFlag, WriteRows
<1>3. new = ApplySyncEvent(row, last_version + 1, e)
  BY <1>1 DEF ApplySyncEvent
<1> HIDE DEF e, new
<1> QED BY <1>1, <1>2, <1>3, AppendOne

\* The batch of moveMessage is.
LEMMA CommitMoveAppends ==
  ASSUME TypeOK, NEW r \in Requests, CommitMove(r)
  PROVE  Log!Append(sync_events', last_version')
<1> DEFINE e == req[r].event
           row == messages[e.message_id]
           new == Moved(row, e.folder_id, e.folder_entered_at, last_version + 1)
<1>1. e \in Event /\ e.event_type = "message_moved"
  BY BatchRequest DEF CommitMove, TypeOK
<1>2. EmitOne(e) /\ messages' = [messages EXCEPT ![e.message_id] = new]
  BY DEF CommitMove, WriteRows
<1>3. new = ApplySyncEvent(row, last_version + 1, e)
  BY <1>1 DEF ApplySyncEvent, Moved
<1> HIDE DEF e, new
<1> QED BY <1>1, <1>2, <1>3, AppendOne

\* The batch of permanentDelete is.
LEMMA CommitDeleteAppends ==
  ASSUME TypeOK, NEW r \in Requests, CommitDelete(r)
  PROVE  Log!Append(sync_events', last_version')
<1> DEFINE e == req[r].event
<1>1. e \in Event /\ e.event_type = "message_deleted"
  BY BatchRequest DEF CommitDelete, TypeOK
<1>2. EmitOne(e) /\ messages' = [messages EXCEPT ![e.message_id] = Absent]
  BY DEF CommitDelete, WriteRows
<1>3. Absent = ApplySyncEvent(messages[e.message_id], last_version + 1, e)
  BY <1>1 DEF ApplySyncEvent
<1> HIDE DEF e
<1> QED BY <1>1, <1>2, <1>3, AppendOne

\* The same for a batch that treats every message of a nonempty S once.
LEMMA AppendMany ==
  ASSUME TypeOK, NEW S \in SUBSET Messages, S # {}, NEW o \in Orders(S),
         NEW batch, Emit(Cardinality(S), batch),
         \A v \in DOMAIN o : batch[v].message_id = o[v],
         DOMAIN messages' = Messages,
         \A m \in Messages \ S : messages'[m] = messages[m],
         \A v \in DOMAIN o : messages'[o[v]] = ApplySyncEvent(messages[o[v]], v, batch[v])
  PROVE  Log!Append(sync_events', last_version')
<1>1. Cardinality(S) \in Nat /\ Cardinality(S) > 0
  BY ChunkFinite, FiniteAssumption, FS_Subset, FS_EmptySet
<1>2. /\ DOMAIN o = Allocated(Cardinality(S))
      /\ \A v \in DOMAIN o : o[v] \in S
      /\ \A v, w \in DOMAIN o : o[v] = o[w] => v = w
      /\ \A m \in S : \E v \in DOMAIN o : o[v] = m
  BY OrdersFact
<1>3. last_version' > last_version
  BY <1>1 DEF Emit, TypeOK
<1>4. Log!NewVersions(last_version') = DOMAIN o
  BY <1>2 DEF Log!NewVersions, Allocated, Emit
<1>5. \A v \in DOMAIN o : sync_events'[v] = batch[v]
  BY <1>2 DEF Emit
<1>6. sync_events' = [v \in DOMAIN sync_events \cup DOMAIN o |->
                        IF v \in DOMAIN o THEN sync_events'[v] ELSE sync_events[v]]
  BY <1>2 DEF Emit
<1>7. \A v, w \in DOMAIN o :
        sync_events'[v].message_id = sync_events'[w].message_id => v = w
  BY <1>2, <1>5
<1>8. \A v \in DOMAIN o :
        messages'[sync_events'[v].message_id]
          = ApplySyncEvent(messages[sync_events'[v].message_id], v, sync_events'[v])
  BY <1>5
<1>9. \A m \in Messages :
        (\A v \in DOMAIN o : sync_events'[v].message_id # m) => messages'[m] = messages[m]
  BY <1>2, <1>5
<1> QED BY <1>3, <1>4, <1>6, <1>7, <1>8, <1>9 DEF Log!Append, Log!ApplySyncEvent, ApplySyncEvent

\* A batch of folder deletion appends, unless it has no message to move.
LEMMA RehomeAppends ==
  ASSUME TypeOK, NEW S \in SUBSET Messages, NEW now \in Nat, Rehome(S, now)
  PROVE  Log!Append(sync_events', last_version') \/ UNCHANGED Log!dlVars
<1> DEFINE batch(o) == [v \in DOMAIN o |->
                          [event_type |-> "message_moved", message_id |-> o[v],
                           folder_id |-> "system.inbox", folder_entered_at |-> Null,
                           created_at |-> now]]
           rows(o) == [m \in Messages |->
                         IF m \in S
                         THEN Moved(messages[m], "system.inbox", Null,
                                    CHOOSE v \in DOMAIN o : o[v] = m)
                         ELSE messages[m]]
<1>1. PICK o \in Orders(S) : Emit(Cardinality(S), batch(o)) /\ messages' = rows(o)
  BY DEF Rehome, WriteRows
<1>2. /\ DOMAIN o = Allocated(Cardinality(S))
      /\ \A v \in DOMAIN o : o[v] \in S
      /\ \A v, w \in DOMAIN o : o[v] = o[w] => v = w
  BY OrdersFact
<1>3. ASSUME NEW v \in DOMAIN o
      PROVE  messages'[o[v]] = ApplySyncEvent(messages[o[v]], v, batch(o)[v])
  <2>1. v = CHOOSE w \in DOMAIN o : o[w] = o[v]
    BY <1>2
  <2>2. messages'[o[v]] = Moved(messages[o[v]], "system.inbox", Null, v)
    BY <1>1, <1>2, <2>1
  <2>3. batch(o)[v].event_type = "message_moved" /\ batch(o)[v].folder_id = "system.inbox"
        /\ batch(o)[v].folder_entered_at = Null
    OBVIOUS
  <2> HIDE DEF batch
  <2> QED BY <2>2, <2>3 DEF Moved, ApplySyncEvent
<1>4. CASE S # {}
  <2>1. \A v \in DOMAIN o : batch(o)[v].message_id = o[v]
    OBVIOUS
  <2>2. DOMAIN messages' = Messages /\ \A m \in Messages \ S : messages'[m] = messages[m]
    BY <1>1
  <2> HIDE DEF batch, rows
  <2> QED BY <1>1, <1>3, <1>4, <2>1, <2>2, AppendMany
<1>5. CASE S = {}
  <2>1. Cardinality(S) = 0
    BY <1>5, FS_EmptySet
  <2>2. last_version' = last_version /\ Allocated(Cardinality(S)) = {}
    BY <1>1, <2>1 DEF Emit, Allocated, TypeOK
  <2>3. sync_events' = sync_events
    BY <1>1, <2>2 DEF Emit, TypeOK
  <2>4. messages' = messages
    BY <1>1, <1>5 DEF TypeOK
  <2> QED BY <2>2, <2>3, <2>4 DEF Log!dlVars
<1> QED BY <1>4, <1>5

\* A chunk of the retention job appends, in whatever order it deletes.
LEMMA RetentionChunkAppends ==
  ASSUME TypeOK, CommitRetentionChunk
  PROVE  Log!Append(sync_events', last_version')
<1> DEFINE batch(o) == [v \in DOMAIN o |->
                          [event_type |-> "message_deleted", message_id |-> o[v],
                           created_at |-> retention.now]]
<1>1. PICK S \in SUBSET retention.todo :
        /\ S # {}
        /\ \E o \in Orders(S) : Emit(Cardinality(S), batch(o))
        /\ messages' = [m \in Messages |-> IF m \in S THEN Absent ELSE messages[m]]
  BY DEF CommitRetentionChunk, WriteRows
<1>2. PICK o \in Orders(S) : Emit(Cardinality(S), batch(o))
  BY <1>1
<1>3. S \in SUBSET Messages
  BY RetentionRecord DEF CommitRetentionChunk
<1>4. \A v \in DOMAIN o : o[v] \in S
  BY <1>3, OrdersFact
<1>5. ASSUME NEW v \in DOMAIN o
      PROVE  messages'[o[v]] = ApplySyncEvent(messages[o[v]], v, batch(o)[v])
  <2>1. batch(o)[v].event_type = "message_deleted"
    OBVIOUS
  <2> HIDE DEF batch
  <2> QED BY <1>1, <1>3, <1>4, <2>1 DEF ApplySyncEvent
<1>6. \A v \in DOMAIN o : batch(o)[v].message_id = o[v]
  OBVIOUS
<1>7. DOMAIN messages' = Messages /\ \A m \in Messages \ S : messages'[m] = messages[m]
  BY <1>1
<1> HIDE DEF batch
<1> QED BY <1>1, <1>2, <1>3, <1>5, <1>6, <1>7, AppendMany

\* Every step of the store is an Append, a Prune or leaves table and log alone.
LEMMA StepRefines ==
  ASSUME TypeOK, [Next]_vars
  PROVE  [Log!Next]_(Log!dlVars)
<1> USE DEF Log!dlVars
<1>1. CASE UNCHANGED vars
  BY <1>1 DEF vars
<1>2. ASSUME NEW r \in Requests, Ingest(r) PROVE [Log!Next]_(Log!dlVars)
  BY <1>2, CommitEmailAppends
     DEF Ingest, ReceiveEmail, PutRawEmail, RejectEmail, logVars, Log!Next
<1>3. ASSUME NEW r \in Requests, SetFlag(r) PROVE [Log!Next]_(Log!dlVars)
  BY <1>3, CommitFlagAppends DEF SetFlag, LoadForFlag, logVars, Log!Next
<1>4. ASSUME NEW r \in Requests, MoveMessage(r) PROVE [Log!Next]_(Log!dlVars)
  BY <1>4, CommitMoveAppends DEF MoveMessage, LoadForMove, FindTargetFolder, logVars, Log!Next
<1>5. ASSUME NEW r \in Requests, PermanentDelete(r) PROVE [Log!Next]_(Log!dlVars)
  BY <1>5, CommitDeleteAppends
     DEF PermanentDelete, LoadForDelete, CheckInTrash, DeleteRawEmail, logVars, Log!Next
<1>6. ASSUME NEW r \in Requests, DeleteFolder(r) PROVE [Log!Next]_(Log!dlVars)
  <2>1. CASE RehomeChunk(r)
    <3>1. PICK S \in SUBSET req[r].todo : Rehome(S, req[r].now)
      BY <2>1 DEF RehomeChunk
    <3>2. req[r].now \in Nat /\ S \in SUBSET Messages
      BY <2>1, RehomeRequest DEF RehomeChunk, TypeOK
    <3> QED BY <3>1, <3>2, RehomeAppends DEF Log!Next
  <2>2. CASE RehomeLastAndDrop(r)
    <3>1. req[r].now \in Nat /\ req[r].todo \in SUBSET Messages
      BY <2>2, RehomeRequest DEF RehomeLastAndDrop, TypeOK
    <3> QED BY <2>2, <3>1, RehomeAppends DEF RehomeLastAndDrop, Log!Next
  <2> QED BY <1>6, <2>1, <2>2 DEF DeleteFolder, LoadFolder, SelectMessages, logVars
<1>7. ASSUME NEW r \in Requests, Fail(r) PROVE [Log!Next]_(Log!dlVars)
  BY <1>7 DEF Fail, logVars
<1>8. CASE Tick
  BY <1>8 DEF Tick, logVars
<1>9. CASE PruneSyncEvents
  <2> DEFINE kept == {v \in DOMAIN sync_events :
                        sync_events[v].created_at + SyncAge >= retention.now}
             V == DOMAIN sync_events \ kept
  <2>1. sync_events' = [v \in kept |-> sync_events[v]] /\ UNCHANGED <<messages, last_version>>
    BY <1>9 DEF PruneSyncEvents
  <2>2. V \in SUBSET DOMAIN sync_events /\ DOMAIN sync_events \ V = kept
    OBVIOUS
  <2> HIDE DEF kept, V
  <2>3. Log!Prune(V)
    BY <2>1, <2>2 DEF Log!Prune
  <2> QED BY <2>2, <2>3 DEF Log!Next
<1>10. CASE RetentionJob
  BY <1>9, <1>10, RetentionChunkAppends
     DEF RetentionJob, StartRetention, SkipRetentionChunk, DeleteChunkRaw, RetentionCrash,
         logVars, Log!Next
<1> QED BY <1>1, <1>2, <1>3, <1>4, <1>5, <1>6, <1>7, <1>8, <1>10 DEF Next

\* The sync log is a faithful redo log of the message table.
THEOREM StoreImplementsLog == Spec => RedoLog
<1>1. Init => Log!Init
  BY DEF Init, Log!Init
<1>2. TypeOK /\ [Next]_vars => [Log!Next]_(Log!dlVars)
  BY StepRefines
<1> QED BY <1>1, <1>2, TypeCorrect, PTL DEF Spec, RedoLog, Log!Spec

-----------------------------------------------------------------------------
(* IInv is inductive.  Steps are grouped by what they touch: a handler's   *)
(* reads change only its own record (Quiet), each committing step has a    *)
(* lemma of its own.                                                       *)

\* The empty mailbox satisfies the invariant.
LEMMA SafetyInit == Init => IInv
<1> SUFFICES ASSUME Init PROVE IInv
  OBVIOUS
<1>1. TypeOK
  BY TypeInit
<1> QED BY <1>1 DEF Init, IInv, RowHasRaw, RowInExistingFolder, RetentionClock,
        NewestEventOfRow, IdsAreIngested, CreatingIsPrivate, RawDeletesAreLate,
        DoomedWereTrashed, PendingStamps, VersionsBounded, Creating, Mentions, Idle

\* A handler moves on without writing anything shared: its new record `q` refers
\* only to messages it referred to before or whose row it has just read.
LEMMA Quiet ==
  ASSUME IInv, TypeOK', NEW r \in Requests, NEW q \in Request,
         req' = [req EXCEPT ![r] = q],
         UNCHANGED <<logVars, folders, bucket, retention, ingested>>,
         ~Creating(q),
         \A m \in Mentions(q) : m \in Mentions(req[r]) \/ messages[m] # Absent,
         q.stage = "delete_raw" => messages[q.message_id] = Absent,
         q.stage = "check_trash" /\ q.from = "system.trash" => q.message_id \in trashed,
         q.stage = "batch" /\ q.event.event_type = "message_deleted"
           => q.event.message_id \in trashed,
         q.stage = "batch" /\ q.event.event_type = "message_moved"
           => StampMatches(q.event.folder_id, q.event.folder_entered_at)
  PROVE  IInv'
<1> USE DEF logVars
<1>1. req'[r] = q /\ \A s \in Requests : s # r => req'[s] = req[s]
  BY DEF IInv, TypeOK
<1>2. (RowHasRaw /\ RowInExistingFolder /\ RetentionClock /\ NewestEventOfRow /\ VersionsBounded)'
  BY DEF IInv, RowHasRaw, RowInExistingFolder, RetentionClock, NewestEventOfRow, VersionsBounded
<1>3. \A m \in Mentions(q) : m \in ingested
  BY DEF IInv, IdsAreIngested, Mentions
<1>4. IdsAreIngested'
  BY <1>1, <1>3 DEF IInv, IdsAreIngested, Mentions
<1>5. CreatingIsPrivate'
  <2> SUFFICES ASSUME NEW s \in Requests, Creating(req[s]), s # r,
                      NEW m, m = req[s].event.message_id
               PROVE  /\ messages[m] = Absent
                      /\ \A v \in DOMAIN sync_events : sync_events[v].message_id # m
                      /\ \A t \in Requests \ {s} : m \notin Mentions(req'[t])
                      /\ m \notin Mentions(retention)
                      /\ req[s].stage = "batch" => m \in bucket
    BY <1>1 DEF CreatingIsPrivate, Creating, Mentions
  <2>1. /\ messages[m] = Absent
        /\ \A v \in DOMAIN sync_events : sync_events[v].message_id # m
        /\ \A t \in Requests \ {s} : m \notin Mentions(req[t])
        /\ m \notin Mentions(retention)
        /\ req[s].stage = "batch" => m \in bucket
    BY DEF IInv, CreatingIsPrivate
  <2>2. m \notin Mentions(q)
    BY <2>1
  <2> QED BY <1>1, <2>1, <2>2
<1>6. RawDeletesAreLate'
  BY <1>1 DEF IInv, RawDeletesAreLate
<1>7. DoomedWereTrashed'
  BY <1>1 DEF IInv, DoomedWereTrashed
<1>8. PendingStamps'
  BY <1>1 DEF IInv, PendingStamps, StampMatches, Creating
<1> QED BY <1>2, <1>4, <1>5, <1>6, <1>7, <1>8 DEF IInv

-----------------------------------------------------------------------------
(* Steps that only read                                                    *)

\* The reads of the handlers, and their early returns, are quiet.
LEMMA SafetyReads ==
  ASSUME IInv, TypeOK', NEW r \in Requests,
         \/ LoadForFlag(r) \/ LoadForMove(r) \/ LoadForDelete(r)
         \/ FindTargetFolder(r) \/ CheckInTrash(r) \/ LoadFolder(r)
         \/ SelectMessages(r) \/ Fail(r) \/ RejectEmail(r)
  PROVE  IInv'
<1> DEFINE q == req'[r]
<1> USE DEF Becomes
<1>0. req \in [Requests -> Request] /\ req[r] \in Request /\ q \in Request
  BY DEF IInv, TypeOK
<1>1. CASE LoadForFlag(r)
  <2>1. PICK m \in Messages, flag \in Flags, value \in BOOLEAN :
          /\ messages[m] # Absent
          /\ Becomes(r, [stage |-> "batch",
               event |-> [event_type |-> "message_updated", message_id |-> m,
                          flag |-> flag, value |-> value, created_at |-> clock]])
    BY <1>1 DEF LoadForFlag
  <2>2. q = [stage |-> "batch",
             event |-> [event_type |-> "message_updated", message_id |-> m,
                        flag |-> flag, value |-> value, created_at |-> clock]]
    BY <1>0, <2>1
  <2>3. req' = [req EXCEPT ![r] = q]
    BY <2>1, <2>2
  <2>4. ~Creating(q) /\ \A x \in Mentions(q) : messages[x] # Absent
    BY <2>1, <2>2 DEF Creating, Mentions
  <2>5. UNCHANGED <<logVars, folders, bucket, retention, ingested>>
    BY <1>1 DEF LoadForFlag
  <2> QED BY <1>0, <2>2, <2>3, <2>4, <2>5, Quiet
<1>2. CASE LoadForMove(r)
  <2>1. PICK m \in Messages, to \in Folders :
          /\ messages[m] # Absent
          /\ Becomes(r, [stage |-> "find_folder", message_id |-> m, to |-> to,
                         from |-> messages[m].folder_id])
    BY <1>2 DEF LoadForMove
  <2>2. q = [stage |-> "find_folder", message_id |-> m, to |-> to,
             from |-> messages[m].folder_id]
    BY <1>0, <2>1
  <2>3. req' = [req EXCEPT ![r] = q]
    BY <2>1, <2>2
  <2>4. ~Creating(q) /\ \A x \in Mentions(q) : messages[x] # Absent
    BY <2>1, <2>2 DEF Creating, Mentions
  <2>5. UNCHANGED <<logVars, folders, bucket, retention, ingested>>
    BY <1>2 DEF LoadForMove
  <2> QED BY <1>0, <2>2, <2>3, <2>4, <2>5, Quiet
<1>3. CASE LoadForDelete(r)
  <2>1. PICK m \in Messages :
          /\ messages[m] # Absent
          /\ Becomes(r, [stage |-> "check_trash", message_id |-> m,
                         from |-> messages[m].folder_id])
    BY <1>3 DEF LoadForDelete
  <2>2. q = [stage |-> "check_trash", message_id |-> m, from |-> messages[m].folder_id]
    BY <1>0, <2>1
  <2>3. req' = [req EXCEPT ![r] = q]
    BY <2>1, <2>2
  <2>4. ~Creating(q) /\ \A x \in Mentions(q) : messages[x] # Absent
    BY <2>1, <2>2 DEF Creating, Mentions
  <2>5. q.from = "system.trash" => m \in trashed
    BY <2>1, <2>2 DEF IInv, DoomedWereTrashed, RetentionFolders
  <2>6. UNCHANGED <<logVars, folders, bucket, retention, ingested>>
    BY <1>3 DEF LoadForDelete
  <2> QED BY <1>0, <2>2, <2>3, <2>4, <2>5, <2>6, Quiet
<1>4. CASE FindTargetFolder(r)
  <2>1. q = [stage |-> "batch",
             event |-> [event_type |-> "message_moved",
                        message_id |-> req[r].message_id, folder_id |-> req[r].to,
                        folder_entered_at |-> EnteredAt(req[r].to, clock),
                        created_at |-> clock]]
    BY <1>0, <1>4 DEF FindTargetFolder
  <2>2. req' = [req EXCEPT ![r] = q]
    BY <1>4, <2>1 DEF FindTargetFolder
  <2>3. ~Creating(q) /\ \A x \in Mentions(q) : x \in Mentions(req[r])
    BY <1>4, <2>1 DEF FindTargetFolder, Creating, Mentions
  <2>4. StampMatches(q.event.folder_id, q.event.folder_entered_at)
    BY <2>1, NullAssumption DEF StampMatches, EnteredAt, IInv, TypeOK
  <2>5. UNCHANGED <<logVars, folders, bucket, retention, ingested>>
    BY <1>4 DEF FindTargetFolder
  <2> QED BY <1>0, <2>1, <2>2, <2>3, <2>4, <2>5, Quiet
<1>5. CASE CheckInTrash(r)
  <2>1. q = [stage |-> "batch",
             event |-> [event_type |-> "message_deleted",
                        message_id |-> req[r].message_id, created_at |-> clock]]
    BY <1>0, <1>5 DEF CheckInTrash
  <2>2. req' = [req EXCEPT ![r] = q]
    BY <1>5, <2>1 DEF CheckInTrash
  <2>3. ~Creating(q) /\ \A x \in Mentions(q) : x \in Mentions(req[r])
    BY <1>5, <2>1 DEF CheckInTrash, Creating, Mentions
  <2>4. req[r].message_id \in trashed
    BY <1>5 DEF CheckInTrash, IInv, DoomedWereTrashed
  <2>5. UNCHANGED <<logVars, folders, bucket, retention, ingested>>
    BY <1>5 DEF CheckInTrash
  <2> QED BY <1>0, <2>1, <2>2, <2>3, <2>4, <2>5, Quiet
<1>6. CASE LoadFolder(r)
  <2>1. PICK f \in folders \cap CustomFolders :
          Becomes(r, [stage |-> "select_messages", folder |-> f])
    BY <1>6 DEF LoadFolder
  <2>2. q = [stage |-> "select_messages", folder |-> f]
    BY <1>0, <2>1
  <2>3. req' = [req EXCEPT ![r] = q]
    BY <2>1, <2>2
  <2>5. ~Creating(q) /\ Mentions(q) = {}
    BY <2>2 DEF Creating, Mentions
  <2>4. UNCHANGED <<logVars, folders, bucket, retention, ingested>>
    BY <1>6 DEF LoadFolder
  <2> QED BY <1>0, <2>2, <2>3, <2>4, <2>5, Quiet
<1>7. CASE SelectMessages(r)
  <2>1. q = [stage |-> "rehome", folder |-> req[r].folder, now |-> clock,
             todo |-> {m \in Messages : messages[m] # Absent
                         /\ messages[m].folder_id = req[r].folder}]
    BY <1>0, <1>7 DEF SelectMessages
  <2>2. req' = [req EXCEPT ![r] = q]
    BY <1>7, <2>1 DEF SelectMessages
  <2>3. ~Creating(q) /\ \A x \in Mentions(q) : messages[x] # Absent
    BY <2>1 DEF Creating, Mentions
  <2>4. UNCHANGED <<logVars, folders, bucket, retention, ingested>>
    BY <1>7 DEF SelectMessages
  <2> QED BY <1>0, <2>1, <2>2, <2>3, <2>4, Quiet
<1>8. CASE Fail(r)
  <2>1. q = Idle /\ req' = [req EXCEPT ![r] = q] /\ ~Creating(q) /\ Mentions(q) = {}
    BY <1>0, <1>8 DEF Fail, Creating, Mentions, Idle
  <2>2. UNCHANGED <<logVars, folders, bucket, retention, ingested>>
    BY <1>8 DEF Fail
  <2> QED BY <1>0, <2>1, <2>2, Quiet DEF Idle
<1>9. CASE RejectEmail(r)
  <2>1. q = [stage |-> "delete_raw", message_id |-> req[r].event.message_id]
    BY <1>0, <1>9 DEF RejectEmail
  <2>2. req' = [req EXCEPT ![r] = q]
    BY <1>9, <2>1 DEF RejectEmail
  <2>3. ~Creating(q) /\ \A x \in Mentions(q) : x \in Mentions(req[r])
    BY <1>9, <2>1 DEF RejectEmail, Creating, Mentions
  <2>4. messages[req[r].event.message_id] = Absent
    BY <1>9 DEF RejectEmail, IInv, CreatingIsPrivate, Creating
  <2>5. UNCHANGED <<logVars, folders, bucket, retention, ingested>>
    BY <1>9 DEF RejectEmail
  <2> QED BY <1>0, <2>1, <2>2, <2>3, <2>4, <2>5, Quiet
<1> QED BY <1>1, <1>2, <1>3, <1>4, <1>5, <1>6, <1>7, <1>8, <1>9

-----------------------------------------------------------------------------
(* Ingest before its batch, and the removal of raw emails                  *)

\* An accepted email gets an id nobody has used (createId).
LEMMA SafetyReceive ==
  ASSUME IInv, TypeOK', NEW r \in Requests, ReceiveEmail(r)
  PROVE  IInv'
<1>1. PICK m \in Messages \ ingested, flags \in [Flags -> BOOLEAN], f \in folders :
        /\ ingested' = ingested \cup {m}
        /\ Becomes(r, [stage |-> "put_raw",
             event |-> [event_type |-> "message_created", message_id |-> m,
                        message |-> [flags |-> flags, folder_id |-> f,
                                     folder_entered_at |-> EnteredAt(f, clock),
                                     sync_version |-> 0],
                        created_at |-> clock]])
  BY DEF ReceiveEmail
<1> DEFINE q == req'[r]
<1>2. /\ q = [stage |-> "put_raw",
              event |-> [event_type |-> "message_created", message_id |-> m,
                         message |-> [flags |-> flags, folder_id |-> f,
                                      folder_entered_at |-> EnteredAt(f, clock),
                                      sync_version |-> 0],
                         created_at |-> clock]]
  BY <1>1 DEF Becomes, IInv, TypeOK
<1>3. \A s \in Requests : s # r => req'[s] = req[s]
  BY <1>1 DEF Becomes, IInv, TypeOK
<1>4. UNCHANGED <<logVars, folders, bucket, retention>>
  BY DEF ReceiveEmail
<1> USE <1>4 DEF logVars
<1>5. (RowHasRaw /\ RowInExistingFolder /\ RetentionClock /\ NewestEventOfRow /\ VersionsBounded)'
  BY DEF IInv, RowHasRaw, RowInExistingFolder, RetentionClock, NewestEventOfRow, VersionsBounded
<1>6. Mentions(q) = {m} /\ Creating(q) /\ q.event.message_id = m /\ q.stage = "put_raw"
  BY <1>2 DEF Mentions, Creating
<1>7. IdsAreIngested'
  BY <1>1, <1>3, <1>6 DEF IInv, IdsAreIngested
<1>8. /\ messages[m] = Absent
      /\ \A v \in DOMAIN sync_events : sync_events[v].message_id # m
      /\ \A s \in Requests : m \notin Mentions(req[s])
      /\ m \notin Mentions(retention)
  BY <1>1 DEF IInv, IdsAreIngested
<1>9. ASSUME NEW s \in Requests, s # r, Creating(req[s])
      PROVE  req[s].event.message_id # m
  <2>1. req[s].event.message_id \in Mentions(req[s])
    BY <1>9, BatchRequest, PutRawRequest DEF Creating, Mentions, IInv, TypeOK, Event,
       CreatedEvent, UpdatedEvent, MovedEvent, DeletedEvent
  <2> QED BY <2>1, <1>8
<1>10. CreatingIsPrivate'
  BY <1>3, <1>6, <1>8, <1>9 DEF IInv, CreatingIsPrivate
<1>11. RawDeletesAreLate'
  BY <1>3, <1>6 DEF IInv, RawDeletesAreLate
<1>12. DoomedWereTrashed'
  BY <1>3, <1>6 DEF IInv, DoomedWereTrashed
<1>13. StampMatches(q.event.message.folder_id, q.event.message.folder_entered_at)
  BY <1>2, NullAssumption DEF StampMatches, EnteredAt, IInv, TypeOK
<1>14. PendingStamps'
  BY <1>3, <1>6, <1>13 DEF IInv, PendingStamps, StampMatches, Creating
<1> QED BY <1>5, <1>7, <1>10, <1>11, <1>12, <1>14 DEF IInv

\* The raw email is stored before its row, so a row never lacks it.
LEMMA SafetyPutRaw ==
  ASSUME IInv, TypeOK', NEW r \in Requests, PutRawEmail(r)
  PROVE  IInv'
<1> DEFINE q == req'[r]
<1>1. req[r] = [stage |-> "put_raw", event |-> req[r].event] /\ req[r].event \in CreatedEvent
  BY PutRawRequest DEF PutRawEmail, IInv, TypeOK
<1>2. /\ q = [stage |-> "batch", event |-> req[r].event]
      /\ \A s \in Requests : s # r => req'[s] = req[s]
  BY <1>1 DEF PutRawEmail, Becomes, IInv, TypeOK
<1>3. /\ UNCHANGED <<logVars, folders, retention, ingested>>
      /\ bucket' = bucket \cup {req[r].event.message_id}
  BY DEF PutRawEmail
<1> USE <1>3 DEF logVars
<1>4. (RowHasRaw /\ RowInExistingFolder /\ RetentionClock /\ NewestEventOfRow /\ VersionsBounded)'
  BY DEF IInv, RowHasRaw, RowInExistingFolder, RetentionClock, NewestEventOfRow, VersionsBounded
<1>5. /\ q.stage = "batch" /\ q.event = req[r].event /\ req[r].stage = "put_raw"
      /\ q.event.event_type = "message_created"
      /\ Mentions(q) = Mentions(req[r]) /\ Creating(q) /\ Creating(req[r])
  BY <1>1, <1>2 DEF Mentions, Creating, CreatedEvent
<1> HIDE DEF q
<1>6. IdsAreIngested'
  BY <1>2, <1>5 DEF IInv, IdsAreIngested, q
<1>7. CreatingIsPrivate'
  BY <1>2, <1>5 DEF IInv, CreatingIsPrivate, q
<1>8. RawDeletesAreLate'
  BY <1>2, <1>5 DEF IInv, RawDeletesAreLate, q
<1>9. DoomedWereTrashed'
  BY <1>2, <1>5 DEF IInv, DoomedWereTrashed, q
<1>10. PendingStamps'
  BY <1>2, <1>5 DEF IInv, PendingStamps, StampMatches, Creating, q
<1> QED BY <1>4, <1>6, <1>7, <1>8, <1>9, <1>10 DEF IInv

\* A raw email is removed only when its row is gone for good, since ids are not reused.
LEMMA SafetyDeleteRaw ==
  ASSUME IInv, TypeOK', NEW r \in Requests, DeleteRawEmail(r)
  PROVE  IInv'
<1> DEFINE q == req'[r]
           m == req[r].message_id
<1>1. /\ q = Idle /\ ~Creating(q) /\ Mentions(q) = {} /\ q.stage = "idle"
      /\ \A s \in Requests : s # r => req'[s] = req[s]
  BY DEF DeleteRawEmail, Becomes, IInv, TypeOK, Creating, Mentions, Idle
<1>2. UNCHANGED <<logVars, folders, retention, ingested>> /\ bucket' = bucket \ {m}
  BY DEF DeleteRawEmail
<1>3. messages[m] = Absent /\ m \in Mentions(req[r])
  BY LookupRequest DEF DeleteRawEmail, IInv, RawDeletesAreLate, Mentions, TypeOK
<1> USE <1>2 DEF logVars
<1>4. RowHasRaw'
  BY <1>3 DEF IInv, RowHasRaw
<1>5. (RowInExistingFolder /\ RetentionClock /\ NewestEventOfRow /\ VersionsBounded)'
  BY DEF IInv, RowInExistingFolder, RetentionClock, NewestEventOfRow, VersionsBounded
<1> HIDE DEF q, m
<1>6. IdsAreIngested'
  BY <1>1 DEF IInv, IdsAreIngested, q
<1>7. CreatingIsPrivate'
  <2> SUFFICES ASSUME NEW s \in Requests, Creating(req[s]), s # r
               PROVE  /\ messages[req[s].event.message_id] = Absent
                      /\ \A v \in DOMAIN sync_events :
                           sync_events[v].message_id # req[s].event.message_id
                      /\ \A t \in Requests \ {s} :
                           req[s].event.message_id \notin Mentions(req'[t])
                      /\ req[s].event.message_id \notin Mentions(retention)
                      /\ req[s].stage = "batch" => req[s].event.message_id \in bucket'
    BY <1>1 DEF CreatingIsPrivate, q
  <2>1. req[s].event.message_id # m
    BY <1>3 DEF IInv, CreatingIsPrivate
  <2> QED BY <1>1, <2>1 DEF IInv, CreatingIsPrivate, q
<1>8. RawDeletesAreLate'
  BY <1>1 DEF IInv, RawDeletesAreLate, q
<1>9. DoomedWereTrashed'
  BY <1>1 DEF IInv, DoomedWereTrashed, q
<1>10. PendingStamps'
  BY <1>1 DEF IInv, PendingStamps, StampMatches, q
<1> QED BY <1>4, <1>5, <1>6, <1>7, <1>8, <1>9, <1>10 DEF IInv

-----------------------------------------------------------------------------
(* Batches of one message                                                  *)

\* A batch by which handler r gives the message of event e the row `row`.
LEMMA CommitOne ==
  ASSUME IInv, TypeOK', NEW r \in Requests, NEW q \in Request,
         req' = [req EXCEPT ![r] = q],
         NEW e \in Event, EmitOne(e), NEW row \in Row \cup {Absent},
         WriteRows([messages EXCEPT ![e.message_id] = row]),
         UNCHANGED <<folders, bucket, retention, ingested>>,
         e.message_id \in Mentions(req[r]),
         q = Idle \/ (q = [stage |-> "delete_raw", message_id |-> e.message_id] /\ row = Absent),
         row # Absent =>
           /\ row.sync_version = last_version + 1
           /\ row.folder_id \in folders
           /\ StampMatches(row.folder_id, row.folder_entered_at)
           /\ ApplySyncEvent(row, last_version + 1, e) = row
           /\ e.event_type # "message_deleted"
           /\ messages[e.message_id] = Absent => Creating(req[r]) /\ req[r].stage = "batch"
                                                   /\ req[r].event.message_id = e.message_id
  PROVE  IInv'
<1> DEFINE m == e.message_id
           w == last_version + 1
<1>1. m \in Messages /\ last_version \in Nat
  BY EventKinds DEF IInv, TypeOK
<1>2. /\ messages'[m] = row
      /\ \A x \in Messages : x # m => messages'[x] = messages[x]
  BY <1>1 DEF WriteRows, IInv, TypeOK
<1>3. /\ last_version' = w
      /\ DOMAIN sync_events' = DOMAIN sync_events \cup {w}
      /\ sync_events'[w] = e
      /\ \A v \in DOMAIN sync_events : v \in Nat /\ v < w /\ sync_events'[v] = sync_events[v]
  BY <1>1 DEF EmitOne, Emit, Allocated, IInv, TypeOK
<1>4. /\ req'[r] = q /\ \A s \in Requests : s # r => req'[s] = req[s]
  BY DEF IInv, TypeOK
<1>5. /\ ~Creating(q) /\ \A x \in Mentions(q) : x = m
      /\ q.stage \in {"idle", "delete_raw"}
      /\ q.stage = "delete_raw" => q.message_id = m /\ row = Absent
  BY DEF Creating, Mentions, Idle
<1>6. m \in ingested
  BY DEF IInv, IdsAreIngested
<1>7. row # Absent => m \in bucket
  BY <1>1 DEF IInv, RowHasRaw, CreatingIsPrivate
<1>8. ASSUME row # Absent, NEW v \in DOMAIN sync_events, sync_events[v].message_id = m
      PROVE  sync_events[v].event_type # "message_deleted"
  BY <1>1, <1>8 DEF IInv, NewestEventOfRow, CreatingIsPrivate
<1>9. ASSUME NEW s \in Requests, s # r, Creating(req[s]) PROVE req[s].event.message_id # m
  BY <1>9 DEF IInv, CreatingIsPrivate
<1> HIDE DEF m, w
<1>10. RowHasRaw'
  BY <1>1, <1>2, <1>7 DEF IInv, RowHasRaw
<1>11. RowInExistingFolder'
  BY <1>1, <1>2 DEF IInv, RowInExistingFolder
<1>12. RetentionClock'
  BY <1>1, <1>2 DEF IInv, RetentionClock, StampMatches
<1>13. VersionsBounded'
  BY <1>1, <1>2, <1>3 DEF IInv, VersionsBounded, w, TypeOK, Row
<1>14. NewestEventOfRow'
  <2> SUFFICES ASSUME NEW v \in DOMAIN sync_events', NEW x, x = sync_events'[v].message_id,
                      messages'[x] # Absent
               PROVE  /\ v <= messages'[x].sync_version
                      /\ messages'[x].sync_version <= last_version'
                      /\ sync_events'[v].event_type # "message_deleted"
                      /\ v = messages'[x].sync_version
                           => ApplySyncEvent(messages'[x], v, sync_events'[v]) = messages'[x]
    BY DEF NewestEventOfRow
  <2>1. CASE v = w
    <3>1. x = m /\ sync_events'[v] = e /\ messages'[x] = row /\ row # Absent
      BY <1>2, <1>3, <2>1 DEF m
    <3>2. row.sync_version = w /\ ApplySyncEvent(row, w, e) = row
          /\ e.event_type # "message_deleted"
      BY <3>1 DEF w
    <3>3. v <= messages'[x].sync_version /\ messages'[x].sync_version <= last_version'
      BY <1>1, <1>3, <2>1, <3>1, <3>2 DEF w
    <3>4. ApplySyncEvent(messages'[x], v, sync_events'[v]) = messages'[x]
      BY <2>1, <3>1, <3>2, Zenon
    <3> QED BY <3>1, <3>2, <3>3, <3>4
  <2>2. CASE v # w /\ x = m
    <3>1. v \in DOMAIN sync_events /\ sync_events'[v] = sync_events[v] /\ v \in Nat /\ v < w
      BY <1>3, <2>2
    <3>2. messages'[x] = row /\ row # Absent /\ row.sync_version = w
      BY <1>2, <2>2 DEF w
    <3>3. sync_events[v].event_type # "message_deleted"
      BY <1>8, <2>2, <3>1, <3>2
    <3> QED BY <1>1, <1>3, <3>1, <3>2, <3>3 DEF w
  <2>3. CASE v # w /\ x # m
    <3>1. v \in DOMAIN sync_events /\ sync_events'[v] = sync_events[v]
      BY <1>3, <2>3
    <3>2. x \in Messages
      BY <3>1, EventKinds DEF IInv, TypeOK
    <3>3. messages'[x] = messages[x] /\ messages[x] \in Row
      BY <1>2, <2>3, <3>2 DEF IInv, TypeOK
    <3>4. /\ v <= messages[x].sync_version /\ messages[x].sync_version <= last_version
          /\ sync_events[v].event_type # "message_deleted"
          /\ v = messages[x].sync_version
               => ApplySyncEvent(messages[x], v, sync_events[v]) = messages[x]
      BY <3>1, <3>3 DEF IInv, NewestEventOfRow
    <3> QED BY <1>1, <1>3, <3>1, <3>3, <3>4 DEF w, Row
  <2> QED BY <2>1, <2>2, <2>3
<1>15. IdsAreIngested'
  <2>1. \A x \in Messages : messages'[x] # Absent => x \in ingested
    BY <1>2, <1>6 DEF IInv, IdsAreIngested
  <2>2. \A v \in DOMAIN sync_events' : sync_events'[v].message_id \in ingested
    BY <1>3, <1>6 DEF IInv, IdsAreIngested, m
  <2>3. \A s \in Requests : Mentions(req'[s]) \subseteq ingested
    BY <1>4, <1>5, <1>6 DEF IInv, IdsAreIngested
  <2> QED BY <2>1, <2>2, <2>3 DEF IInv, IdsAreIngested
<1>16. CreatingIsPrivate'
  <2> SUFFICES ASSUME NEW s \in Requests, s # r, Creating(req[s]),
                      NEW x, x = req[s].event.message_id
               PROVE  /\ messages'[x] = Absent
                      /\ \A v \in DOMAIN sync_events' : sync_events'[v].message_id # x
                      /\ \A t \in Requests \ {s} : x \notin Mentions(req'[t])
                      /\ x \notin Mentions(retention)
                      /\ req[s].stage = "batch" => x \in bucket
    BY <1>4, <1>5 DEF CreatingIsPrivate
  <2>1. /\ messages[x] = Absent
        /\ \A v \in DOMAIN sync_events : sync_events[v].message_id # x
        /\ \A t \in Requests \ {s} : x \notin Mentions(req[t])
        /\ x \notin Mentions(retention)
        /\ req[s].stage = "batch" => x \in bucket
    BY DEF IInv, CreatingIsPrivate
  <2>2. x # m
    BY <1>9
  <2>3. x \in Messages
    BY BatchRequest, PutRawRequest, EventKinds DEF Creating, IInv, TypeOK, CreatedEvent
  <2> QED BY <1>2, <1>3, <1>4, <1>5, <2>1, <2>2, <2>3 DEF m
<1>17. RawDeletesAreLate'
  <2>1. ASSUME NEW s \in Requests, req'[s].stage = "delete_raw"
        PROVE  messages'[req'[s].message_id] = Absent
    <3>1. CASE s = r
      BY <1>2, <1>4, <1>5, <2>1, <3>1
    <3>2. CASE s # r
      <4>1. /\ req'[s] = req[s] /\ req[s].message_id \in Messages
            /\ messages[req[s].message_id] = Absent
            /\ req[s].message_id \in Mentions(req[s])
        BY <1>4, <2>1, <3>2, LookupRequest DEF IInv, RawDeletesAreLate, TypeOK, Mentions
      <4>2. req[s].message_id = m => row = Absent
        BY <3>2, <4>1 DEF IInv, CreatingIsPrivate, m
      <4> QED BY <1>2, <4>1, <4>2
    <3> QED BY <3>1, <3>2
  <2>2. ASSUME NEW x \in Messages, retention.stage \in {"deleting", "raw"}, x \in retention.chunk
        PROVE  messages'[x] = Absent
    <3>1. messages[x] = Absent /\ x \in Mentions(retention)
      BY <2>2 DEF IInv, RawDeletesAreLate, Mentions
    <3>2. x = m => row = Absent
      BY <3>1 DEF IInv, CreatingIsPrivate, m
    <3> QED BY <1>2, <3>1, <3>2
  <2> QED BY <2>1, <2>2 DEF RawDeletesAreLate
<1>18. DoomedWereTrashed'
  BY <1>4, <1>5 DEF IInv, DoomedWereTrashed, WriteRows
<1>19. PendingStamps'
  BY <1>4, <1>5 DEF IInv, PendingStamps, StampMatches
<1> QED BY <1>10, <1>11, <1>12, <1>13, <1>14, <1>15, <1>16, <1>17, <1>18, <1>19 DEF IInv

\* The batch of inbound email inserts a row whose raw email is in the bucket.
LEMMA SafetyCommitEmail ==
  ASSUME IInv, TypeOK', NEW r \in Requests, CommitEmail(r)
  PROVE  IInv'
<1> DEFINE e == req[r].event
           w == last_version + 1
           row == [e.message EXCEPT !.sync_version = w]
           new == [e EXCEPT !.message = [@ EXCEPT !.sync_version = last_version + 1]]
<1>1. e \in CreatedEvent /\ w \in Nat /\ req[r].stage = "batch"
  BY BatchRequest, EventKinds DEF CommitEmail, IInv, TypeOK
<1>2. /\ row \in Row /\ row.sync_version = w
      /\ row.folder_id = e.message.folder_id
      /\ row.folder_entered_at = e.message.folder_entered_at
  BY <1>1 DEF CreatedEvent, Row
<1>3. /\ new \in Event /\ new.message = row /\ new.message_id = e.message_id
      /\ new.event_type = "message_created" /\ e.event_type = "message_created"
  BY <1>1, <1>2 DEF CreatedEvent, Event
<1>4. /\ EmitOne(new) /\ WriteRows([messages EXCEPT ![new.message_id] = row])
      /\ e.message.folder_id \in folders
      /\ UNCHANGED <<folders, bucket, retention, ingested>>
      /\ req' = [req EXCEPT ![r] = Idle]
  BY <1>3 DEF CommitEmail, Becomes
<1>5. Creating(req[r]) /\ new.message_id \in Mentions(req[r]) /\ req[r].event.message_id = new.message_id
  BY <1>1, <1>3 DEF Creating, Mentions, CreatedEvent
<1>6. StampMatches(row.folder_id, row.folder_entered_at)
  BY <1>2, <1>5 DEF IInv, PendingStamps
<1>7. ApplySyncEvent(row, w, new) = row
  BY <1>3 DEF ApplySyncEvent
<1>8. Idle \in Request
  BY DEF Request
<1> HIDE DEF e, row, new
<1> QED BY <1>1, <1>2, <1>3, <1>4, <1>5, <1>6, <1>7, <1>8, CommitOne

\* A flag update keeps folder and stamp together and refreshes the version.
LEMMA SafetyCommitFlag ==
  ASSUME IInv, TypeOK', NEW r \in Requests, CommitFlag(r)
  PROVE  IInv'
<1> DEFINE e == req[r].event
           w == last_version + 1
           row == messages[e.message_id]
           new == IF row = Absent THEN Absent
                  ELSE [row EXCEPT !.flags = [@ EXCEPT ![e.flag] = e.value],
                                   !.sync_version = last_version + 1]
<1>1. e \in Event /\ e.event_type = "message_updated" /\ w \in Nat /\ req[r].stage = "batch"
      /\ e.message_id \in Messages /\ e.flag \in Flags /\ e.value \in BOOLEAN
  BY BatchRequest, EventKinds DEF CommitFlag, IInv, TypeOK, UpdatedEvent
<1>2. row \in Row \cup {Absent}
  BY <1>1 DEF IInv, TypeOK
<1>3. /\ EmitOne(e) /\ WriteRows([messages EXCEPT ![e.message_id] = new])
      /\ UNCHANGED <<folders, bucket, retention, ingested>>
      /\ req' = [req EXCEPT ![r] = Idle]
  BY DEF CommitFlag, Becomes
<1>4. e.message_id \in Mentions(req[r]) /\ Idle \in Request
  BY <1>1 DEF Mentions, Request
<1>5. row # Absent =>
        /\ row.folder_id \in folders
        /\ StampMatches(row.folder_id, row.folder_entered_at)
  BY <1>1 DEF IInv, RowInExistingFolder, RetentionClock, StampMatches
<1> HIDE DEF e, row
<1>6. new # Absent =>
        /\ new \in Row /\ row # Absent
        /\ new.sync_version = w /\ new.folder_id = row.folder_id
        /\ new.folder_entered_at = row.folder_entered_at
        /\ new.flags = [row.flags EXCEPT ![e.flag] = e.value]
  <2> SUFFICES ASSUME row # Absent
               PROVE  /\ new \in Row
                      /\ new.sync_version = w /\ new.folder_id = row.folder_id
                      /\ new.folder_entered_at = row.folder_entered_at
                      /\ new.flags = [row.flags EXCEPT ![e.flag] = e.value]
    OBVIOUS
  <2>1. row \in Row
    BY <1>2
  <2>2. [row.flags EXCEPT ![e.flag] = e.value] \in [Flags -> BOOLEAN]
    BY <1>1, <2>1 DEF Row
  <2> QED BY <1>1, <2>1, <2>2 DEF Row
<1>7. new # Absent => ApplySyncEvent(new, w, e) = new
  <2> SUFFICES ASSUME new # Absent PROVE ApplySyncEvent(new, w, e) = new
    OBVIOUS
  <2> HIDE DEF new
  <2>1. new \in Row /\ new.sync_version = w /\ new.flags[e.flag] = e.value
    BY <1>1, <1>2, <1>6 DEF Row
  <2>2. [new.flags EXCEPT ![e.flag] = e.value] = new.flags
    BY <2>1 DEF Row
  <2>3. [new EXCEPT !.flags = new.flags, !.sync_version = w] = new
    BY <2>1 DEF Row
  <2> QED BY <1>1, <2>2, <2>3 DEF ApplySyncEvent
<1>8. new \in Row \cup {Absent} /\ (new # Absent => row # Absent)
  BY <1>6
<1> HIDE DEF new
<1> QED BY <1>1, <1>3, <1>4, <1>5, <1>6, <1>7, <1>8, CommitOne DEF row

\* A move sets folder and stamp in one statement; its folder passes the foreign key.
LEMMA SafetyCommitMove ==
  ASSUME IInv, TypeOK', NEW r \in Requests, CommitMove(r)
  PROVE  IInv'
<1> DEFINE e == req[r].event
           w == last_version + 1
           row == messages[e.message_id]
           new == Moved(row, e.folder_id, e.folder_entered_at, w)
<1>1. e \in Event /\ e.event_type = "message_moved" /\ w \in Nat /\ req[r].stage = "batch"
      /\ e.message_id \in Messages /\ e.folder_id \in Folders
      /\ e.folder_entered_at \in Nat \cup {Null}
  BY BatchRequest, EventKinds DEF CommitMove, IInv, TypeOK, MovedEvent
<1>2. row \in Row \cup {Absent}
  BY <1>1 DEF IInv, TypeOK
<1>3. /\ EmitOne(e) /\ WriteRows([messages EXCEPT ![e.message_id] = new])
      /\ UNCHANGED <<folders, bucket, retention, ingested>>
      /\ req' = [req EXCEPT ![r] = Idle]
      /\ row # Absent => e.folder_id \in folders
  BY DEF CommitMove, Becomes
<1>4. e.message_id \in Mentions(req[r]) /\ Idle \in Request
  BY <1>1 DEF Mentions, Request
<1>5. StampMatches(e.folder_id, e.folder_entered_at)
  BY <1>1 DEF IInv, PendingStamps
<1> HIDE DEF e, row
<1>6. new # Absent =>
        /\ row # Absent
        /\ new.sync_version = w /\ new.folder_id = e.folder_id
        /\ new.folder_entered_at = e.folder_entered_at
        /\ ApplySyncEvent(new, w, e) = new
  BY <1>1, <1>2 DEF Moved, Row, ApplySyncEvent
<1>7. new \in Row \cup {Absent}
  BY <1>1, <1>2, MovedTypes
<1> HIDE DEF new
<1> QED BY <1>1, <1>3, <1>4, <1>5, <1>6, <1>7, CommitOne DEF row

\* A permanent delete removes the row before its raw email.
LEMMA SafetyCommitDelete ==
  ASSUME IInv, TypeOK', NEW r \in Requests, CommitDelete(r)
  PROVE  IInv'
<1> DEFINE e == req[r].event
           q == [stage |-> "delete_raw", message_id |-> e.message_id]
<1>1. e \in Event /\ e.message_id \in Messages /\ req[r].stage = "batch"
  BY BatchRequest, EventKinds DEF CommitDelete, IInv, TypeOK
<1>2. /\ EmitOne(e) /\ WriteRows([messages EXCEPT ![e.message_id] = Absent])
      /\ UNCHANGED <<folders, bucket, retention, ingested>>
      /\ req' = [req EXCEPT ![r] = q]
  BY DEF CommitDelete, Becomes
<1>3. e.message_id \in Mentions(req[r]) /\ q \in Request
  BY <1>1 DEF Mentions, Request
<1> HIDE DEF e
<1> QED BY <1>1, <1>2, <1>3, CommitOne

-----------------------------------------------------------------------------
(* Batches of many messages                                                *)

\* A batch that gives the messages of S, all of them known to the mailbox, the
\* rows `rows`: each either disappears or carries the version of its own event.
LEMMA CommitMany ==
  ASSUME IInv, TypeOK', NEW S \in SUBSET Messages, NEW o \in Orders(S),
         NEW batch, Emit(Cardinality(S), batch),
         \A v \in DOMAIN o : batch[v] \in Event /\ batch[v].message_id = o[v],
         NEW rows \in [Messages -> Row \cup {Absent}], WriteRows(rows),
         \A m \in Messages \ S : rows[m] = messages[m],
         \A m \in S : rows[m] # Absent =>
           /\ messages[m] # Absent
           /\ StampMatches(rows[m].folder_id, rows[m].folder_entered_at)
           /\ \E v \in DOMAIN o :
                /\ o[v] = m /\ rows[m].sync_version = v
                /\ batch[v].event_type # "message_deleted"
                /\ ApplySyncEvent(rows[m], v, batch[v]) = rows[m],
         \A m \in Messages : rows[m] # Absent => rows[m].folder_id \in folders',
         UNCHANGED <<bucket, ingested>>,
         S \subseteq ingested,
         \A s \in Requests : Creating(req[s]) => req[s].event.message_id \notin S,
         \A s \in Requests : req'[s] # req[s] =>
           /\ req'[s].stage \in {"idle", "rehome"}
           /\ Mentions(req'[s]) \subseteq Mentions(req[s]),
         Mentions(retention') \subseteq Mentions(retention),
         \A m \in Messages : retention'.stage \in {"deleting", "raw"} =>
           /\ m \in retention'.chunk => rows[m] = Absent
           /\ m \in retention'.todo => m \in trashed
  PROVE  IInv'
<1> DEFINE V == DOMAIN o
<1>1. messages' = rows /\ trashed \subseteq trashed'
  BY DEF WriteRows
<1>2. /\ V = Allocated(Cardinality(S))
      /\ \A v \in V : o[v] \in S /\ v \in Nat /\ v > last_version
      /\ \A v, w \in V : o[v] = o[w] => v = w
  BY OrdersFact DEF IInv
<1>3. /\ DOMAIN sync_events' = DOMAIN sync_events \cup V
      /\ \A v \in V : sync_events'[v] = batch[v] /\ v <= last_version'
      /\ \A v \in DOMAIN sync_events :
           v \in Nat /\ v <= last_version /\ v \notin V /\ sync_events'[v] = sync_events[v]
      /\ last_version <= last_version' /\ last_version \in Nat /\ last_version' \in Nat
  <2>1. last_version \in Nat /\ last_version' \in Nat /\ last_version' = last_version + Cardinality(S)
        /\ Cardinality(S) \in Nat /\ \A v \in DOMAIN sync_events : v \in Nat /\ v <= last_version
    BY ChunkFinite DEF Emit, IInv, TypeOK
  <2> QED BY <1>2, <2>1 DEF Emit, Allocated
<1>4. \A m \in S : rows[m] # Absent => messages[m] # Absent
  OBVIOUS
<1>5. \A s \in Requests : Creating(req'[s]) => req'[s] = req[s]
  BY DEF Creating
<1>6. \A s \in Requests : req'[s].stage \notin {"idle", "rehome"} => req'[s] = req[s]
  OBVIOUS
<1>7. \A s \in Requests : Mentions(req'[s]) \subseteq Mentions(req[s])
  OBVIOUS
<1> HIDE DEF V
<1>10. RowHasRaw'
  BY <1>1, <1>4 DEF IInv, RowHasRaw
<1>11. RowInExistingFolder'
  BY <1>1 DEF RowInExistingFolder
<1>12. RetentionClock'
  BY <1>1 DEF IInv, RetentionClock, StampMatches
<1>13. VersionsBounded'
  <2> SUFFICES ASSUME NEW m \in Messages, rows[m] # Absent
               PROVE  rows[m].sync_version <= last_version'
    BY <1>1 DEF VersionsBounded
  <2>1. CASE m \in S
    BY <1>3, <2>1 DEF V
  <2>2. CASE m \notin S
    <3>1. rows[m] = messages[m] /\ messages[m].sync_version <= last_version /\ messages[m].sync_version \in Nat
      BY <2>2 DEF IInv, VersionsBounded, TypeOK, Row
    <3> QED BY <1>3, <3>1
  <2> QED BY <2>1, <2>2
<1>14. NewestEventOfRow'
  <2> SUFFICES ASSUME NEW v \in DOMAIN sync_events', NEW x, x = sync_events'[v].message_id,
                      rows[x] # Absent
               PROVE  /\ v <= rows[x].sync_version
                      /\ rows[x].sync_version <= last_version'
                      /\ sync_events'[v].event_type # "message_deleted"
                      /\ v = rows[x].sync_version
                           => ApplySyncEvent(rows[x], v, sync_events'[v]) = rows[x]
    BY <1>1 DEF NewestEventOfRow
  <2>0. x \in Messages
    BY <1>3, EventKinds DEF IInv, TypeOK, V
  <2>1. CASE v \in V
    <3>1. x = o[v] /\ x \in S /\ sync_events'[v] = batch[v]
      BY <1>2, <1>3, <2>1 DEF V
    <3>2. PICK w \in V :
            /\ o[w] = x /\ rows[x].sync_version = w
            /\ batch[w].event_type # "message_deleted"
            /\ ApplySyncEvent(rows[x], w, batch[w]) = rows[x]
      BY <3>1 DEF V
    <3>3. w = v
      BY <1>2, <2>1, <3>1, <3>2
    <3>4. v <= rows[x].sync_version /\ rows[x].sync_version <= last_version'
      BY <1>2, <1>3, <3>2, <3>3
    <3> QED BY <3>1, <3>2, <3>3, <3>4
  <2>2. CASE v \notin V
    <3>1. v \in DOMAIN sync_events /\ sync_events'[v] = sync_events[v] /\ v \in Nat /\ v <= last_version
      BY <1>3, <2>2
    <3>2. CASE x \in S
      <4>1. messages[x] # Absent
        BY <1>4, <3>2
      <4>2. sync_events[v].event_type # "message_deleted"
        BY <3>1, <4>1 DEF IInv, NewestEventOfRow
      <4>3. PICK w \in V : rows[x].sync_version = w
        BY <3>2 DEF V
      <4>4. w > last_version /\ w <= last_version' /\ w \in Nat
        BY <1>2, <1>3
      <4>5. rows[x].sync_version <= last_version'
        BY <4>3, <4>4
      <4>6. v < w
        BY <1>3, <3>1, <4>4
      <4>7. v <= rows[x].sync_version /\ v # rows[x].sync_version
        BY <3>1, <4>3, <4>4, <4>6
      <4> QED BY <3>1, <4>2, <4>5, <4>7
    <3>3. CASE x \notin S
      <4>1. rows[x] = messages[x] /\ messages[x] \in Row
        BY <2>0, <3>3 DEF IInv, TypeOK
      <4>2. /\ v <= messages[x].sync_version /\ messages[x].sync_version <= last_version
            /\ sync_events[v].event_type # "message_deleted"
            /\ v = messages[x].sync_version
                 => ApplySyncEvent(messages[x], v, sync_events[v]) = messages[x]
        BY <3>1, <4>1 DEF IInv, NewestEventOfRow
      <4>3. messages[x].sync_version <= last_version'
        BY <1>3, <4>1, <4>2 DEF Row
      <4> QED BY <3>1, <4>1, <4>2, <4>3
    <3> QED BY <3>2, <3>3
  <2> QED BY <2>1, <2>2
<1>15. IdsAreIngested'
  <2>1. \A m \in Messages : messages'[m] # Absent => m \in ingested
    BY <1>1 DEF IInv, IdsAreIngested
  <2>2. \A v \in DOMAIN sync_events' : sync_events'[v].message_id \in ingested
    BY <1>2, <1>3 DEF IInv, IdsAreIngested, V
  <2>3. /\ \A s \in Requests : Mentions(req'[s]) \subseteq ingested
        /\ Mentions(retention') \subseteq ingested
    BY <1>7 DEF IInv, IdsAreIngested
  <2> QED BY <2>1, <2>2, <2>3 DEF IdsAreIngested
<1>16. CreatingIsPrivate'
  <2> SUFFICES ASSUME NEW s \in Requests, Creating(req[s]), NEW x, x = req[s].event.message_id
               PROVE  /\ rows[x] = Absent
                      /\ \A v \in DOMAIN sync_events' : sync_events'[v].message_id # x
                      /\ \A t \in Requests \ {s} : x \notin Mentions(req'[t])
                      /\ x \notin Mentions(retention')
                      /\ req[s].stage = "batch" => x \in bucket
    BY <1>1, <1>5 DEF CreatingIsPrivate
  <2>1. /\ messages[x] = Absent
        /\ \A v \in DOMAIN sync_events : sync_events[v].message_id # x
        /\ \A t \in Requests \ {s} : x \notin Mentions(req[t])
        /\ x \notin Mentions(retention)
        /\ req[s].stage = "batch" => x \in bucket
    BY DEF IInv, CreatingIsPrivate
  <2>2. x \notin S /\ x \in Messages
    BY BatchRequest, PutRawRequest, EventKinds DEF Creating, IInv, TypeOK, CreatedEvent
  <2> QED BY <1>2, <1>3, <1>7, <2>1, <2>2 DEF V
<1>17. RawDeletesAreLate'
  <2>1. ASSUME NEW s \in Requests, req'[s].stage = "delete_raw"
        PROVE  rows[req'[s].message_id] = Absent
    <3>1. req'[s] = req[s] /\ req[s].message_id \in Messages /\ messages[req[s].message_id] = Absent
      BY <1>6, <2>1, LookupRequest DEF IInv, RawDeletesAreLate, TypeOK
    <3> QED BY <1>4, <3>1
  <2> QED BY <1>1, <2>1 DEF RawDeletesAreLate
<1>18. DoomedWereTrashed'
  <2>1. \A m \in Messages : rows[m] # Absent /\ rows[m].folder_id \in RetentionFolders => m \in trashed'
    BY DEF WriteRows
  <2> QED BY <1>1, <1>6, <2>1 DEF IInv, DoomedWereTrashed
<1>19. PendingStamps'
  <2>1. \A s \in Requests : req'[s].stage = "batch" => req'[s] = req[s]
    BY <1>6
  <2> QED BY <1>5, <2>1 DEF IInv, PendingStamps, StampMatches
<1> QED BY <1>10, <1>11, <1>12, <1>13, <1>14, <1>15, <1>16, <1>17, <1>18, <1>19 DEF IInv

\* A batch of folder deletion: the messages of S still there go to the inbox.
LEMMA SafetyRehome ==
  ASSUME IInv, TypeOK', NEW r \in Requests, req[r].stage = "rehome",
         NEW S \in SUBSET req[r].todo, Rehome(S, req[r].now),
         NEW q \in Request, req' = [req EXCEPT ![r] = q],
         q.stage \in {"idle", "rehome"}, Mentions(q) \subseteq Mentions(req[r]),
         \A m \in Messages :
           messages'[m] # Absent /\ messages'[m].folder_id \in folders
             => messages'[m].folder_id \in folders',
         UNCHANGED <<bucket, retention, ingested>>
  PROVE  IInv'
<1> DEFINE batch(o) == [v \in DOMAIN o |->
                          [event_type |-> "message_moved", message_id |-> o[v],
                           folder_id |-> "system.inbox", folder_entered_at |-> Null,
                           created_at |-> req[r].now]]
           rows(o) == [m \in Messages |->
                         IF m \in S
                         THEN Moved(messages[m], "system.inbox", Null,
                                    CHOOSE v \in DOMAIN o : o[v] = m)
                         ELSE messages[m]]
<1>1. PICK o \in Orders(S) : Emit(Cardinality(S), batch(o)) /\ WriteRows(rows(o))
  BY DEF Rehome
<1>2. /\ TypeOK /\ req[r] \in Request
      /\ req[r].todo \subseteq Messages /\ req[r].now \in Nat
      /\ S \subseteq Mentions(req[r])
  BY RehomeRequest DEF IInv, TypeOK, Mentions
<1>3. S \in SUBSET Messages
  BY <1>2
<1>4. /\ \A v \in DOMAIN o : o[v] \in S /\ v \in Nat
      /\ \A v, w \in DOMAIN o : o[v] = o[w] => v = w
      /\ \A m \in S : \E v \in DOMAIN o : o[v] = m
  BY <1>2, <1>3, OrdersFact
<1>5. \A v \in DOMAIN o : batch(o)[v] \in Event /\ batch(o)[v].message_id = o[v]
  BY <1>2, <1>3, <1>4 DEF Event, MovedEvent, Folders, SystemFolders
<1>6. ASSUME NEW m \in S
      PROVE  \E v \in DOMAIN o : o[v] = m /\ rows(o)[m] = Moved(messages[m], "system.inbox", Null, v)
  <2> DEFINE v == CHOOSE w \in DOMAIN o : o[w] = m
  <2>1. v \in DOMAIN o /\ o[v] = m
    BY <1>4
  <2>2. rows(o)[m] = Moved(messages[m], "system.inbox", Null, v)
    BY <1>3
  <2> HIDE DEF v, rows
  <2> QED BY <2>1, <2>2
<1>7. \A m \in Messages \ S : rows(o)[m] = messages[m]
  OBVIOUS
<1>8. rows(o) = [m \in Messages |-> rows(o)[m]]
  OBVIOUS
<1>9. \A v \in DOMAIN o : /\ batch(o)[v].event_type = "message_moved"
                          /\ batch(o)[v].folder_id = "system.inbox"
                          /\ batch(o)[v].folder_entered_at = Null
  OBVIOUS
<1> HIDE DEF batch, rows
<1>10. ASSUME NEW m \in Messages PROVE rows(o)[m] \in Row \cup {Absent}
  <2>1. CASE m \in S
    <3>1. PICK v \in DOMAIN o : rows(o)[m] = Moved(messages[m], "system.inbox", Null, v)
      BY <1>6, <2>1
    <3>2. /\ messages[m] \in Row \cup {Absent} /\ v \in Nat
          /\ "system.inbox" \in Folders /\ Null \in Nat \cup {Null}
      BY <1>2, <1>4 DEF TypeOK, Folders, SystemFolders
    <3>3. Moved(messages[m], "system.inbox", Null, v) \in Row \cup {Absent}
      BY <3>2, MovedTypes
    <3> QED BY <3>1, <3>3
  <2>2. CASE m \notin S
    BY <1>2, <1>7, <2>2 DEF TypeOK
  <2> QED BY <2>1, <2>2
<1>11. rows(o) \in [Messages -> Row \cup {Absent}]
  BY <1>8, <1>10
<1>12. ASSUME NEW m \in S, rows(o)[m] # Absent
       PROVE  /\ messages[m] # Absent
              /\ rows(o)[m].folder_id = "system.inbox"
              /\ StampMatches(rows(o)[m].folder_id, rows(o)[m].folder_entered_at)
              /\ \E v \in DOMAIN o :
                   /\ o[v] = m /\ rows(o)[m].sync_version = v
                   /\ batch(o)[v].event_type # "message_deleted"
                   /\ ApplySyncEvent(rows(o)[m], v, batch(o)[v]) = rows(o)[m]
  <2>1. PICK v \in DOMAIN o :
          o[v] = m /\ rows(o)[m] = Moved(messages[m], "system.inbox", Null, v)
    BY <1>6
  <2>2. messages[m] # Absent /\ messages[m] \in Row
    BY <1>2, <1>3, <1>12, <2>1 DEF Moved, TypeOK
  <2>3. /\ rows(o)[m].folder_id = "system.inbox" /\ rows(o)[m].folder_entered_at = Null
        /\ rows(o)[m].sync_version = v
    BY <2>1, <2>2 DEF Moved, Row
  <2>4. rows(o)[m] \in Row
    BY <1>3, <1>10, <1>12
  <2>5. ApplySyncEvent(rows(o)[m], v, batch(o)[v]) = rows(o)[m]
    BY <1>9, <1>12, <2>3, <2>4 DEF ApplySyncEvent, Row
  <2>6. StampMatches(rows(o)[m].folder_id, rows(o)[m].folder_entered_at)
    BY <2>3 DEF StampMatches, RetentionFolders
  <2> QED BY <1>9, <2>1, <2>2, <2>3, <2>5, <2>6
<1>13. ASSUME NEW m \in Messages, rows(o)[m] # Absent
       PROVE  rows(o)[m].folder_id \in folders'
  <2>1. messages' = rows(o) /\ "system.inbox" \in folders
    BY <1>1, <1>2 DEF WriteRows, TypeOK, SystemFolders
  <2>2. rows(o)[m].folder_id \in folders
    BY <1>7, <1>12, <1>13, <2>1 DEF IInv, RowInExistingFolder
  <2> QED BY <1>13, <2>1, <2>2
<1>14. req'[r] = q /\ \A s \in Requests : s # r => req'[s] = req[s]
  BY <1>2 DEF TypeOK
<1>15. S \subseteq ingested
  BY <1>2 DEF IInv, IdsAreIngested
<1>16. \A s \in Requests : Creating(req[s]) => s # r /\ req[s].event.message_id \notin S
  BY <1>2 DEF IInv, CreatingIsPrivate, Creating
<1>17. \A m \in Messages : retention.stage \in {"deleting", "raw"} =>
         /\ m \in retention.chunk => rows(o)[m] = Absent
         /\ m \in retention.todo => m \in trashed
  BY <1>7, <1>12 DEF IInv, RawDeletesAreLate, DoomedWereTrashed
<1> QED BY <1>1, <1>3, <1>5, <1>7, <1>11, <1>12, <1>13, <1>14, <1>15, <1>16, <1>17, CommitMany

\* The batches of deleteFolder but the last ...
LEMMA SafetyRehomeChunk ==
  ASSUME IInv, TypeOK', NEW r \in Requests, RehomeChunk(r)
  PROVE  IInv'
<1>1. /\ req \in [Requests -> Request]
      /\ req[r] = [stage |-> "rehome", folder |-> req[r].folder, now |-> req[r].now,
                   todo |-> req[r].todo]
      /\ req[r].stage = "rehome"
  BY RehomeRequest DEF RehomeChunk, IInv, TypeOK
<1>2. PICK S \in SUBSET req[r].todo :
        Rehome(S, req[r].now) /\ Becomes(r, [req[r] EXCEPT !.todo = @ \ S])
  BY DEF RehomeChunk
<1> DEFINE q == [req[r] EXCEPT !.todo = @ \ S]
<1>3. q = [stage |-> "rehome", folder |-> req[r].folder, now |-> req[r].now,
           todo |-> req[r].todo \ S]
  BY <1>1
<1>4. req' = [req EXCEPT ![r] = q] /\ q \in Request
  <2>1. req' = [req EXCEPT ![r] = q]
    BY <1>2 DEF Becomes
  <2>2. req'[r] \in Request
    BY DEF TypeOK
  <2> QED BY <1>1, <2>1, <2>2
<1>5. q.stage = "rehome" /\ Mentions(q) \subseteq Mentions(req[r])
  BY <1>1, <1>3 DEF Mentions
<1>6. UNCHANGED <<folders, bucket, retention, ingested>>
  BY DEF RehomeChunk
<1> HIDE DEF q
<1> QED BY <1>1, <1>2, <1>4, <1>5, <1>6, SafetyRehome

\* ... and the last one, which drops the folder it has emptied.
LEMMA SafetyRehomeLast ==
  ASSUME IInv, TypeOK', NEW r \in Requests, RehomeLastAndDrop(r)
  PROVE  IInv'
<1>1. req[r].stage = "rehome" /\ Rehome(req[r].todo, req[r].now)
  BY DEF RehomeLastAndDrop
<1>2. req' = [req EXCEPT ![r] = Idle]
  BY DEF RehomeLastAndDrop, Becomes
<1>3. Idle \in Request /\ Idle.stage = "idle" /\ Mentions(Idle) = {}
  BY DEF Request, Idle, Mentions
<1>4. \A m \in Messages :
        messages'[m] # Absent /\ messages'[m].folder_id \in folders
          => messages'[m].folder_id \in folders'
  BY DEF RehomeLastAndDrop
<1>5. UNCHANGED <<bucket, retention, ingested>>
  BY DEF RehomeLastAndDrop
<1> QED BY <1>1, <1>2, <1>3, <1>4, <1>5, SafetyRehome

\* A chunk of the retention job deletes rows it selected in Trash or Spam.
LEMMA SafetyRetentionChunk ==
  ASSUME IInv, TypeOK', CommitRetentionChunk
  PROVE  IInv'
<1> DEFINE batch(o) == [v \in DOMAIN o |->
                          [event_type |-> "message_deleted", message_id |-> o[v],
                           created_at |-> retention.now]]
           rows(S) == [m \in Messages |-> IF m \in S THEN Absent ELSE messages[m]]
<1>1. PICK S \in SUBSET retention.todo :
        /\ \E o \in Orders(S) : Emit(Cardinality(S), batch(o))
        /\ WriteRows(rows(S))
        /\ retention' = [retention EXCEPT !.stage = "raw", !.todo = @ \ S, !.chunk = S]
  BY DEF CommitRetentionChunk
<1>2. PICK o \in Orders(S) : Emit(Cardinality(S), batch(o))
  BY <1>1
<1>3. /\ TypeOK
      /\ retention = [stage |-> "deleting", now |-> retention.now,
                      todo |-> retention.todo, chunk |-> retention.chunk]
      /\ retention.now \in Nat /\ retention.todo \subseteq Messages
      /\ S \in SUBSET Messages /\ S \subseteq Mentions(retention)
  BY RetentionRecord DEF CommitRetentionChunk, IInv, Mentions
<1>4. \A v \in DOMAIN o : o[v] \in S
  BY <1>3, OrdersFact
<1>5. \A v \in DOMAIN o : batch(o)[v] \in Event /\ batch(o)[v].message_id = o[v]
  BY <1>3, <1>4 DEF Event, DeletedEvent
<1>6. /\ rows(S) \in [Messages -> Row \cup {Absent}]
      /\ \A m \in Messages \ S : rows(S)[m] = messages[m]
      /\ \A m \in S : rows(S)[m] = Absent
  BY <1>3 DEF TypeOK
<1>7. retention' = [stage |-> "raw", now |-> retention.now,
                    todo |-> retention.todo \ S, chunk |-> S]
  BY <1>1, <1>3
<1>8. UNCHANGED <<folders, bucket, req, ingested>>
  BY DEF CommitRetentionChunk
<1> HIDE DEF batch, rows
<1>9. \A m \in Messages : rows(S)[m] # Absent => rows(S)[m].folder_id \in folders'
  BY <1>6, <1>8 DEF IInv, RowInExistingFolder
<1>10. S \subseteq ingested
  BY <1>3 DEF IInv, IdsAreIngested
<1>11. \A s \in Requests : Creating(req[s]) => req[s].event.message_id \notin S
  BY <1>3 DEF IInv, CreatingIsPrivate
<1>12. Mentions(retention') \subseteq Mentions(retention)
  BY <1>3, <1>7 DEF Mentions
<1>13. \A m \in Messages : /\ m \in retention'.chunk => rows(S)[m] = Absent
                           /\ m \in retention'.todo => m \in trashed
  BY <1>3, <1>6, <1>7 DEF IInv, DoomedWereTrashed
<1> QED BY <1>1, <1>2, <1>3, <1>5, <1>6, <1>8, <1>9, <1>10, <1>11, <1>12, <1>13, CommitMany

-----------------------------------------------------------------------------
(* The other steps of the retention job                                    *)

\* Rows stay as they are, events may only be forgotten, raw objects only of
\* messages the job deleted.
LEMMA RetentionQuiet ==
  ASSUME IInv, TypeOK',
         UNCHANGED <<messages, last_version, trashed, folders, req, ingested>>,
         DOMAIN sync_events' \subseteq DOMAIN sync_events,
         \A v \in DOMAIN sync_events' : sync_events'[v] = sync_events[v],
         \A m \in Messages : m \in bucket /\ m \notin bucket'
           => messages[m] = Absent /\ m \in Mentions(retention),
         \A m \in Mentions(retention') : m \in Mentions(retention) \/ messages[m] # Absent,
         \A m \in Messages : retention'.stage \in {"deleting", "raw"} =>
           /\ m \in retention'.chunk => messages[m] = Absent
           /\ m \in retention'.todo => m \in trashed
  PROVE  IInv'
<1>1. RowHasRaw'
  BY DEF IInv, RowHasRaw
<1>2. (RowInExistingFolder /\ RetentionClock /\ VersionsBounded)'
  BY DEF IInv, RowInExistingFolder, RetentionClock, VersionsBounded
<1>3. NewestEventOfRow'
  BY DEF IInv, NewestEventOfRow
<1>4. IdsAreIngested'
  <2>1. \A m \in Mentions(retention') : m \in Messages
    BY DEF Mentions
  <2> QED BY <2>1 DEF IInv, IdsAreIngested
<1>5. CreatingIsPrivate'
  <2> SUFFICES ASSUME NEW s \in Requests, Creating(req[s]), NEW x, x = req[s].event.message_id
               PROVE  /\ messages[x] = Absent
                      /\ \A v \in DOMAIN sync_events' : sync_events'[v].message_id # x
                      /\ \A t \in Requests \ {s} : x \notin Mentions(req[t])
                      /\ x \notin Mentions(retention')
                      /\ req[s].stage = "batch" => x \in bucket'
    BY DEF CreatingIsPrivate
  <2>1. /\ messages[x] = Absent
        /\ \A v \in DOMAIN sync_events : sync_events[v].message_id # x
        /\ \A t \in Requests \ {s} : x \notin Mentions(req[t])
        /\ x \notin Mentions(retention)
        /\ req[s].stage = "batch" => x \in bucket
    BY DEF IInv, CreatingIsPrivate
  <2>2. x \in Messages
    BY BatchRequest, PutRawRequest, EventKinds DEF Creating, IInv, TypeOK, CreatedEvent
  <2> QED BY <2>1, <2>2
<1>6. RawDeletesAreLate'
  BY DEF IInv, RawDeletesAreLate
<1>7. DoomedWereTrashed'
  BY DEF IInv, DoomedWereTrashed
<1>8. PendingStamps'
  BY DEF IInv, PendingStamps
<1> QED BY <1>1, <1>2, <1>3, <1>4, <1>5, <1>6, <1>7, <1>8 DEF IInv

\* Every step of the retention job keeps the invariant.
LEMMA SafetyRetention ==
  ASSUME IInv, TypeOK', RetentionJob
  PROVE  IInv'
<1> USE DEF logVars
<1>0. TypeOK
  BY DEF IInv
<1>1. CASE StartRetention
  <2>1. retention' = [stage |-> "deleting", now |-> clock,
                      todo |-> {m \in Messages : Expired(m)}, chunk |-> {}]
    BY <1>1 DEF StartRetention
  <2>2. \A m \in Messages : Expired(m) => messages[m] # Absent /\ m \in trashed
    BY DEF Expired, IInv, DoomedWereTrashed
  <2>3. \A m \in Mentions(retention') : messages[m] # Absent
    BY <2>1, <2>2 DEF Mentions
  <2> QED BY <1>1, <2>1, <2>2, <2>3, RetentionQuiet DEF StartRetention
<1>2. CASE SkipRetentionChunk
  <2>1. PICK S \in SUBSET retention.todo : retention' = [retention EXCEPT !.todo = @ \ S]
    BY <1>2 DEF SkipRetentionChunk
  <2>2. retention = [stage |-> "deleting", now |-> retention.now,
                     todo |-> retention.todo, chunk |-> retention.chunk]
    BY <1>0, <1>2, RetentionRecord DEF SkipRetentionChunk
  <2>3. retention' = [stage |-> "deleting", now |-> retention.now,
                      todo |-> retention.todo \ S, chunk |-> retention.chunk]
    BY <2>1, <2>2
  <2>4. Mentions(retention') \subseteq Mentions(retention)
    BY <2>2, <2>3 DEF Mentions
  <2>5. \A m \in Messages : /\ m \in retention'.chunk => messages[m] = Absent
                            /\ m \in retention'.todo => m \in trashed
    BY <2>2, <2>3 DEF IInv, RawDeletesAreLate, DoomedWereTrashed
  <2> QED BY <1>2, <2>4, <2>5, RetentionQuiet DEF SkipRetentionChunk
<1>3. CASE DeleteChunkRaw
  <2>1. PICK deleted \in SUBSET retention.chunk : bucket' = bucket \ deleted
    BY <1>3 DEF DeleteChunkRaw
  <2>2. retention = [stage |-> "raw", now |-> retention.now,
                     todo |-> retention.todo, chunk |-> retention.chunk]
    BY <1>0, <1>3, RetentionRecord DEF DeleteChunkRaw
  <2>3. retention' = [stage |-> "deleting", now |-> retention.now,
                      todo |-> retention.todo, chunk |-> {}]
    BY <1>3, <2>2 DEF DeleteChunkRaw
  <2>4. Mentions(retention') \subseteq Mentions(retention)
    BY <2>2, <2>3 DEF Mentions
  <2>5. \A m \in Messages : m \in bucket /\ m \notin bucket'
                              => messages[m] = Absent /\ m \in Mentions(retention)
    BY <2>1, <2>2 DEF IInv, RawDeletesAreLate, Mentions
  <2>6. \A m \in Messages : /\ m \in retention'.chunk => messages[m] = Absent
                            /\ m \in retention'.todo => m \in trashed
    BY <2>2, <2>3 DEF IInv, DoomedWereTrashed
  <2> QED BY <1>3, <2>4, <2>5, <2>6, RetentionQuiet DEF DeleteChunkRaw
<1>4. CASE PruneSyncEvents
  <2>1. retention' = Idle /\ Mentions(Idle) = {} /\ Idle.stage = "idle"
    BY <1>4 DEF PruneSyncEvents, Mentions, Idle
  <2>2. /\ DOMAIN sync_events' \subseteq DOMAIN sync_events
        /\ \A v \in DOMAIN sync_events' : sync_events'[v] = sync_events[v]
    BY <1>4 DEF PruneSyncEvents
  <2> QED BY <1>4, <2>1, <2>2, RetentionQuiet DEF PruneSyncEvents
<1>5. CASE RetentionCrash
  <2>1. retention' = Idle /\ Mentions(Idle) = {} /\ Idle.stage = "idle"
    BY <1>5 DEF RetentionCrash, Mentions, Idle
  <2> QED BY <1>5, <2>1, RetentionQuiet DEF RetentionCrash
<1> QED BY <1>1, <1>2, <1>3, <1>4, <1>5, SafetyRetentionChunk DEF RetentionJob

-----------------------------------------------------------------------------
\* Every step of the store keeps the invariant.
LEMMA SafetyNext == IInv /\ [Next]_vars => IInv'
<1> SUFFICES ASSUME IInv, [Next]_vars PROVE IInv'
  OBVIOUS
<1>1. TypeOK'
  BY TypeNext DEF IInv
<1>2. CASE UNCHANGED vars
  BY <1>2 DEF vars, IInv, TypeOK, RowHasRaw, RowInExistingFolder, RetentionClock,
     NewestEventOfRow, IdsAreIngested, CreatingIsPrivate, RawDeletesAreLate,
     DoomedWereTrashed, PendingStamps, VersionsBounded
<1>3. CASE Tick
  BY <1>1, <1>3 DEF Tick, logVars, IInv, RowHasRaw, RowInExistingFolder, RetentionClock,
     NewestEventOfRow, IdsAreIngested, CreatingIsPrivate, RawDeletesAreLate,
     DoomedWereTrashed, PendingStamps, VersionsBounded
<1>4. ASSUME NEW r \in Requests,
             Ingest(r) \/ SetFlag(r) \/ MoveMessage(r) \/ PermanentDelete(r)
               \/ DeleteFolder(r) \/ Fail(r)
      PROVE  IInv'
  BY <1>1, <1>4, SafetyReads, SafetyReceive, SafetyPutRaw, SafetyDeleteRaw,
     SafetyCommitEmail, SafetyCommitFlag, SafetyCommitMove, SafetyCommitDelete,
     SafetyRehomeChunk, SafetyRehomeLast
     DEF Ingest, SetFlag, MoveMessage, PermanentDelete, DeleteFolder
<1> QED BY <1>1, <1>2, <1>3, <1>4, SafetyRetention DEF Next

\* The inductive invariant: types, and what handlers between two awaits may rely on, so
\* that none of them (ingest, moves, deletions, retention) writes or destroys wrongly.
THEOREM InvariantHolds == Spec => []IInv
BY SafetyInit, SafetyNext, PTL DEF Spec

\* A row can be opened in every interleaving of handlers and retention job: its
\* raw email is in the bucket (lib/r2.ts).
THEOREM StoreSafe == Spec => []RowHasRaw
<1>1. IInv => RowHasRaw  BY DEF IInv
<1> QED BY <1>1, InvariantHolds, PTL

\* No folder deletion strands a message, moved or delivered there meanwhile
\* (modules/folders/service.ts).
THEOREM RowsKeepFolders == Spec => []RowInExistingFolder
<1>1. IInv => RowInExistingFolder  BY DEF IInv
<1> QED BY <1>1, InvariantHolds, PTL

\* Every handler that moves rows starts and stops the retention clock.
THEOREM ClockFollowsFolder == Spec => []RetentionClock
<1>1. IInv => RetentionClock  BY DEF IInv
<1> QED BY <1>1, InvariantHolds, PTL

\* Rows show their newest surviving event (lib/allocate.ts).
THEOREM RowsShowNewest == Spec => []NewestEventOfRow
<1>1. IInv => NewestEventOfRow  BY DEF IInv
<1> QED BY <1>1, InvariantHolds, PTL

\* A move never makes a row disappear.
LEMMA MovedStaysPresent ==
  ASSUME NEW row \in Row, NEW f \in Folders, NEW at \in Nat \cup {Null}, NEW v \in Nat
  PROVE  Moved(row, f, at, v) # Absent
<1>1. [row EXCEPT !.folder_id = f, !.folder_entered_at = at, !.sync_version = v] \in Row
  BY DEF Row
<1> QED BY <1>1, AbsentAssumption DEF Moved

\* Inserts, flag updates and moves leave no present row absent.
LEMMA WritesKeepRows ==
  ASSUME TypeOK, NEW r \in Requests,
         CommitEmail(r) \/ CommitFlag(r) \/ CommitMove(r),
         NEW m \in Messages, messages[m] # Absent
  PROVE  messages'[m] # Absent
<1> DEFINE e == req[r].event
           x == e.message_id
<1>0. messages[m] \in Row /\ last_version + 1 \in Nat /\ DOMAIN messages = Messages
  BY DEF TypeOK
<1>1. CASE CommitEmail(r)
  <2> DEFINE new == [e.message EXCEPT !.sync_version = last_version + 1]
  <2>1. e \in CreatedEvent
    BY <1>1, BatchRequest, EventKinds DEF CommitEmail, TypeOK
  <2>2. messages' = [messages EXCEPT ![x] = new]
    BY <1>1 DEF CommitEmail, WriteRows
  <2> HIDE DEF e
  <2>3. new \in Row
    BY <1>0, <2>1 DEF CreatedEvent, Row
  <2> HIDE DEF new, x
  <2> QED BY <1>0, <2>2, <2>3, AbsentAssumption
<1>2. CASE CommitFlag(r)
  <2> DEFINE new(row) == IF row = Absent THEN Absent
                         ELSE [row EXCEPT !.flags = [@ EXCEPT ![e.flag] = e.value],
                                          !.sync_version = last_version + 1]
  <2>1. e \in UpdatedEvent
    BY <1>2, BatchRequest, EventKinds DEF CommitFlag, TypeOK
  <2>2. messages' = [messages EXCEPT ![x] = new(messages[x])]
    BY <1>2 DEF CommitFlag, WriteRows
  <2> HIDE DEF e
  <2>3. new(messages[m]) # Absent
    <3>1. e.flag \in Flags /\ e.value \in BOOLEAN
      BY <2>1 DEF UpdatedEvent
    <3>2. [messages[m].flags EXCEPT ![e.flag] = e.value] \in [Flags -> BOOLEAN]
      BY <1>0, <3>1 DEF Row
    <3>3. new(messages[m]) \in Row
      BY <1>0, <3>2 DEF Row
    <3> QED BY <3>3, AbsentAssumption
  <2> HIDE DEF new, x
  <2> QED BY <1>0, <2>2, <2>3
<1>3. CASE CommitMove(r)
  <2> DEFINE new(row) == Moved(row, e.folder_id, e.folder_entered_at, last_version + 1)
  <2>1. e \in MovedEvent
    BY <1>3, BatchRequest, EventKinds DEF CommitMove, TypeOK
  <2>2. messages' = [messages EXCEPT ![x] = new(messages[x])]
    BY <1>3 DEF CommitMove, WriteRows
  <2> HIDE DEF e
  <2>3. new(messages[m]) # Absent
    BY <1>0, <2>1, MovedStaysPresent DEF MovedEvent
  <2> HIDE DEF new, x
  <2> QED BY <1>0, <2>2, <2>3
<1> QED BY <1>1, <1>2, <1>3

\* So do the moves to the inbox of folder deletion.
LEMMA RehomeKeepsRows ==
  ASSUME TypeOK, NEW S \in SUBSET Messages, NEW now, Rehome(S, now),
         NEW m \in Messages, messages[m] # Absent
  PROVE  messages'[m] # Absent
<1>1. PICK o \in Orders(S) :
        messages' = [x \in Messages |->
                       IF x \in S THEN Moved(messages[x], "system.inbox", Null,
                                             CHOOSE v \in DOMAIN o : o[v] = x)
                       ELSE messages[x]]
  BY DEF Rehome, WriteRows
<1>2. CASE m \in S
  <2> DEFINE v == CHOOSE w \in DOMAIN o : o[w] = m
  <2>1. v \in Nat
    <3>1. \E w \in DOMAIN o : o[w] = m /\ \A u \in DOMAIN o : u \in Nat
      BY <1>2, OrdersFact
    <3> QED BY <3>1
  <2>2. messages'[m] = Moved(messages[m], "system.inbox", Null, v)
    BY <1>1, <1>2
  <2>3. messages[m] \in Row /\ "system.inbox" \in Folders
    BY DEF TypeOK, Folders, SystemFolders
  <2> HIDE DEF v
  <2> QED BY <2>1, <2>2, <2>3, MovedStaysPresent
<1>3. CASE m \notin S
  BY <1>1, <1>3
<1> QED BY <1>2, <1>3

\* The two steps that do destroy rows destroy doomed ones only.
LEMMA DestroyStep ==
  ASSUME IInv, [Next]_vars, NEW m \in Messages, messages[m] # Absent, messages'[m] = Absent
  PROVE  m \in trashed
<1>1. TypeOK
  BY DEF IInv
<1>2. messages' # messages
  OBVIOUS
<1>3. ASSUME NEW r \in Requests, CommitDelete(r) PROVE m \in trashed
  <2>1. req[r].event.message_id \in trashed
    BY <1>3 DEF CommitDelete, IInv, DoomedWereTrashed
  <2>2. messages' = [messages EXCEPT ![req[r].event.message_id] = Absent]
    BY <1>3 DEF CommitDelete, WriteRows
  <2> QED BY <1>1, <2>1, <2>2 DEF TypeOK
<1>4. ASSUME NEW r \in Requests, RehomeChunk(r) \/ RehomeLastAndDrop(r) PROVE FALSE
  <2>1. PICK S \in SUBSET req[r].todo : Rehome(S, req[r].now)
    BY <1>4 DEF RehomeChunk, RehomeLastAndDrop
  <2>2. S \in SUBSET Messages
    BY <1>1, <1>4, RehomeRequest DEF RehomeChunk, RehomeLastAndDrop, TypeOK
  <2> QED BY <1>1, <2>1, <2>2, RehomeKeepsRows
<1>5. CASE CommitRetentionChunk
  <2>1. PICK S \in SUBSET retention.todo :
          messages' = [x \in Messages |-> IF x \in S THEN Absent ELSE messages[x]]
    BY <1>5 DEF CommitRetentionChunk, WriteRows
  <2>2. m \in retention.todo
    BY <2>1
  <2> QED BY <1>5, <2>2 DEF CommitRetentionChunk, IInv, DoomedWereTrashed
<1>6. ASSUME NEW r \in Requests,
             \/ ReceiveEmail(r) \/ PutRawEmail(r) \/ RejectEmail(r) \/ LoadForFlag(r)
             \/ LoadForMove(r) \/ FindTargetFolder(r) \/ LoadForDelete(r) \/ CheckInTrash(r)
             \/ DeleteRawEmail(r) \/ LoadFolder(r) \/ SelectMessages(r) \/ Fail(r)
      PROVE  UNCHANGED messages
  BY <1>6 DEF ReceiveEmail, PutRawEmail, RejectEmail, LoadForFlag, LoadForMove,
     FindTargetFolder, LoadForDelete, CheckInTrash, DeleteRawEmail, LoadFolder,
     SelectMessages, Fail, logVars
<1>7. CASE \/ StartRetention \/ SkipRetentionChunk \/ DeleteChunkRaw \/ PruneSyncEvents
           \/ RetentionCrash \/ Tick
  BY <1>2, <1>7 DEF StartRetention, SkipRetentionChunk, DeleteChunkRaw, PruneSyncEvents,
     RetentionCrash, Tick, logVars
<1>8. CASE UNCHANGED vars
  BY <1>2, <1>8 DEF vars
<1>9. ASSUME NEW r \in Requests, CommitEmail(r) \/ CommitFlag(r) \/ CommitMove(r) PROVE FALSE
  BY <1>1, <1>9, WritesKeepRows
<1> QED BY <1>2, <1>3, <1>4, <1>5, <1>6, <1>7, <1>8, <1>9
        DEF Next, Ingest, SetFlag, MoveMessage, PermanentDelete, DeleteFolder, RetentionJob

\* Nobody's mail is destroyed without ever having been in Trash or Spam: neither
\* a permanent delete nor the retention job reaches a message that never was.
THEOREM DestroysOnlyTrashed == Spec => DestroyedOnlyAfterTrash
<1>1. IInv /\ [Next]_vars =>
        [\A m \in Messages : messages[m] # Absent /\ messages'[m] = Absent => m \in trashed]_vars
  BY DestroyStep
<1> QED BY <1>1, InvariantHolds, PTL DEF Spec, DestroyedOnlyAfterTrash
=============================================================================
