----------------------------- MODULE SyncEvents -----------------------------
(***************************************************************************)
(* The vocabulary shared by the server and the client of one mailbox: the  *)
(* columns of a message row that synchronisation is about, the four kinds  *)
(* of sync event, and applySyncEvent, the function by which a client folds *)
(* an event into its local table.                                          *)
(*                                                                         *)
(* Header columns (subject, snippet, addresses, dates) never change after  *)
(* ingest and are abstracted into the identity of the message.             *)
(***************************************************************************)
EXTENDS Naturals

CONSTANTS
  Messages,       \* message ids (createId values, never reused)
  CustomFolders,  \* ids of user-created folders
  Flags,          \* the Boolean columns a mutation may set: is_read, is_starred
  Absent,         \* what a lookup of a missing row returns
  Null            \* SQL NULL

\* The system folders whose names the code compares; drafts, sent and archive
\* receive no special treatment and behave like the inbox.
SystemFolders == {"system.inbox", "system.spam", "system.trash"}

Folders == SystemFolders \cup CustomFolders

\* Folders in which the retention clock runs.
RetentionFolders == {"system.spam", "system.trash"}

\* A row of `messages`.  folder_entered_at is the start of the retention clock.
Row == [flags : [Flags -> BOOLEAN], folder_id : Folders,
        folder_entered_at : Nat \cup {Null}, sync_version : Nat]

CreatedEvent == [event_type : {"message_created"}, message_id : Messages,
                 message : Row, created_at : Nat]
UpdatedEvent == [event_type : {"message_updated"}, message_id : Messages,
                 flag : Flags, value : BOOLEAN, created_at : Nat]
MovedEvent == [event_type : {"message_moved"}, message_id : Messages,
               folder_id : Folders, folder_entered_at : Nat \cup {Null},
               created_at : Nat]
DeletedEvent == [event_type : {"message_deleted"}, message_id : Messages,
                 created_at : Nat]

Event == CreatedEvent \cup UpdatedEvent \cup MovedEvent \cup DeletedEvent

\* The stamp a row gets when it lands in a folder at time `now`.
EnteredAt(folder, now) == IF folder \in RetentionFolders THEN now ELSE Null

\* The client's treatment of event `e`, numbered `v`, on the row it holds for
\* that message.  Updates and moves of a row it does not hold are no-ops.
ApplySyncEvent(row, v, e) ==
  CASE e.event_type = "message_created" -> e.message
    [] e.event_type = "message_updated" /\ row # Absent ->
         [row EXCEPT !.flags = [@ EXCEPT ![e.flag] = e.value],
                     !.sync_version = v]
    [] e.event_type = "message_moved" /\ row # Absent ->
         [row EXCEPT !.folder_id = e.folder_id,
                     !.folder_entered_at = e.folder_entered_at,
                     !.sync_version = v]
    [] OTHER -> Absent

ASSUME FoldersAssumption == CustomFolders \cap SystemFolders = {}
ASSUME AbsentAssumption == Absent \notin Row
ASSUME NullAssumption == Null \notin Nat
=============================================================================
