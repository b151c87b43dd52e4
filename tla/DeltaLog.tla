------------------------------ MODULE DeltaLog ------------------------------
(***************************************************************************)
(* What the server of one mailbox promises to the clients that follow it:  *)
(* the table changes only together with the sync log.  Every committed     *)
(* batch appends events numbered densely after the last one, at most one   *)
(* per message, and the table it leaves is the old table with those events *)
(* applied by the client's own rule.  Besides that, old events may vanish. *)
(*                                                                         *)
(* This is the abstract specification that MailboxStore implements.        *)
(***************************************************************************)
EXTENDS SyncEvents

VARIABLES
  messages,      \* message id -> Row or Absent
  last_version,  \* mailbox_sync_counters.last_version
  sync_events    \* version -> Event, for the events still in the history

dlVars == <<messages, last_version, sync_events>>

Init ==
  /\ messages = [m \in Messages |-> Absent]
  /\ last_version = 0
  /\ sync_events = [v \in {} |-> {}]

\* The versions that a step leading to counter value `last` allocates.
NewVersions(last) == (last_version + 1)..last

\* Commit of the events batch[v] for the versions v of NewVersions(last).
Append(batch, last) ==
  /\ last > last_version
  /\ \A v, w \in NewVersions(last) :
       batch[v].message_id = batch[w].message_id => v = w
  /\ last_version' = last
  /\ sync_events' =
       [v \in DOMAIN sync_events \cup NewVersions(last) |->
          IF v \in NewVersions(last) THEN batch[v] ELSE sync_events[v]]
  /\ DOMAIN messages' = Messages
  /\ \A v \in NewVersions(last) :
       messages'[batch[v].message_id] =
         ApplySyncEvent(messages[batch[v].message_id], v, batch[v])
  /\ \A m \in Messages :
       (\A v \in NewVersions(last) : batch[v].message_id # m)
         => messages'[m] = messages[m]

\* Compaction: the events in V leave the history.
Prune(V) ==
  /\ sync_events' = [v \in DOMAIN sync_events \ V |-> sync_events[v]]
  /\ UNCHANGED <<messages, last_version>>

Next ==
  \/ Append(sync_events', last_version')
  \/ \E V \in SUBSET DOMAIN sync_events : Prune(V)

Spec == Init /\ [][Next]_dlVars
=============================================================================
