---------------------------- MODULE MutationQueue ----------------------------
(***************************************************************************)
(* Optimistic mutations on top of SyncEngine: enqueueMutation writes the   *)
(* local row and the queue, runSync alternates delta runs and flushes,     *)
(* flushQueue posts the queue first in first out, the worker's             *)
(* processMutations answers each mutation, and what was rejected is        *)
(* fetched again.                                                          *)
(*                                                                         *)
(* A POST lives on its own: the client may give up on it while the worker  *)
(* goes on processing it.  What a handler does between reading a row and   *)
(* its batch is the business of MailboxStore; here it is one step, which   *)
(* may commit what another request has made true since the row was read.   *)
(***************************************************************************)
EXTENDS SyncEngine

CONSTANTS
  Mutations,     \* what the user may click, see Mutation
  FlushChunk,    \* FLUSH_CHUNK_SIZE
  Posts,         \* POSTs that may be under way together
  MaxMutations   \* bound: clicks

\* A queue row; mutation_type is "move" or the column that is set.
Mutation ==
  [mutation_type : Flags, message_id : Messages, mutation_value : BOOLEAN]
  \cup [mutation_type : {"move"}, message_id : Messages, mutation_value : Folders]

ASSUME QueueAssumption ==
  /\ Mutations \subseteq Mutation /\ "move" \notin Flags
  /\ FlushChunk \in Nat \ {0} /\ MaxMutations \in Nat

VARIABLES
  sync_queue,    \* the profile's table `sync_queue`: auto-increment id -> mutation
  flush,         \* tab -> what its flush carries from one await to the next
  post,          \* POSTs that reached the worker: rows, and the answers so far
  enqueued,      \* ghost: id -> mutation, for every click so far
  answered,      \* ghost: ids the worker has processed at least once
  unreconciled,  \* ghost: messages whose rejected change was left standing
  restamped      \* ghost: messages that a move was accepted for without an event

queueVars == <<sync_queue, flush, post, enqueued, answered, unreconciled, restamped>>
qVars == <<vars, queueVars>>

QInit ==
  /\ Init
  /\ sync_queue = [id \in {} |-> {}]
  /\ flush = [t \in Tabs |-> Idle]
  /\ post = [p \in Posts |-> Idle]
  /\ enqueued = sync_queue
  /\ answered = {}
  /\ unreconciled = {}
  /\ restamped = {}

Flushes(t, state) == flush' = [flush EXCEPT ![t] = state]

-----------------------------------------------------------------------------
(* Clicks                                                                  *)

\* What the clock of the browser reads.  The worker stamps with its own, which
\* reads 0 here, so that the two can be told apart.
BrowserNow == 1

\* The optimistic write; the retention stamp is set only when the local folder
\* list knows the target.
Optimistic(row, mutation) ==
  IF row = Absent THEN Absent
  ELSE IF mutation.mutation_type = "move"
  THEN LET f == mutation.mutation_value IN
       [row EXCEPT !.folder_id = f,
                   !.folder_entered_at = IF f \in local_folders THEN EnteredAt(f, BrowserNow)
                                         ELSE Null]
  ELSE [row EXCEPT !.flags = [@ EXCEPT ![mutation.mutation_type] = mutation.mutation_value]]

\* One Dexie transaction.
EnqueueMutation ==
  \E mutation \in Mutations :
    LET id == Cardinality(DOMAIN enqueued) + 1 IN
    /\ id <= MaxMutations /\ mutation.message_id \in ingested
    /\ local' = [local EXCEPT ![mutation.message_id] = Optimistic(@, mutation)]
    /\ sync_queue' = [i \in DOMAIN sync_queue \cup {id} |->
                        IF i = id THEN mutation ELSE sync_queue[i]]
    /\ enqueued' = [i \in 1..id |-> IF i = id THEN mutation ELSE enqueued[i]]
    /\ UNCHANGED <<serverVars, local_folders, last_sync_version, run, steady, unsignalled,
                   flush, post, answered, unreconciled, restamped>>

-----------------------------------------------------------------------------
(* The worker                                                              *)

\* The event that a mutation commits.
EventOf(mutation) ==
  IF mutation.mutation_type = "move"
  THEN [event_type |-> "message_moved", message_id |-> mutation.message_id,
        folder_id |-> mutation.mutation_value,
        folder_entered_at |-> EnteredAt(mutation.mutation_value, 0), created_at |-> 0]
  ELSE [event_type |-> "message_updated", message_id |-> mutation.message_id,
        flag |-> mutation.mutation_type, value |-> mutation.mutation_value, created_at |-> 0]

Accepted(mutation) ==
  /\ messages[mutation.message_id] # Absent
  /\ mutation.mutation_type = "move" => mutation.mutation_value \in folders

\* The row has the value already.
NoOp(mutation) ==
  LET row == messages[mutation.message_id] IN
  mutation.mutation_value = IF mutation.mutation_type = "move" THEN row.folder_id
                            ELSE row.flags[mutation.mutation_type]

\* A tab waits for the answer to post p.
Awaited(p) == \E t \in Tabs : flush[t] # Idle /\ flush[t].stage = "wait" /\ flush[t].post = p

\* One turn of the loop of processMutations.  A mutation that the loaded row has
\* already is answered ok and commits nothing; the batch of one that it had not
\* commits its event, also when another request has made the same change since.
\* What throws, for whatever reason, is answered as rejected.
ProcessMutation(p) ==
  /\ post[p] # Idle /\ post[p].todo # {}
  /\ LET id == Min(post[p].todo)
         mutation == enqueued[id]
         Answer(rejected) ==
           /\ answered' = answered \cup {id}
           /\ post' = [post EXCEPT ![p] =
                         IF post[p].todo = {id} /\ ~Awaited(p) THEN Idle
                         ELSE [todo |-> @.todo \ {id}, rejected |-> @.rejected \cup rejected]]
     IN \/ /\ Accepted(mutation)
           /\ CommitOne(EventOf(mutation))
           /\ Answer({})
           /\ UNCHANGED restamped
        \/ /\ Accepted(mutation) /\ NoOp(mutation)
           /\ Answer({})
           /\ restamped' = restamped \cup
                (IF mutation.mutation_type = "move" THEN {mutation.message_id} ELSE {})
           /\ UNCHANGED <<messages, last_version, sync_events, history>>
        \/ /\ Answer({id})
           /\ UNCHANGED <<messages, last_version, sync_events, history, restamped>>
  /\ UNCHANGED <<folders, ingested, localVars, run, steady, unsignalled,
                 sync_queue, flush, enqueued, unreconciled>>

-----------------------------------------------------------------------------
(* A flush of tab t                                                        *)

\* After the loop: fetch what was rejected, then one more delta run.
AfterLoop(rejected) == IF rejected = {} THEN Idle ELSE [stage |-> "reconcile", rejected |-> rejected]

\* Read the oldest FlushChunk rows and post them.
PostMutations(t) ==
  /\ flush[t] # Idle /\ flush[t].stage = "select"
  /\ LET rows == {i \in DOMAIN sync_queue :
                    Cardinality({j \in DOMAIN sync_queue : j <= i}) <= FlushChunk}
     IN IF rows = {} THEN Flushes(t, AfterLoop(flush[t].rejected)) /\ UNCHANGED post
        ELSE \E p \in Posts :
               /\ post[p] = Idle
               /\ post' = [post EXCEPT ![p] = [todo |-> rows, rejected |-> {}]]
               /\ Flushes(t, [stage |-> "wait", post |-> p, rows |-> rows,
                              rejected |-> flush[t].rejected])
  /\ UNCHANGED <<vars, sync_queue, enqueued, answered, unreconciled, restamped>>

\* The answer arrives: one result per row.
AnswerMutations(t) ==
  /\ flush[t] # Idle /\ flush[t].stage = "wait"
  /\ post[flush[t].post].todo = {}
  /\ Flushes(t, [stage |-> "delete", rows |-> flush[t].rows,
                 more |-> Cardinality(flush[t].rows) = FlushChunk,
                 rejected |-> flush[t].rejected
                   \cup {enqueued[i].message_id : i \in post[flush[t].post].rejected}])
  /\ post' = [post EXCEPT ![flush[t].post] = Idle]
  /\ UNCHANGED <<vars, sync_queue, enqueued, answered, unreconciled, restamped>>

\* Mutant of LoseAnswer: the rows of a failed POST are dropped.
LoseAnswerAndRows(t) ==
  /\ ~steady
  /\ flush[t] # Idle /\ flush[t].stage = "wait"
  /\ Flushes(t, AfterLoop(flush[t].rejected))
  /\ sync_queue' = Restrict(sync_queue, DOMAIN sync_queue \ flush[t].rows)
  /\ \/ post[flush[t].post].todo # {} /\ UNCHANGED post
     \/ post' = [post EXCEPT ![flush[t].post] = Idle]
  /\ UNCHANGED <<vars, enqueued, answered, unreconciled, restamped>>

\* It does not arrive.  The rows stay; the worker may or may not carry on.
LoseAnswer(t) ==
  /\ ~steady
  /\ flush[t] # Idle /\ flush[t].stage = "wait"
  /\ Flushes(t, AfterLoop(flush[t].rejected))
  /\ \/ post[flush[t].post].todo # {} /\ UNCHANGED post
     \/ post' = [post EXCEPT ![flush[t].post] = Idle]
  /\ UNCHANGED <<vars, sync_queue, enqueued, answered, unreconciled, restamped>>

\* The rows of an answered POST are deleted one after the other.
DeleteRow(t) ==
  /\ flush[t] # Idle /\ flush[t].stage = "delete"
  /\ IF flush[t].rows = {}
     THEN /\ Flushes(t, IF flush[t].more THEN [stage |-> "select", rejected |-> flush[t].rejected]
                        ELSE AfterLoop(flush[t].rejected))
          /\ UNCHANGED sync_queue
     ELSE LET id == Min(flush[t].rows) IN
          /\ sync_queue' = Restrict(sync_queue, DOMAIN sync_queue \ {id})
          /\ Flushes(t, [flush[t] EXCEPT !.rows = @ \ {id}])
  /\ UNCHANGED <<vars, post, enqueued, answered, unreconciled, restamped>>

\* When nothing is left to reconcile the flush ends with a delta run.
Reconciled(rejected) ==
  IF rejected = {} THEN [stage |-> "resync"] ELSE [stage |-> "reconcile", rejected |-> rejected]

\* GET the authoritative row of a rejected message.
GetMessage(t) ==
  /\ flush[t] # Idle /\ flush[t].stage = "reconcile"
  /\ \E m \in flush[t].rejected :
       Flushes(t, [stage |-> "overwrite", message_id |-> m, row |-> messages[m],
                   rejected |-> flush[t].rejected \ {m}])
  /\ UNCHANGED <<vars, sync_queue, post, enqueued, answered, unreconciled, restamped>>

\* The request fails: the optimistic write stays.
GetMessageFails(t) ==
  /\ ~steady
  /\ flush[t] # Idle /\ flush[t].stage = "reconcile"
  /\ \E m \in flush[t].rejected :
       /\ Flushes(t, Reconciled(flush[t].rejected \ {m}))
       /\ unreconciled' = unreconciled \cup {m}
  /\ UNCHANGED <<vars, sync_queue, post, enqueued, answered, restamped>>

\* Mutant of OverwriteLocal: the rejected change stays on screen.
KeepOptimistic(t) ==
  /\ flush[t] # Idle /\ flush[t].stage = "overwrite"
  /\ Flushes(t, Reconciled(flush[t].rejected))
  /\ UNCHANGED <<vars, sync_queue, post, enqueued, answered, unreconciled, restamped>>

\* The row replaces the local one; a 404 deletes it.
OverwriteLocal(t) ==
  /\ flush[t] # Idle /\ flush[t].stage = "overwrite"
  /\ local' = [local EXCEPT ![flush[t].message_id] = flush[t].row]
  /\ Flushes(t, Reconciled(flush[t].rejected))
  /\ UNCHANGED <<serverVars, local_folders, last_sync_version, run, steady, unsignalled,
                 sync_queue, post, enqueued, answered, unreconciled, restamped>>

-----------------------------------------------------------------------------
(* runSync                                                                 *)

\* A delta run starts when the store is not syncing, or to end a flush.
StartSync(t) ==
  /\ flush[t] = Idle \/ flush[t].stage = "resync"
  /\ StartRun(t)
  /\ UNCHANGED queueVars

\* A successful run leads to a flush, unless it was the last part of one.
FinishSync(t) ==
  /\ Finish(t)
  /\ Flushes(t, IF flush[t] = Idle THEN [stage |-> "select", rejected |-> {}] ELSE Idle)
  /\ UNCHANGED <<sync_queue, post, enqueued, answered, unreconciled, restamped>>

AbortSync(t) ==
  /\ Abort(t)
  /\ Flushes(t, Idle)
  /\ UNCHANGED <<sync_queue, post, enqueued, answered, unreconciled, restamped>>

\* A second pruning gap ends the run like a failure.
AskDeltaAgain(t) ==
  /\ AskDelta(t)
  /\ Flushes(t, IF run'[t] = Idle THEN Idle ELSE flush[t])
  /\ UNCHANGED <<sync_queue, post, enqueued, answered, unreconciled, restamped>>

\* The tab is closed in the middle of a flush; rejectedIds is lost with it.
CloseTab(t) ==
  /\ ~steady
  /\ flush[t] # Idle /\ flush[t].stage # "resync"
  /\ Flushes(t, Idle)
  /\ unreconciled' = unreconciled \cup flush[t].rejected
       \cup (IF flush[t].stage = "overwrite" THEN {flush[t].message_id} ELSE {})
  /\ post' = [p \in Posts |->
                IF flush[t].stage = "wait" /\ flush[t].post = p /\ post[p].todo = {}
                THEN Idle ELSE post[p]]
  /\ UNCHANGED <<vars, sync_queue, enqueued, answered, restamped>>

Sync(t) ==
  \/ StartSync(t) \/ AskDeltaAgain(t) \/ FinishSync(t)
  \/ /\ \/ AnswerDelta(t) \/ ApplyEvent(t) \/ ClearMessages(t) \/ ListMessages(t)
        \/ PutPage(t) \/ SaveWatermark(t) \/ ListFolders(t) \/ ClearFolders(t)
        \/ PutFolders(t)
     /\ UNCHANGED queueVars

Flush(t) ==
  \/ PostMutations(t) \/ AnswerMutations(t) \/ DeleteRow(t)
  \/ GetMessage(t) \/ OverwriteLocal(t)

Trouble(t) == AbortSync(t) \/ LoseAnswer(t) \/ GetMessageFails(t) \/ CloseTab(t)

QNext ==
  \/ (Server \/ Settle) /\ UNCHANGED queueVars
  \/ EnqueueMutation
  \/ \E p \in Posts : ProcessMutation(p)
  \/ \E t \in Tabs : Sync(t) \/ Flush(t) \/ Trouble(t)

QSpec == QInit /\ [][QNext]_qVars

\* Runs are started again and again (openMailbox, the five-minute timer), a run and
\* its flush go on until they end or are interrupted, and the worker goes on with
\* a request it has accepted.
QFairSpec ==
  /\ QSpec
  /\ \A t \in Tabs : WF_qVars(Sync(t)) /\ WF_qVars(Flush(t))
  /\ \A p \in Posts : WF_qVars(ProcessMutation(p))

-----------------------------------------------------------------------------
(* Properties                                                              *)

\* OPTI-3: a click stays in the queue until the worker has answered it, whatever
\* fails and wherever a tab is closed.
NoMutationForgotten ==
  /\ sync_queue = Restrict(enqueued, DOMAIN sync_queue)
  /\ DOMAIN enqueued \subseteq DOMAIN sync_queue \cup answered

\* The flush of some tab is going to fetch the row of message m.
ToBeReconciled(m) ==
  \E t \in Tabs : flush[t] # Idle /\
    \/ flush[t].stage # "resync" /\ m \in flush[t].rejected
    \/ flush[t].stage = "overwrite" /\ m = flush[t].message_id

\* OPTI-4: what a row shows is a click still in the queue, or something the
\* server showed at or after the persisted cursor: no rejected change and no
\* overtaken value survives a flush, unless the reconciliation itself failed.
ShowsServerOrPending ==
  ~unsignalled =>
    \A m \in Messages \ unreconciled : local[m] # Absent /\ ~ToBeReconciled(m) =>
      LET seen == {v \in last_sync_version..last_version : history[v][m] # Absent}
          Pending(type, value) ==
            \E id \in DOMAIN sync_queue :
              sync_queue[id] = [mutation_type |-> type, message_id |-> m,
                                mutation_value |-> value]
      IN /\ \A flag \in Flags : \/ Pending(flag, local[m].flags[flag])
                               \/ \E s \in seen : history[s][m].flags[flag] = local[m].flags[flag]
         /\ \/ Pending("move", local[m].folder_id)
            \/ \E s \in seen : history[s][m].folder_id = local[m].folder_id

\* The profile shows message m as the server has it.  The retention clock of a
\* message that was moved to the folder it was in shows the time of the click: no
\* event corrects it.
ShowsMessage(m) ==
  \/ local[m] = messages[m]
  \/ /\ m \in restamped /\ local[m] # Absent /\ messages[m] # Absent
     /\ local[m] = [messages[m] EXCEPT !.folder_entered_at = local[m].folder_entered_at]

\* Once requests stop failing and the mailbox is quiet, the queue drains and the
\* profile comes to show the mailbox, messages and folders, and stays so (but for
\* the moment in which a run replaces its folder list), however earlier runs and
\* flushes were cut off; unless an answer silently skipped history, or the
\* reconciliation of a rejected change had failed.
QueueDrains ==
  []~unsignalled /\ <>steady /\ [](unreconciled = {}) =>
    <>[](/\ DOMAIN sync_queue = {} /\ \A m \in Messages : ShowsMessage(m)
         /\ local_folders = folders \/ \E t \in Tabs : run[t].stage = "put_folders")
=============================================================================
