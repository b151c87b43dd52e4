-------------------------- MODULE SyncEngineProofs --------------------------
(***************************************************************************)
(* Delta synchronisation for any number of messages, flags, folders and    *)
(* versions, and for any number of tabs whose runs do not overlap.         *)
(*                                                                         *)
(* The argument compares rows up to a log of events: two rows agree but    *)
(* for a log when every field in which they differ is the business of some *)
(* event of it.  A commit adds its event to the log and so keeps the       *)
(* agreement, a client that applies an event of the log keeps it as well,  *)
(* and the oldest event of a log can be dropped once it is applied,        *)
(* because the table to be reached shows what the last event about each    *)
(* thing says.  EngineInv says for each stage of a run which tables agree  *)
(* but for which log; with an empty log they are the same.                 *)
(*                                                                         *)
(* The last sections are about MutationQueue on top of it: that no click   *)
(* leaves the queue unanswered, and what rows show while clicks are under  *)
(* way. For that EngineInv is said of any table, not only the local one:   *)
(* of what the local table would be without the clicks still to be sent.   *)
(***************************************************************************)
EXTENDS MutationQueue, WellFoundedInduction, FiniteSetTheorems, TLAPS
-----------------------------------------------------------------------------
(* Logs and tables                                                         *)

\* What an event says something about: whether the row exists, a flag, the folder with
\* its retention clock.
OnRow(e, m) == e.message_id = m /\ e.event_type \in {"message_created", "message_deleted"}
OnFlag(e, m, flag) ==
  OnRow(e, m) \/ (e.message_id = m /\ e.event_type = "message_updated" /\ e.flag = flag)
OnFolder(e, m) == OnRow(e, m) \/ (e.message_id = m /\ e.event_type = "message_moved")

\* A row agrees with the row `shown` but for what the events of `log` will still change.
Agrees(m, row, shown, log) ==
  /\ (\A v \in DOMAIN log : ~OnRow(log[v], m)) => (row = Absent <=> shown = Absent)
  /\ row # Absent /\ shown # Absent =>
       /\ \A flag \in Flags :
            (\A v \in DOMAIN log : ~OnFlag(log[v], m, flag)) => row.flags[flag] = shown.flags[flag]
       /\ (\A v \in DOMAIN log : ~OnFolder(log[v], m)) =>
            row.folder_id = shown.folder_id /\ row.folder_entered_at = shown.folder_entered_at
       /\ (\A v \in DOMAIN log : log[v].message_id # m) => row.sync_version = shown.sync_version

\* Of the events that speak about the same thing, `shown` follows the last one.
FollowsLast(m, shown, log) ==
  \A v \in DOMAIN log :
    /\ OnRow(log[v], m) /\ (\A w \in DOMAIN log : w > v => ~OnRow(log[w], m)) =>
         (shown = Absent <=> log[v].event_type = "message_deleted")
    /\ shown # Absent /\ log[v].event_type # "message_deleted" =>
         /\ \A flag \in Flags :
              OnFlag(log[v], m, flag) /\ (\A w \in DOMAIN log : w > v => ~OnFlag(log[w], m, flag)) =>
                shown.flags[flag] = IF log[v].event_type = "message_created"
                                    THEN log[v].message.flags[flag] ELSE log[v].value
         /\ OnFolder(log[v], m) /\ (\A w \in DOMAIN log : w > v => ~OnFolder(log[w], m)) =>
              LET said == IF log[v].event_type = "message_created" THEN log[v].message ELSE log[v]
              IN /\ shown.folder_id = said.folder_id
                 /\ shown.folder_entered_at = said.folder_entered_at
         /\ log[v].message_id = m /\ (\A w \in DOMAIN log : w > v => log[w].message_id # m) =>
              shown.sync_version = v

\* `log` is part of `longer`.
Within(log, longer) == \A v \in DOMAIN log : v \in DOMAIN longer /\ longer[v] = log[v]

-----------------------------------------------------------------------------
(* The server                                                              *)

\* No event after version c has been pruned.
NoGap(c) == (c + 1)..last_version \subseteq DOMAIN sync_events

\* The events after version c.
Later(c) == [v \in {w \in DOMAIN sync_events : w > c} |-> sync_events[v]]

Table == [Messages -> Row \cup {Absent}]

\* What the history has to say about event e, numbered v.  In a batch of several events
\* the versions in between already show the table the batch leaves.
Told(v, e) ==
  /\ e \in Event /\ v \in 1..last_version
  /\ e.event_type = "message_created" =>
       /\ history[v][e.message_id] = e.message /\ e.message.sync_version = v
  /\ e.event_type = "message_updated" /\ history[v][e.message_id] # Absent =>
       history[v][e.message_id].flags[e.flag] = e.value
  /\ e.event_type = "message_moved" /\ history[v][e.message_id] # Absent =>
       /\ history[v][e.message_id].folder_id = e.folder_id
       /\ history[v][e.message_id].folder_entered_at = e.folder_entered_at
  /\ e.event_type \in {"message_updated", "message_moved"} =>
       \E k \in 0..(v - 1) : history[k][e.message_id] # Absent
  /\ \A m \in Messages : history[v - 1][m] # Absent /\ history[v][m] = Absent =>
       e.event_type = "message_deleted" /\ e.message_id = m

HistoryTyped ==
  /\ last_version \in Nat
  /\ history \in [0..last_version -> Table] /\ history[last_version] = messages
  /\ ingested \subseteq Messages /\ folders \subseteq Folders
  /\ DOMAIN sync_events \subseteq 1..last_version
  /\ sync_events = [v \in DOMAIN sync_events |-> sync_events[v]]

\* A message lives once, between its ingest and its deletion.
LivesOnce ==
  \A m \in Messages :
    /\ m \in ingested <=> \E s \in 0..last_version : history[s][m] # Absent
    /\ \A r, s, q \in 0..last_version :
         r <= s /\ s <= q /\ history[r][m] # Absent /\ history[q][m] # Absent =>
           history[s][m] # Absent

\* The log is what remains of the history; from where on it is complete, the tables of
\* then and now agree but for it.
LogTells ==
  /\ \A v \in DOMAIN sync_events : Told(v, sync_events[v])
  /\ \A c \in 0..last_version, m \in Messages : NoGap(c) =>
       /\ FollowsLast(m, messages[m], Later(c))
       /\ Agrees(m, history[c][m], messages[m], Later(c))

ServerInv == HistoryTyped /\ LivesOnce /\ LogTells

-----------------------------------------------------------------------------
(* The client                                                              *)

Replays(t) == run[t].stage \in {"ask", "query", "apply"}
Reports(t) == run[t].stage \in {"list_folders", "clear_folders", "put_folders", "finish"}
Resyncs(t) == run[t].stage \in {"clear", "list", "put", "save_watermark"}

\* The events a run has yet to apply, once it has them.
Events(t) == IF run[t].stage = "apply" THEN run[t].events ELSE [v \in {} |-> v]

\* With those that it has yet to ask for.
ToApply(t) ==
  [v \in DOMAIN Events(t) \cup {w \in DOMAIN sync_events : w > run[t].cursor} |->
     IF v \in DOMAIN Events(t) THEN Events(t)[v] ELSE sync_events[v]]

EventLog == UNION {[V -> Event] : V \in SUBSET Nat}
Page == UNION {[P -> Row] : P \in SUBSET Messages}

Asking == [stage : {"ask", "query"}, cursor : Nat, resyncHandled : BOOLEAN]
Applying == [stage : {"apply"}, resyncHandled : BOOLEAN, events : EventLog, cursor : Nat,
             has_more : BOOLEAN]
Clearing == [stage : {"clear", "save_watermark"}, min_version : Nat]
Listing == [stage : {"list"}, min_version : Nat, after : Nat]
Putting == [stage : {"put"}, min_version : Nat, page : Page, has_more : BOOLEAN, after : Nat]
Ending == [stage : {"list_folders", "finish"}, cursor : Nat]
Foldering == [stage : {"clear_folders", "put_folders"}, cursor : Nat, folders : SUBSET Folders]

RunState ==
  {Idle} \cup Asking \cup Applying \cup Clearing \cup Listing \cup Putting \cup Ending
  \cup Foldering

ClientTyped ==
  /\ last_sync_version \in 0..last_version
  /\ run \in [Tabs -> RunState]

\* A run stands at or after the persisted cursor; one that replaces the table
\* has found that the events after that cursor are not all in the log.
CursorAhead(t) ==
  /\ Replays(t) \/ Reports(t) => run[t].cursor \in last_sync_version..last_version
  /\ Resyncs(t) => /\ run[t].min_version \in last_sync_version..last_version
                   /\ ~NoGap(last_sync_version)

\* What a run has been sent is history, in one piece from the first event it has yet to
\* apply to its cursor.
EventsTold(t) ==
  run[t].stage = "apply" =>
    /\ \A v \in DOMAIN run[t].events :
         /\ v \in (last_sync_version + 1)..run[t].cursor
         /\ Told(v, run[t].events[v])
         /\ v \in DOMAIN sync_events => run[t].events[v] = sync_events[v]
    /\ ~unsignalled =>
         \A v \in DOMAIN run[t].events, w \in 1..run[t].cursor :
           w > v => w \in DOMAIN run[t].events

ProgressInv ==
  ServerInv /\ ClientTyped /\ \A t \in Tabs : CursorAhead(t) /\ EventsTold(t)

\* L stands for the local table.  What follows is said of any table, because the queue needs
\* it of what the local one would be without the clicks that are still to be sent.

\* The local table agrees with the server's but for the events after the persisted
\* cursor, as long as those are in the log.
RestAgrees(L) ==
  ~unsignalled /\ NoGap(last_sync_version) =>
    \A m \in Messages : Agrees(m, L[m], messages[m], Later(last_sync_version))

\* A replay that expects more agrees with the server's table but for what it has yet to
\* apply or ask for.
ReplayAgrees(L, t) ==
  ~unsignalled /\ Replays(t) /\ (run[t].stage = "apply" => run[t].has_more)
    /\ NoGap(run[t].cursor) =>
      \A m \in Messages : /\ Agrees(m, L[m], messages[m], ToApply(t))
                          /\ FollowsLast(m, messages[m], ToApply(t))

\* The last part of one agrees with the table at its cursor but for its events, and in
\* the end it is that table.
EndAgrees(L, t) ==
  ~unsignalled =>
    /\ run[t].stage = "apply" /\ ~run[t].has_more =>
         \A m \in Messages :
           /\ Agrees(m, L[m], history[run[t].cursor][m], run[t].events)
           /\ FollowsLast(m, history[run[t].cursor][m], run[t].events)
    /\ Reports(t) => L = history[run[t].cursor]

\* A row copied while tab t resyncs agrees with the table but for the events after the
\* watermark.
Copied(t, m, row) ==
  NoGap(run[t].min_version) => Agrees(m, row, messages[m], Later(run[t].min_version))

ResyncAgrees(L, t) ==
  \A m \in Messages :
    /\ run[t].stage = "list" =>
         IF Rank[m] <= run[t].after THEN Copied(t, m, L[m]) ELSE L[m] = Absent
    /\ run[t].stage = "put" =>
         /\ m \in DOMAIN run[t].page => Rank[m] <= run[t].after /\ Copied(t, m, run[t].page[m])
         /\ m \notin DOMAIN run[t].page =>
              /\ Rank[m] <= run[t].after \/ ~run[t].has_more => Copied(t, m, L[m])
              /\ Rank[m] > run[t].after => L[m] = Absent
    /\ run[t].stage = "save_watermark" => Copied(t, m, L[m])

TableInv(L) ==
  L \in Table /\ RestAgrees(L)
  /\ \A t \in Tabs : ReplayAgrees(L, t) /\ EndAgrees(L, t) /\ ResyncAgrees(L, t)

\* The server showed, at or after version c, what `row` says of message m.
Shows(m, row, c) ==
  /\ \A flag \in Flags : \E s \in c..last_version :
       history[s][m] # Absent /\ history[s][m].flags[flag] = row.flags[flag]
  /\ \E s \in c..last_version :
       /\ history[s][m] # Absent
       /\ history[s][m].folder_id = row.folder_id
       /\ history[s][m].folder_entered_at = row.folder_entered_at

\* What the rows say was shown at or after the persisted cursor.
NotStale(L) ==
  ~unsignalled => \A m \in Messages : L[m] # Absent => Shows(m, L[m], last_sync_version)

\* What tab t has copied was shown at or after the watermark.
CopiesShown(L, t) ==
  \A m \in Messages :
    /\ run[t].stage \in {"list", "put", "save_watermark"} /\ L[m] # Absent =>
         Shows(m, L[m], run[t].min_version)
    /\ run[t].stage = "put" /\ m \in DOMAIN run[t].page =>
         Shows(m, run[t].page[m], run[t].min_version)

\* While tab t replays, a local message lived at the point the replay has reached, or later.
LocalAlive(L, t) ==
  \A m \in Messages : ~unsignalled /\ Replays(t) /\ L[m] # Absent =>
    \E s \in 0..last_version :
      history[s][m] # Absent /\ (s >= run[t].cursor \/ s + 1 \in DOMAIN Events(t))

StaleInv(L) == NotStale(L) /\ \A t \in Tabs : CopiesShown(L, t) /\ LocalAlive(L, t)

EngineInv(L) == ProgressInv /\ TableInv(L) /\ StaleInv(L)

\* What a run does to the local table, said of any table.
Applied(L, v, e) == [L EXCEPT ![e.message_id] = ApplySyncEvent(@, v, e)]
Overlaid(L, page) == [m \in Messages |-> IF m \in DOMAIN page THEN page[m] ELSE L[m]]

\* L2 comes from L as K2 comes from K.
Mirrored(L, L2, K, K2) ==
  \/ L2 = L /\ K2 = K
  \/ L2 = NoRow /\ K2 = NoRow
  \/ \E page \in Page : L2 = Overlaid(L, page) /\ K2 = Overlaid(K, page)
  \/ \E v \in Nat, e \in Event : L2 = Applied(L, v, e) /\ K2 = Applied(K, v, e)

\* The runs of different tabs do not overlap.
OneAtATime == \A t, u \in Tabs : run[t] # Idle /\ run[u] # Idle => t = u

-----------------------------------------------------------------------------
(* Facts about numbers                                                     *)

\* Every nonempty set of numbers has a least element, and Min finds it.
LEMMA LeastNumber ==
  ASSUME NEW S \in SUBSET Nat, S # {}
  PROVE  Min(S) \in S /\ \A n \in S : Min(S) <= n
<1> DEFINE less == OpToRel(<, Nat)
<1>1. \A x, y \in Nat : x < y => <<x, y>> \in less
  BY DEF OpToRel
<1>2. IsWellFoundedOn(less, Nat)
  BY NatLessThanWellFounded
<1> HIDE DEF less
<1>3. PICK x \in S : \A y \in S : ~(<<y, x>> \in less)
  BY <1>2, WFMin
<1>4. \A y \in S : x <= y
  <2> SUFFICES ASSUME NEW y \in S, y < x PROVE FALSE
    OBVIOUS
  <2> QED
    BY <1>1, <1>3
<1> QED
  BY <1>4 DEF Min

\* Every nonempty finite set of numbers has a greatest element, and Max finds it.
LEMMA GreatestNumber ==
  ASSUME NEW S \in SUBSET Nat, IsFiniteSet(S), S # {}
  PROVE  Max(S) \in S /\ \A n \in S : n <= Max(S)
<1> DEFINE Unbounded(T) == T # {} /\ \A x \in T : \E y \in T : ~(y <= x)
           sizes == {n \in Nat : \E T \in SUBSET S : Cardinality(T) = n /\ Unbounded(T)}
<1>1. sizes = {}
  <2> SUFFICES ASSUME sizes # {} PROVE FALSE
    OBVIOUS
  <2>1. PICK n \in sizes : \A k \in sizes : n <= k
    BY LeastNumber
  <2>2. PICK T \in SUBSET S : Cardinality(T) = n /\ Unbounded(T)
    BY <2>1
  <2>3. IsFiniteSet(T) /\ n \in Nat
    BY <2>1, FS_Subset
  <2>4. PICK x \in T : TRUE
    BY <2>2
  <2>5. Cardinality(T \ {x}) = n - 1 /\ n - 1 \in Nat
    <3>1. IsFiniteSet(T \ {x}) /\ Cardinality(T \ {x}) = Cardinality(T) - 1
      BY <2>3, <2>4, FS_RemoveElement
    <3>2. Cardinality(T \ {x}) \in Nat
      BY <3>1, FS_CardinalityType
    <3> QED
      BY <2>2, <3>1, <3>2
  <2>6. ~Unbounded(T \ {x})
    <3> SUFFICES ASSUME Unbounded(T \ {x}) PROVE FALSE
      OBVIOUS
    <3>1. n - 1 \in sizes
      BY <2>5
    <3> QED
      BY <2>1, <2>3, <3>1
  <2>7. CASE T \ {x} = {}
    BY <2>2, <2>4, <2>7
  <2>8. CASE T \ {x} # {}
    <3>1. PICK y \in T \ {x} : \A z \in T \ {x} : z <= y
      BY <2>6, <2>8
    <3>2. x \in Nat /\ y \in Nat /\ T \subseteq Nat
      BY <2>4
    <3>3. \A z \in T : z <= x \/ z <= y
      BY <3>1, <3>2
    <3>4. CASE x <= y
      <4>1. \A z \in T : z <= y
        BY <3>2, <3>3, <3>4
      <4> QED
        BY <2>2, <4>1
    <3>5. CASE y <= x
      <4>1. \A z \in T : z <= x
        BY <3>2, <3>3, <3>5
      <4> QED
        BY <2>2, <2>4, <4>1
    <3> QED
      BY <3>2, <3>4, <3>5
  <2> QED
    BY <2>7, <2>8
<1>2. ~Unbounded(S)
  <2>1. Cardinality(S) \in Nat
    BY FS_CardinalityType
  <2> QED
    BY <1>1, <2>1
<1>3. PICK x \in S : \A y \in S : y <= x
  BY <1>2
<1>4. \E z \in S : \A y \in S : z >= y
  BY <1>3
<1>5. Max(S) \in S /\ \A y \in S : Max(S) >= y
  BY <1>4 DEF Max
<1> QED
  BY <1>5

LEMMA GreatestOfInterval ==
  ASSUME NEW a \in Nat, NEW b \in Nat, a <= b
  PROVE  Max(a..b) = b
<1>1. IsFiniteSet(a..b)
  BY FS_Interval
<1>2. a..b \in SUBSET Nat /\ b \in a..b
  OBVIOUS
<1>3. Max(a..b) \in a..b /\ b <= Max(a..b)
  BY <1>1, <1>2, GreatestNumber
<1> QED
  BY <1>3

-----------------------------------------------------------------------------
(* Facts about rows and logs                                               *)

\* What an event makes of a row.
LEMMA AppliedRow ==
  ASSUME NEW row \in Row \cup {Absent}, NEW v \in Nat, NEW e \in Event
  PROVE  LET after == ApplySyncEvent(row, v, e) IN
         /\ after \in Row \cup {Absent}
         /\ e.event_type = "message_created" => after = e.message
         /\ e.event_type = "message_deleted" => after = Absent
         /\ e.event_type \in {"message_updated", "message_moved"} =>
              /\ row = Absent <=> after = Absent
              /\ row # Absent => after.sync_version = v
         /\ e.event_type = "message_updated" /\ row # Absent =>
              /\ \A flag \in Flags :
                   after.flags[flag] = IF flag = e.flag THEN e.value ELSE row.flags[flag]
              /\ after.folder_id = row.folder_id /\ after.folder_entered_at = row.folder_entered_at
         /\ e.event_type = "message_moved" /\ row # Absent =>
              /\ \A flag \in Flags : after.flags[flag] = row.flags[flag]
              /\ after.folder_id = e.folder_id /\ after.folder_entered_at = e.folder_entered_at
<1> DEFINE after == ApplySyncEvent(row, v, e)
<1>1. CASE e \in CreatedEvent
  <2>1. e.event_type = "message_created" /\ e.message \in Row
    BY <1>1 DEF CreatedEvent
  <2>2. after = e.message
    BY <2>1 DEF ApplySyncEvent
  <2> QED
    BY <2>1, <2>2
<1>2. CASE e \in DeletedEvent
  <2>1. e.event_type = "message_deleted"
    BY <1>2 DEF DeletedEvent
  <2>2. after = Absent
    BY <2>1 DEF ApplySyncEvent
  <2> QED
    BY <2>1, <2>2
<1>3. CASE e \in UpdatedEvent
  <2>1. e.event_type = "message_updated" /\ e.flag \in Flags /\ e.value \in BOOLEAN
    BY <1>3 DEF UpdatedEvent
  <2>2. CASE row = Absent
    <3>1. after = Absent
      BY <2>1, <2>2 DEF ApplySyncEvent
    <3> QED
      BY <2>1, <2>2, <3>1
  <2>3. CASE row # Absent
    <3>1. row \in Row
      BY <2>3
    <3>2. after = [row EXCEPT !.flags = [@ EXCEPT ![e.flag] = e.value], !.sync_version = v]
      BY <2>1, <2>3 DEF ApplySyncEvent
    <3>3. row.flags \in [Flags -> BOOLEAN]
      BY <3>1 DEF Row
    <3>4. [row.flags EXCEPT ![e.flag] = e.value] \in [Flags -> BOOLEAN]
      BY <2>1, <3>3
    <3>5. /\ after \in Row /\ after.sync_version = v
          /\ after.flags = [row.flags EXCEPT ![e.flag] = e.value]
          /\ after.folder_id = row.folder_id /\ after.folder_entered_at = row.folder_entered_at
      BY <3>1, <3>2, <3>4 DEF Row
    <3>6. \A flag \in Flags : after.flags[flag] = IF flag = e.flag THEN e.value ELSE row.flags[flag]
      BY <3>3, <3>5
    <3> QED
      BY <2>1, <2>3, <3>5, <3>6, AbsentAssumption
  <2> QED
    BY <2>2, <2>3
<1>4. CASE e \in MovedEvent
  <2>1. /\ e.event_type = "message_moved" /\ e.folder_id \in Folders
        /\ e.folder_entered_at \in Nat \cup {Null}
    BY <1>4 DEF MovedEvent
  <2>2. CASE row = Absent
    <3>1. after = Absent
      BY <2>1, <2>2 DEF ApplySyncEvent
    <3> QED
      BY <2>1, <2>2, <3>1
  <2>3. CASE row # Absent
    <3>1. row \in Row
      BY <2>3
    <3>2. after = [row EXCEPT !.folder_id = e.folder_id,
                              !.folder_entered_at = e.folder_entered_at, !.sync_version = v]
      BY <2>1, <2>3 DEF ApplySyncEvent
    <3>3. /\ after \in Row /\ after.sync_version = v /\ after.flags = row.flags
          /\ after.folder_id = e.folder_id /\ after.folder_entered_at = e.folder_entered_at
      BY <2>1, <3>1, <3>2 DEF Row
    <3> QED
      BY <2>1, <2>3, <3>3, AbsentAssumption
  <2> QED
    BY <2>2, <2>3
<1> QED
  BY <1>1, <1>2, <1>3, <1>4 DEF Event

\* The four kinds of events.
LEMMA EventKinds ==
  ASSUME NEW e \in Event
  PROVE  /\ e.event_type \in {"message_created", "message_deleted", "message_updated", "message_moved"}
         /\ e.message_id \in Messages
         /\ e.event_type = "message_created" => e.message \in Row
  BY DEF Event, CreatedEvent, UpdatedEvent, MovedEvent, DeletedEvent

\* A longer log excuses more.
LEMMA LongerLogAgrees ==
  ASSUME NEW m, NEW row, NEW shown, NEW log, NEW longer, Within(log, longer),
         Agrees(m, row, shown, log)
  PROVE  Agrees(m, row, shown, longer)
<1>1. (\A v \in DOMAIN longer : ~OnRow(longer[v], m)) => \A v \in DOMAIN log : ~OnRow(log[v], m)
  BY DEF Within
<1>2. \A flag \in Flags :
        (\A v \in DOMAIN longer : ~OnFlag(longer[v], m, flag)) =>
          \A v \in DOMAIN log : ~OnFlag(log[v], m, flag)
  BY DEF Within
<1>3. (\A v \in DOMAIN longer : ~OnFolder(longer[v], m)) => \A v \in DOMAIN log : ~OnFolder(log[v], m)
  BY DEF Within
<1>4. (\A v \in DOMAIN longer : longer[v].message_id # m) => \A v \in DOMAIN log : log[v].message_id # m
  BY DEF Within
<1> QED
  BY <1>1, <1>2, <1>3, <1>4, Zenon DEF Agrees

LEMMA SameRowAgrees ==
  ASSUME NEW m, NEW row, NEW log
  PROVE  Agrees(m, row, row, log)
  BY DEF Agrees

\* When nothing is left to apply the rows are the same.
LEMMA EmptyLogAgrees ==
  ASSUME NEW m, NEW row \in Row \cup {Absent}, NEW shown \in Row \cup {Absent}, NEW log,
         DOMAIN log = {}, Agrees(m, row, shown, log)
  PROVE  row = shown
<1>1. row = Absent <=> shown = Absent
  BY DEF Agrees
<1>2. CASE row # Absent
  <2>1. row \in Row /\ shown \in Row
    BY <1>1, <1>2
  <2>2. /\ \A flag \in Flags : row.flags[flag] = shown.flags[flag]
        /\ row.folder_id = shown.folder_id /\ row.folder_entered_at = shown.folder_entered_at
        /\ row.sync_version = shown.sync_version
    BY <1>1, <1>2 DEF Agrees
  <2>3. row.flags = shown.flags
    BY <2>1, <2>2 DEF Row
  <2> QED
    BY <2>1, <2>2, <2>3 DEF Row
<1> QED
  BY <1>1, <1>2

\* The server commits event e, which is then in the log: the excuse covers it.
LEMMA CommittedAgrees ==
  ASSUME NEW m, NEW row, NEW shown \in Row \cup {Absent}, NEW log, NEW v \in DOMAIN log, v \in Nat,
         log[v] \in Event, log[v].message_id = m, Agrees(m, row, shown, log)
  PROVE  Agrees(m, row, ApplySyncEvent(shown, v, log[v]), log)
<1> DEFINE e == log[v]
           after == ApplySyncEvent(shown, v, e)
<1>1. e.event_type \in {"message_created", "message_deleted", "message_updated", "message_moved"}
  BY EventKinds
<1>2. CASE e.event_type \in {"message_created", "message_deleted"}
  <2>1. OnRow(e, m)
    BY <1>2 DEF OnRow
  <2>2. OnFolder(e, m) /\ \A flag \in Flags : OnFlag(e, m, flag)
    BY <2>1 DEF OnFolder, OnFlag
  <2> QED
    BY <2>1, <2>2, Zenon DEF Agrees
<1>3. CASE e.event_type = "message_updated"
  <2>1. OnFlag(e, m, e.flag)
    BY <1>3 DEF OnFlag
  <2> QED
    BY <1>3, <2>1, AppliedRow DEF Agrees
<1>4. CASE e.event_type = "message_moved"
  <2>1. OnFolder(e, m)
    BY <1>4 DEF OnFolder
  <2> QED
    BY <1>4, <2>1, AppliedRow DEF Agrees
<1> QED
  BY <1>1, <1>2, <1>3, <1>4

\* The client applies an event of the log: the excuse covers it as well.
LEMMA AppliedAgrees ==
  ASSUME NEW m, NEW row \in Row \cup {Absent}, NEW shown, NEW log, NEW v \in DOMAIN log, v \in Nat,
         log[v] \in Event, log[v].message_id = m, Agrees(m, row, shown, log)
  PROVE  Agrees(m, ApplySyncEvent(row, v, log[v]), shown, log)
<1> DEFINE e == log[v]
           after == ApplySyncEvent(row, v, e)
<1>1. e.event_type \in {"message_created", "message_deleted", "message_updated", "message_moved"}
  BY EventKinds
<1>2. CASE e.event_type \in {"message_created", "message_deleted"}
  <2>1. OnRow(e, m)
    BY <1>2 DEF OnRow
  <2>2. OnFolder(e, m) /\ \A flag \in Flags : OnFlag(e, m, flag)
    BY <2>1 DEF OnFolder, OnFlag
  <2> QED
    BY <2>1, <2>2, Zenon DEF Agrees
<1>3. CASE e.event_type = "message_updated"
  <2>1. OnFlag(e, m, e.flag)
    BY <1>3 DEF OnFlag
  <2> QED
    BY <1>3, <2>1, AppliedRow DEF Agrees
<1>4. CASE e.event_type = "message_moved"
  <2>1. OnFolder(e, m) /\ e.message_id = m
    BY <1>4 DEF OnFolder
  <2>2. /\ row = Absent <=> after = Absent
        /\ row # Absent => \A flag \in Flags : after.flags[flag] = row.flags[flag]
    BY <1>4, AppliedRow
  <2> SUFFICES Agrees(m, after, shown, log)
    OBVIOUS
  <2> HIDE DEF after
  <2>3. (\A w \in DOMAIN log : ~OnRow(log[w], m)) => (after = Absent <=> shown = Absent)
    BY <2>2 DEF Agrees
  <2>4. after # Absent /\ shown # Absent => \A flag \in Flags :
          (\A w \in DOMAIN log : ~OnFlag(log[w], m, flag)) => after.flags[flag] = shown.flags[flag]
    BY <2>2 DEF Agrees
  <2>5. ~(\A w \in DOMAIN log : ~OnFolder(log[w], m))
        /\ ~(\A w \in DOMAIN log : log[w].message_id # m)
    BY <2>1
  <2> QED
    BY <2>3, <2>4, <2>5, Zenon DEF Agrees
<1> QED
  BY <1>1, <1>2, <1>3, <1>4

\* A table follows the end of its log as well.
LEMMA EndFollowed ==
  ASSUME NEW m, NEW shown, NEW log, NEW end, DOMAIN log \subseteq Nat, Within(end, log),
         \A v \in DOMAIN end, w \in DOMAIN log : w > v => w \in DOMAIN end,
         FollowsLast(m, shown, log)
  PROVE  FollowsLast(m, shown, end)
<1>1. \A v \in DOMAIN end : v \in DOMAIN log /\ log[v] = end[v]
      /\ \A w \in DOMAIN log : w > v => w \in DOMAIN end /\ end[w] = log[w]
  BY DEF Within
<1> QED
  BY <1>1 DEF FollowsLast

\* Once applied, the first event of a log needs no excuse: the table it leads to follows
\* the last event about each thing, and if that was this one, the row now shows it.
LEMMA FirstAppliedAgrees ==
  ASSUME NEW m \in Messages, NEW row \in Row \cup {Absent}, NEW shown, NEW log, NEW rest,
         NEW v \in DOMAIN log, DOMAIN log \subseteq Nat, log[v] \in Event,
         log[v].event_type = "message_created" => log[v].message.sync_version = v,
         DOMAIN rest = DOMAIN log \ {v}, \A w \in DOMAIN rest : rest[w] = log[w] /\ w > v,
         FollowsLast(m, shown, log), Agrees(m, row, shown, log)
  PROVE  /\ log[v].message_id = m => Agrees(m, ApplySyncEvent(row, v, log[v]), shown, rest)
         /\ log[v].message_id # m => Agrees(m, row, shown, rest)
         /\ FollowsLast(m, shown, rest)
<1> DEFINE e == log[v]
           after == ApplySyncEvent(row, v, e)
<1>1. e.event_type \in {"message_created", "message_deleted", "message_updated", "message_moved"}
  BY EventKinds
<1>2. FollowsLast(m, shown, rest)
  BY EndFollowed DEF Within
<1>3. ASSUME e.message_id # m PROVE Agrees(m, row, shown, rest)
  <2>1. ~OnRow(e, m) /\ ~OnFolder(e, m) /\ \A flag \in Flags : ~OnFlag(e, m, flag)
    BY <1>3 DEF OnRow, OnFolder, OnFlag
  <2>2. (\A w \in DOMAIN rest : ~OnRow(rest[w], m)) => \A w \in DOMAIN log : ~OnRow(log[w], m)
    BY <2>1
  <2>3. \A flag \in Flags : (\A w \in DOMAIN rest : ~OnFlag(rest[w], m, flag)) =>
                              \A w \in DOMAIN log : ~OnFlag(log[w], m, flag)
    BY <2>1
  <2>4. (\A w \in DOMAIN rest : ~OnFolder(rest[w], m)) => \A w \in DOMAIN log : ~OnFolder(log[w], m)
    BY <2>1
  <2>5. (\A w \in DOMAIN rest : rest[w].message_id # m) => \A w \in DOMAIN log : log[w].message_id # m
    BY <1>3
  <2> QED
    BY <2>2, <2>3, <2>4, <2>5, Zenon DEF Agrees
<1>4. ASSUME e.message_id = m PROVE Agrees(m, after, shown, rest)
  <2>1. ASSUME \A w \in DOMAIN rest : ~OnRow(rest[w], m)
        PROVE  after = Absent <=> shown = Absent
    <3>1. CASE OnRow(e, m)
      <4>1. shown = Absent <=> e.event_type = "message_deleted"
        BY <2>1, <3>1 DEF FollowsLast
      <4>2. after = Absent <=> e.event_type = "message_deleted"
        BY <3>1, AppliedRow, EventKinds, AbsentAssumption DEF OnRow
      <4> QED
        BY <4>1, <4>2
    <3>2. CASE ~OnRow(e, m)
      <4>1. \A w \in DOMAIN log : ~OnRow(log[w], m)
        BY <2>1, <3>2
      <4>2. row = Absent <=> shown = Absent
        BY <4>1 DEF Agrees
      <4>3. row = Absent <=> after = Absent
        BY <1>1, <1>4, <3>2, AppliedRow DEF OnRow
      <4> QED
        BY <4>2, <4>3
    <3> QED
      BY <3>1, <3>2
  <2>2. ASSUME after # Absent, shown # Absent, NEW flag \in Flags,
               \A w \in DOMAIN rest : ~OnFlag(rest[w], m, flag)
        PROVE  after.flags[flag] = shown.flags[flag]
    <3>1. e.event_type # "message_deleted"
      BY <2>2, AppliedRow
    <3>2. CASE OnFlag(e, m, flag)
      <4>1. shown.flags[flag] = IF e.event_type = "message_created"
                                THEN e.message.flags[flag] ELSE e.value
        BY <2>2, <3>1, <3>2 DEF FollowsLast
      <4>2. e.event_type = "message_created" \/ (e.event_type = "message_updated" /\ e.flag = flag)
        BY <3>1, <3>2 DEF OnFlag, OnRow
      <4>3. e.event_type = "message_updated" => row # Absent
        BY <2>2, AppliedRow
      <4> QED
        BY <4>1, <4>2, <4>3, AppliedRow
    <3>3. CASE ~OnFlag(e, m, flag)
      <4>1. \A w \in DOMAIN log : ~OnFlag(log[w], m, flag)
        BY <2>2, <3>3
      <4>2. \/ e.event_type = "message_updated" /\ e.flag # flag
            \/ e.event_type = "message_moved"
        BY <1>1, <1>4, <3>1, <3>3 DEF OnFlag, OnRow
      <4>3. row # Absent
        BY <2>2, <4>2, AppliedRow
      <4>4. after.flags[flag] = row.flags[flag]
        BY <4>2, <4>3, AppliedRow
      <4> QED
        BY <2>2, <4>1, <4>3, <4>4 DEF Agrees
    <3> QED
      BY <3>2, <3>3
  <2>3. ASSUME after # Absent, shown # Absent, \A w \in DOMAIN rest : ~OnFolder(rest[w], m)
        PROVE  after.folder_id = shown.folder_id /\ after.folder_entered_at = shown.folder_entered_at
    <3>1. e.event_type # "message_deleted"
      BY <2>3, AppliedRow
    <3>2. CASE OnFolder(e, m)
      <4>1. LET said == IF e.event_type = "message_created" THEN e.message ELSE e
            IN shown.folder_id = said.folder_id /\ shown.folder_entered_at = said.folder_entered_at
        BY <2>3, <3>1, <3>2 DEF FollowsLast
      <4>2. e.event_type = "message_created" \/ e.event_type = "message_moved"
        BY <3>1, <3>2 DEF OnFolder, OnRow
      <4>3. e.event_type = "message_moved" => row # Absent
        BY <2>3, AppliedRow
      <4> QED
        BY <4>1, <4>2, <4>3, AppliedRow
    <3>3. CASE ~OnFolder(e, m)
      <4>1. \A w \in DOMAIN log : ~OnFolder(log[w], m)
        BY <2>3, <3>3
      <4>2. e.event_type = "message_updated"
        BY <1>1, <1>4, <3>1, <3>3 DEF OnFolder, OnRow
      <4>3. row # Absent /\ after.folder_id = row.folder_id
            /\ after.folder_entered_at = row.folder_entered_at
        BY <2>3, <4>2, AppliedRow
      <4> QED
        BY <2>3, <4>1, <4>3 DEF Agrees
    <3> QED
      BY <3>2, <3>3
  <2>4. ASSUME after # Absent, shown # Absent, \A w \in DOMAIN rest : rest[w].message_id # m
        PROVE  after.sync_version = shown.sync_version
    <3>1. e.event_type # "message_deleted"
      BY <2>4, AppliedRow
    <3>2. shown.sync_version = v
      BY <1>4, <2>4, <3>1 DEF FollowsLast
    <3>3. after.sync_version = v
      BY <1>1, <2>4, <3>1, AppliedRow
    <3> QED
      BY <3>2, <3>3
  <2> HIDE DEF after
  <2> QED
    BY <2>1, <2>2, <2>3, <2>4, Zenon DEF Agrees
<1> QED
  BY <1>2, <1>3, <1>4

\* A commit that says nothing about message m leaves its row following the log.
LEMMA UntouchedFollows ==
  ASSUME NEW m, NEW shown, NEW log, NEW longer, Within(log, longer), DOMAIN longer \subseteq Nat,
         \A v \in DOMAIN longer \ DOMAIN log : longer[v].message_id # m,
         FollowsLast(m, shown, log)
  PROVE  FollowsLast(m, shown, longer)
<1>1. \A v \in DOMAIN longer \ DOMAIN log :
        /\ ~OnRow(longer[v], m) /\ ~OnFolder(longer[v], m)
        /\ \A flag \in Flags : ~OnFlag(longer[v], m, flag)
  BY DEF OnRow, OnFolder, OnFlag
<1>2. \A v \in DOMAIN log : v \in DOMAIN longer /\ longer[v] = log[v]
  BY DEF Within
<1> QED
  BY <1>1, <1>2 DEF FollowsLast

\* The row that event e leaves follows the log that ends with e.
LEMMA CommittedFollows ==
  ASSUME NEW m \in Messages, NEW shown \in Row \cup {Absent}, NEW log, NEW longer, Within(log, longer),
         DOMAIN longer \subseteq Nat, NEW v \in DOMAIN longer \ DOMAIN log,
         longer[v] \in Event, longer[v].message_id = m,
         longer[v].event_type = "message_created" => longer[v].message.sync_version = v,
         \A w \in DOMAIN log : w < v,
         \A w \in DOMAIN longer \ DOMAIN log : longer[w].message_id = m => w = v,
         FollowsLast(m, shown, log)
  PROVE  FollowsLast(m, ApplySyncEvent(shown, v, longer[v]), longer)
<1> DEFINE e == longer[v]
           after == ApplySyncEvent(shown, v, e)
<1>1. e.event_type \in {"message_created", "message_deleted", "message_updated", "message_moved"}
  BY EventKinds
<1>2. \A w \in DOMAIN log : w \in DOMAIN longer /\ longer[w] = log[w] /\ v > w
  BY DEF Within
<1>3. v \in DOMAIN longer /\ v \in Nat
  OBVIOUS
<1> SUFFICES ASSUME NEW w \in DOMAIN longer
             PROVE
    /\ OnRow(longer[w], m) /\ (\A x \in DOMAIN longer : x > w => ~OnRow(longer[x], m)) =>
         (after = Absent <=> longer[w].event_type = "message_deleted")
    /\ after # Absent /\ longer[w].event_type # "message_deleted" =>
         /\ \A flag \in Flags :
              OnFlag(longer[w], m, flag) /\ (\A x \in DOMAIN longer : x > w => ~OnFlag(longer[x], m, flag)) =>
                after.flags[flag] = IF longer[w].event_type = "message_created"
                                    THEN longer[w].message.flags[flag] ELSE longer[w].value
         /\ OnFolder(longer[w], m) /\ (\A x \in DOMAIN longer : x > w => ~OnFolder(longer[x], m)) =>
              LET said == IF longer[w].event_type = "message_created" THEN longer[w].message ELSE longer[w]
              IN /\ after.folder_id = said.folder_id
                 /\ after.folder_entered_at = said.folder_entered_at
         /\ longer[w].message_id = m /\ (\A x \in DOMAIN longer : x > w => longer[x].message_id # m) =>
              after.sync_version = w
  BY DEF FollowsLast
<1>4. CASE w = v
  <2>1. OnRow(e, m) => (after = Absent <=> e.event_type = "message_deleted")
    BY AppliedRow, EventKinds, AbsentAssumption DEF OnRow
  <2>2. after # Absent /\ e.event_type \in {"message_updated", "message_moved"} => shown # Absent
    BY AppliedRow
  <2>3. after # Absent /\ e.event_type # "message_deleted" => after.sync_version = v
    BY <1>1, <2>2, AppliedRow
  <2>4. ASSUME after # Absent, e.event_type # "message_deleted", NEW flag \in Flags, OnFlag(e, m, flag)
        PROVE  after.flags[flag] = IF e.event_type = "message_created"
                                   THEN e.message.flags[flag] ELSE e.value
    <3>1. e.event_type = "message_created" \/ (e.event_type = "message_updated" /\ e.flag = flag)
      BY <2>4 DEF OnFlag, OnRow
    <3>2. CASE e.event_type = "message_created"
      BY <3>2, AppliedRow
    <3>3. CASE e.event_type = "message_updated" /\ e.flag = flag
      BY <2>2, <2>4, <3>3, AppliedRow
    <3> QED
      BY <3>1, <3>2, <3>3
  <2>5. ASSUME after # Absent, e.event_type # "message_deleted", OnFolder(e, m)
        PROVE  LET said == IF e.event_type = "message_created" THEN e.message ELSE e
               IN after.folder_id = said.folder_id /\ after.folder_entered_at = said.folder_entered_at
    <3>1. e.event_type = "message_created" \/ e.event_type = "message_moved"
      BY <2>5 DEF OnFolder, OnRow
    <3> QED
      BY <2>2, <2>5, <3>1, AppliedRow
  <2> HIDE DEF after
  <2> QED
    BY <1>4, <2>1, <2>3, <2>4, <2>5
<1>5. CASE w \in DOMAIN log
  <2>1. v > w /\ longer[w] = log[w]
    BY <1>2, <1>5
  <2>2. ASSUME OnRow(longer[w], m), \A x \in DOMAIN longer : x > w => ~OnRow(longer[x], m)
        PROVE  after = Absent <=> longer[w].event_type = "message_deleted"
    <3>1. ~OnRow(e, m) /\ \A x \in DOMAIN log : x > w => ~OnRow(log[x], m)
      BY <1>2, <1>3, <2>1, <2>2
    <3>2. shown = Absent <=> log[w].event_type = "message_deleted"
      BY <1>5, <2>1, <2>2, <3>1 DEF FollowsLast
    <3>3. after = Absent <=> shown = Absent
      BY <1>1, <3>1, AppliedRow DEF OnRow
    <3> QED
      BY <2>1, <3>2, <3>3
  <2>3. ASSUME after # Absent, longer[w].event_type # "message_deleted", NEW flag \in Flags,
               OnFlag(longer[w], m, flag), \A x \in DOMAIN longer : x > w => ~OnFlag(longer[x], m, flag)
        PROVE  after.flags[flag] = IF longer[w].event_type = "message_created"
                                   THEN longer[w].message.flags[flag] ELSE longer[w].value
    <3>1. ~OnFlag(e, m, flag) /\ \A x \in DOMAIN log : x > w => ~OnFlag(log[x], m, flag)
      BY <1>2, <1>3, <2>1, <2>3
    <3>2. \/ e.event_type = "message_updated" /\ e.flag # flag
          \/ e.event_type = "message_moved"
      BY <1>1, <3>1 DEF OnFlag, OnRow
    <3>3. shown # Absent /\ after.flags[flag] = shown.flags[flag]
      BY <2>3, <3>2, AppliedRow
    <3> QED
      BY <1>5, <2>1, <2>3, <3>1, <3>3 DEF FollowsLast
  <2>4. ASSUME after # Absent, longer[w].event_type # "message_deleted", OnFolder(longer[w], m),
               \A x \in DOMAIN longer : x > w => ~OnFolder(longer[x], m)
        PROVE  LET said == IF longer[w].event_type = "message_created"
                           THEN longer[w].message ELSE longer[w]
               IN after.folder_id = said.folder_id /\ after.folder_entered_at = said.folder_entered_at
    <3>1. ~OnFolder(e, m) /\ \A x \in DOMAIN log : x > w => ~OnFolder(log[x], m)
      BY <1>2, <1>3, <2>1, <2>4
    <3>2. e.event_type = "message_updated"
      BY <1>1, <3>1 DEF OnFolder, OnRow
    <3>3. /\ shown # Absent /\ after.folder_id = shown.folder_id
          /\ after.folder_entered_at = shown.folder_entered_at
      BY <2>4, <3>2, AppliedRow
    <3> QED
      BY <1>5, <2>1, <2>4, <3>1, <3>3 DEF FollowsLast
  <2>5. ~(\A x \in DOMAIN longer : x > w => longer[x].message_id # m)
    BY <1>3, <2>1
  <2> HIDE DEF after
  <2> QED
    BY <2>2, <2>3, <2>4, <2>5
<1>6. CASE w \notin DOMAIN log /\ w # v
  <2>1. longer[w].message_id # m
    BY <1>6
  <2> QED
    BY <2>1 DEF OnRow, OnFlag, OnFolder
<1> QED
  BY <1>4, <1>5, <1>6

-----------------------------------------------------------------------------
(* What the server does to its history                                     *)

\* A batch of events is committed.
Commits(batch, last) ==
  /\ last \in Nat /\ last > last_version
  /\ batch \in [(last_version + 1)..last -> Event]
  /\ \A v, w \in DOMAIN batch : batch[v].message_id = batch[w].message_id => v = w
  /\ \A v \in DOMAIN batch :
       /\ batch[v].event_type = "message_deleted" => last = last_version + 1
       /\ batch[v].event_type = "message_created" =>
            batch[v].message.sync_version = v /\ batch[v].message_id \notin ingested
       /\ batch[v].event_type # "message_created" => batch[v].message_id \in ingested
  /\ ingested' = ingested \cup {batch[v].message_id : v \in DOMAIN batch}
  /\ last_version' = last
  /\ sync_events' = [v \in DOMAIN sync_events \cup DOMAIN batch |->
                       IF v \in DOMAIN batch THEN batch[v] ELSE sync_events[v]]
  /\ messages' \in Table
  /\ \A m \in Messages :
       \/ /\ \A v \in DOMAIN batch : batch[v].message_id # m
          /\ messages'[m] = messages[m]
       \/ \E v \in DOMAIN batch : /\ batch[v].message_id = m
                                  /\ messages'[m] = ApplySyncEvent(messages[m], v, batch[v])
  /\ history' = [v \in 0..last |-> IF v \in DOMAIN history THEN history[v] ELSE messages']

\* Some events are forgotten.
Prunes ==
  /\ \E V : sync_events' = [v \in DOMAIN sync_events \ V |-> sync_events[v]]
  /\ UNCHANGED <<messages, last_version, history, ingested>>

\* The batch of Commit, when its events are numbered on and speak of different messages.
LEMMA CommitEffect ==
  ASSUME HistoryTyped, NEW STATE batch, NEW STATE last, last \in Nat, last > last_version,
         batch \in [(last_version + 1)..last -> Event],
         \A v, w \in DOMAIN batch : batch[v].message_id = batch[w].message_id => v = w,
         \A v \in DOMAIN batch :
           /\ batch[v].event_type = "message_deleted" => last = last_version + 1
           /\ batch[v].event_type = "message_created" =>
                batch[v].message.sync_version = v /\ batch[v].message_id \notin ingested
           /\ batch[v].event_type # "message_created" => batch[v].message_id \in ingested,
         ingested' = ingested \cup {batch[v].message_id : v \in DOMAIN batch},
         Commit(batch)
  PROVE  Commits(batch, last)
<1> DEFINE about(m) == {v \in DOMAIN batch : batch[v].message_id = m}
<1>1. last_version \in Nat /\ messages \in Table
  BY DEF HistoryTyped
<1>2. Max(DOMAIN batch) = last
  BY <1>1, GreatestOfInterval
<1>3. /\ messages' = [m \in Messages |->
                        IF about(m) = {} THEN messages[m]
                        ELSE LET v == Max(about(m)) IN ApplySyncEvent(messages[m], v, batch[v])]
      /\ Log!Append(batch, last)
      /\ history' = [v \in 0..last |-> IF v \in DOMAIN history THEN history[v] ELSE messages']
  BY <1>2 DEF Commit
<1>4. ASSUME NEW m \in Messages, NEW v \in about(m) PROVE Max(about(m)) = v
  <2>1. v \in Nat
    BY <1>1
  <2>2. about(m) = v..v
    BY <2>1
  <2>3. Max(v..v) = v
    <3>1. v <= v
      BY <2>1
    <3> QED
      BY <2>1, <3>1, GreatestOfInterval, Zenon
  <2> HIDE DEF about
  <2> QED
    BY <2>2, <2>3
<1>5. \A m \in Messages :
        \/ /\ \A v \in DOMAIN batch : batch[v].message_id # m
           /\ messages'[m] = messages[m]
        \/ \E v \in DOMAIN batch : /\ batch[v].message_id = m
                                   /\ messages'[m] = ApplySyncEvent(messages[m], v, batch[v])
  BY <1>3, <1>4
<1>6. messages' \in Table
  <2>1. \A m \in Messages : messages'[m] \in Row \cup {Absent}
    <3> SUFFICES ASSUME NEW m \in Messages PROVE messages'[m] \in Row \cup {Absent}
      OBVIOUS
    <3>1. messages[m] \in Row \cup {Absent}
      BY <1>1 DEF Table
    <3>2. \A v \in DOMAIN batch : v \in Nat /\ batch[v] \in Event
      BY <1>1
    <3> QED
      BY <1>5, <3>1, <3>2, AppliedRow
  <2> QED
    BY <1>3, <2>1 DEF Table
<1>7. last_version' = last /\ DOMAIN batch = (last_version + 1)..last
      /\ sync_events' = [v \in DOMAIN sync_events \cup DOMAIN batch |->
                           IF v \in DOMAIN batch THEN batch[v] ELSE sync_events[v]]
  BY <1>3 DEF Log!Append, Log!NewVersions
<1> QED
  BY <1>3, <1>5, <1>6, <1>7, Zenon DEF Commits

\* A single event.
LEMMA CommitOneEffect ==
  ASSUME HistoryTyped, NEW STATE event, event \in Event, CommitOne(event),
         event.event_type = "message_created" =>
           event.message.sync_version = last_version + 1 /\ event.message_id \notin ingested,
         event.event_type # "message_created" => event.message_id \in ingested,
         ingested' = ingested \cup {event.message_id}
  PROVE  \E batch, last : /\ Commits(batch, last)
                          /\ last = last_version + 1 /\ batch = [v \in {last} |-> event]
<1> DEFINE batch == [v \in {last_version + 1} |-> event]
           last == last_version + 1
<1>1. last_version \in Nat
  BY DEF HistoryTyped
<1>2. last \in Nat /\ last > last_version /\ (last_version + 1)..last = {last_version + 1}
  BY <1>1
<1>3. batch \in [(last_version + 1)..last -> Event] /\ DOMAIN batch = {last_version + 1}
      /\ \A v \in DOMAIN batch : batch[v] = event /\ v = last_version + 1
  BY <1>2
<1>4. {batch[v].message_id : v \in DOMAIN batch} = {event.message_id}
  BY <1>3
<1>5. Commit(batch)
  BY DEF CommitOne
<1> HIDE DEF batch, last
<1>6. last = last_version + 1
  BY DEF last
<1>7. Commits(batch, last)
  BY <1>2, <1>3, <1>4, <1>5, <1>6, CommitEffect
<1>8. batch = [v \in {last} |-> event]
  BY <1>6 DEF batch
<1> QED
  BY <1>6, <1>7, <1>8

\* Every step of the server is a commit, a pruning, or leaves the history alone.
LEMMA ServerSteps ==
  ASSUME ServerInv, Server
  PROVE  /\ folders' \subseteq Folders
         /\ \/ \E batch, last : Commits(batch, last)
            \/ Prunes
            \/ UNCHANGED <<messages, last_version, sync_events, history, ingested>>
<1> USE DEF ServerInv
<1>1. HistoryTyped /\ last_version \in Nat /\ folders \subseteq Folders /\ ingested \subseteq Messages
  BY DEF HistoryTyped
<1>2. folders' \subseteq Folders
  BY <1>1 DEF Server, ReceiveEmail, SetFlag, MoveMessage, DeleteMessage, DeleteFolder, PruneSyncEvents
<1>3. \A f \in Folders : EnteredAt(f, 0) \in Nat \cup {Null}
  BY DEF EnteredAt
<1>4. CASE ReceiveEmail
  <2>1. PICK m \in Messages \ ingested, f \in folders :
          /\ CommitOne([event_type |-> "message_created", message_id |-> m, created_at |-> 0,
                        message |-> [flags |-> [flag \in Flags |-> FALSE], folder_id |-> f,
                                     folder_entered_at |-> EnteredAt(f, 0),
                                     sync_version |-> last_version + 1]])
          /\ ingested' = ingested \cup {m}
    BY <1>4 DEF ReceiveEmail
  <2> DEFINE row == [flags |-> [flag \in Flags |-> FALSE], folder_id |-> f,
                     folder_entered_at |-> EnteredAt(f, 0), sync_version |-> last_version + 1]
             event == [event_type |-> "message_created", message_id |-> m, created_at |-> 0,
                       message |-> row]
  <2>2. row \in Row
    <3>1. [flag \in Flags |-> FALSE] \in [Flags -> BOOLEAN] /\ last_version + 1 \in Nat
      BY <1>1
    <3> QED
      BY <1>1, <1>3, <3>1 DEF Row
  <2>3. event \in Event
    BY <2>2 DEF Event, CreatedEvent
  <2>4. event.event_type = "message_created" /\ event.message_id = m
        /\ event.message.sync_version = last_version + 1
    OBVIOUS
  <2>5. CommitOne(event)
    BY <2>1
  <2> HIDE DEF event
  <2> QED
    BY <1>1, <1>2, <2>1, <2>3, <2>4, <2>5, CommitOneEffect
<1>5. CASE SetFlag
  <2>1. PICK m \in ingested, flag \in Flags, value \in BOOLEAN :
          /\ CommitOne([event_type |-> "message_updated", message_id |-> m,
                        flag |-> flag, value |-> value, created_at |-> 0])
          /\ ingested' = ingested
    BY <1>5 DEF SetFlag
  <2> DEFINE event == [event_type |-> "message_updated", message_id |-> m,
                       flag |-> flag, value |-> value, created_at |-> 0]
  <2>2. event \in Event /\ event.event_type = "message_updated" /\ event.message_id = m
    BY <1>1 DEF Event, UpdatedEvent
  <2>3. CommitOne(event) /\ ingested' = ingested \cup {m}
    BY <2>1
  <2> HIDE DEF event
  <2> QED
    BY <1>1, <1>2, <2>2, <2>3, CommitOneEffect
<1>6. CASE MoveMessage
  <2>1. PICK m \in ingested, f \in folders :
          /\ CommitOne([event_type |-> "message_moved", message_id |-> m, folder_id |-> f,
                        folder_entered_at |-> EnteredAt(f, 0), created_at |-> 0])
          /\ ingested' = ingested
    BY <1>6 DEF MoveMessage
  <2> DEFINE event == [event_type |-> "message_moved", message_id |-> m, folder_id |-> f,
                       folder_entered_at |-> EnteredAt(f, 0), created_at |-> 0]
  <2>2. event \in Event /\ event.event_type = "message_moved" /\ event.message_id = m
    BY <1>1, <1>3 DEF Event, MovedEvent
  <2>3. CommitOne(event) /\ ingested' = ingested \cup {m}
    BY <2>1
  <2> HIDE DEF event
  <2> QED
    BY <1>1, <1>2, <2>2, <2>3, CommitOneEffect
<1>7. CASE DeleteMessage
  <2>1. PICK m \in ingested :
          /\ CommitOne([event_type |-> "message_deleted", message_id |-> m, created_at |-> 0])
          /\ ingested' = ingested
    BY <1>7 DEF DeleteMessage
  <2> DEFINE event == [event_type |-> "message_deleted", message_id |-> m, created_at |-> 0]
  <2>2. event \in Event /\ event.event_type = "message_deleted" /\ event.message_id = m
    BY <1>1 DEF Event, DeletedEvent
  <2>3. CommitOne(event) /\ ingested' = ingested \cup {m}
    BY <2>1
  <2> HIDE DEF event
  <2> QED
    BY <1>1, <1>2, <2>2, <2>3, CommitOneEffect
<1>8. CASE DeleteFolder
  <2>1. PICK f \in folders \cap CustomFolders :
          LET S == {m \in Messages : messages[m] # Absent /\ messages[m].folder_id = f} IN
          IF S = {}
          THEN UNCHANGED <<messages, last_version, sync_events, history>>
          ELSE \E order \in Bijection((last_version + 1)..(last_version + Cardinality(S)), S) :
                 Commit([v \in DOMAIN order |->
                           [event_type |-> "message_moved", message_id |-> order[v],
                            folder_id |-> "system.inbox", folder_entered_at |-> Null,
                            created_at |-> 0]])
    BY <1>8 DEF DeleteFolder
  <2> DEFINE S == {m \in Messages : messages[m] # Absent /\ messages[m].folder_id = f}
             last == last_version + Cardinality(S)
  <2>2. UNCHANGED ingested
    BY <1>8 DEF DeleteFolder
  <2>3. CASE S = {}
    BY <1>2, <2>1, <2>2, <2>3
  <2>4. CASE S # {}
    <3>1. PICK order \in Bijection((last_version + 1)..last, S) :
            Commit([v \in DOMAIN order |->
                      [event_type |-> "message_moved", message_id |-> order[v],
                       folder_id |-> "system.inbox", folder_entered_at |-> Null, created_at |-> 0]])
      BY <2>1, <2>4
    <3>2. S \subseteq Messages /\ IsFiniteSet(S)
      BY FS_Subset, EngineAssumption
    <3>3. Cardinality(S) \in Nat /\ Cardinality(S) # 0
      BY <2>4, <3>2, FS_CardinalityType, FS_EmptySet
    <3>4. last \in Nat /\ last > last_version
      BY <1>1, <3>3
    <3>5. S \subseteq ingested
      <4> SUFFICES ASSUME NEW m \in S PROVE m \in ingested
        OBVIOUS
      <4>1. history[last_version][m] # Absent /\ last_version \in 0..last_version
        BY <1>1 DEF HistoryTyped
      <4> QED
        BY <4>1 DEF LivesOnce
    <3> HIDE DEF S, last
    <3>6. /\ order \in [(last_version + 1)..last -> S]
          /\ \A v, w \in DOMAIN order : order[v] = order[w] => v = w
      BY <3>1 DEF Bijection, Injection, IsInjective
    <3> DEFINE batch == [v \in DOMAIN order |->
                           [event_type |-> "message_moved", message_id |-> order[v],
                            folder_id |-> "system.inbox", folder_entered_at |-> Null, created_at |-> 0]]
    <3>7. \A v \in DOMAIN order :
            batch[v] \in Event /\ batch[v].event_type = "message_moved" /\ batch[v].message_id = order[v]
      <4>1. "system.inbox" \in Folders
        BY DEF Folders, SystemFolders
      <4>2. \A v \in DOMAIN order : order[v] \in Messages
        BY <3>2, <3>6
      <4>3. \A v \in DOMAIN order : batch[v] \in MovedEvent
        BY <4>1, <4>2 DEF MovedEvent
      <4> QED
        BY <4>3 DEF Event
    <3>8. /\ batch \in [(last_version + 1)..last -> Event] /\ DOMAIN batch = DOMAIN order
          /\ Commit(batch)
      BY <3>1, <3>6, <3>7
    <3> HIDE DEF batch
    <3>9. ingested' = ingested \cup {batch[v].message_id : v \in DOMAIN batch}
          /\ \A v \in DOMAIN batch : batch[v].message_id \in ingested
      BY <2>2, <3>5, <3>6, <3>7, <3>8
    <3>10. Commits(batch, last)
      BY <1>1, <3>4, <3>6, <3>7, <3>8, <3>9, CommitEffect
    <3> QED
      BY <1>2, <3>10
  <2> QED
    BY <2>3, <2>4
<1>9. CASE PruneSyncEvents
  <2>1. PICK V : Log!Prune(V) /\ UNCHANGED <<folders, ingested, history>>
    BY <1>9 DEF PruneSyncEvents
  <2>2. /\ sync_events' = [v \in DOMAIN sync_events \ V |-> sync_events[v]]
        /\ UNCHANGED <<messages, last_version>>
    BY <2>1 DEF Log!Prune
  <2> QED
    BY <1>2, <2>1, <2>2 DEF Prunes
<1> QED
  BY <1>4, <1>5, <1>6, <1>7, <1>8, <1>9 DEF Server

\* Told looks at the past, which a commit does not change.
LEMMA ToldForGood ==
  ASSUME HistoryTyped, NEW batch, NEW last, Commits(batch, last), NEW v, NEW e, Told(v, e)
  PROVE  Told(v, e)'
<1>1. /\ v \in 1..last_version /\ last_version \in Nat /\ last \in Nat /\ last > last_version
      /\ last_version' = last
  BY DEF Told, HistoryTyped, Commits
<1>2. \A s \in 0..last_version : history'[s] = history[s]
  BY <1>1 DEF HistoryTyped, Commits
<1>3. /\ v \in 0..last_version /\ v - 1 \in 0..last_version /\ v \in 1..last_version'
      /\ \A k \in 0..(v - 1) : k \in 0..last_version
  BY <1>1
<1>4. history'[v] = history[v] /\ history'[v - 1] = history[v - 1]
      /\ \A k \in 0..(v - 1) : history'[k] = history[k]
  BY <1>2, <1>3
<1> QED
  BY <1>3, <1>4, Zenon DEF Told

\* A commit adds to the log the events it tells.
LEMMA CommitTells ==
  ASSUME ServerInv, NEW batch, NEW last, Commits(batch, last), NEW v \in DOMAIN batch
  PROVE  Told(v, batch[v])'
<1> DEFINE e == batch[v]
           m == e.message_id
<1>1. /\ HistoryTyped /\ LivesOnce /\ last_version \in Nat /\ last \in Nat /\ last > last_version
      /\ last_version' = last /\ DOMAIN batch = (last_version + 1)..last /\ e \in Event /\ m \in Messages
  BY EventKinds DEF ServerInv, HistoryTyped, Commits
<1>2. /\ \A s \in 0..last_version : history'[s] = history[s]
      /\ \A s \in (last_version + 1)..last : history'[s] = messages'
  BY <1>1 DEF HistoryTyped, Commits
<1>3. v \in 1..last /\ v \in Nat /\ history'[v] = messages' /\ \A k \in 0..last_version : k \in 0..(v - 1)
  BY <1>1, <1>2
<1>4. messages[m] \in Row \cup {Absent} /\ history[last_version] = messages
      /\ last_version \in 0..last_version
  BY <1>1 DEF HistoryTyped, Table
<1>5. messages'[m] = ApplySyncEvent(messages[m], v, e)
  BY <1>1 DEF Commits
<1> DEFINE before == messages[m]
           after == ApplySyncEvent(before, v, e)
<1>6. before \in Row \cup {Absent} /\ v \in Nat /\ e \in Event /\ after = messages'[m]
  BY <1>1, <1>3, <1>4, <1>5
<1>7. e.event_type = "message_created" => messages'[m] = e.message /\ e.message.sync_version = v
  BY <1>1, <1>3, <1>4, <1>5, AppliedRow DEF Commits
<1>8. e.event_type = "message_updated" /\ messages'[m] # Absent => messages'[m].flags[e.flag] = e.value
  <2>1. e.event_type = "message_updated" => e.flag \in Flags
    BY <1>1 DEF Event, CreatedEvent, UpdatedEvent, MovedEvent, DeletedEvent
  <2> HIDE DEF before, e, m
  <2>2. e.event_type = "message_updated" /\ after # Absent => before # Absent
    BY <1>6, AppliedRow
  <2>3. e.event_type = "message_updated" /\ before # Absent =>
          \A flag \in Flags : after.flags[flag] = IF flag = e.flag THEN e.value ELSE before.flags[flag]
    BY <1>6, AppliedRow
  <2> QED
    BY <1>6, <2>1, <2>2, <2>3
<1>9. e.event_type = "message_moved" /\ messages'[m] # Absent =>
        messages'[m].folder_id = e.folder_id /\ messages'[m].folder_entered_at = e.folder_entered_at
  <2> HIDE DEF before, e, m
  <2>1. e.event_type = "message_moved" /\ after # Absent => before # Absent
    BY <1>6, AppliedRow
  <2>2. e.event_type = "message_moved" /\ before # Absent =>
          after.folder_id = e.folder_id /\ after.folder_entered_at = e.folder_entered_at
    BY <1>6, AppliedRow
  <2> QED
    BY <1>6, <2>1, <2>2
<1>10. e.event_type \in {"message_updated", "message_moved"} =>
        \E k \in 0..(v - 1) : history'[k][m] # Absent
  <2> SUFFICES ASSUME e.event_type \in {"message_updated", "message_moved"}
               PROVE  \E k \in 0..(v - 1) : history'[k][m] # Absent
    OBVIOUS
  <2>1. m \in ingested
    BY DEF Commits
  <2>2. PICK k \in 0..last_version : history[k][m] # Absent
    BY <1>1, <2>1 DEF LivesOnce
  <2> QED
    BY <1>2, <1>3, <2>2
<1>11. ASSUME NEW n \in Messages, history'[v - 1][n] # Absent, messages'[n] = Absent
       PROVE  e.event_type = "message_deleted" /\ e.message_id = n
  <2>1. v = last_version + 1
    <3>1. v - 1 \in (last_version + 1)..last => history'[v - 1] = messages'
      BY <1>2
    <3> QED
      BY <1>1, <1>11, <3>1
  <2>2. messages[n] # Absent
    BY <1>1, <1>2, <1>4, <1>11, <2>1
  <2>3. PICK w \in DOMAIN batch : batch[w].message_id = n
                                  /\ messages'[n] = ApplySyncEvent(messages[n], w, batch[w])
    BY <1>11, <2>2 DEF Commits
  <2>4. batch[w] \in Event /\ w \in Nat /\ messages[n] \in Row
    BY <1>1, <2>2 DEF Commits, HistoryTyped, Table
  <2>5. batch[w].event_type = "message_deleted"
    BY <1>11, <2>2, <2>3, <2>4, AppliedRow, EventKinds, AbsentAssumption
  <2>6. last = last_version + 1
    BY <2>5 DEF Commits
  <2>7. w = v
    BY <1>1, <2>1, <2>6
  <2> QED
    BY <2>3, <2>5, <2>7
<1> HIDE DEF e
<1> QED
  BY <1>1, <1>3, <1>7, <1>8, <1>9, <1>10, <1>11, Zenon DEF Told, e

\* What agrees with the table but for some log agrees with the table after a commit but
\* for that log and the batch.
LEMMA CommitAgrees ==
  ASSUME HistoryTyped, NEW batch, NEW last, Commits(batch, last),
         NEW m \in Messages, NEW row, NEW log, NEW longer, Within(log, longer), Within(batch, longer),
         Agrees(m, row, messages[m], log)
  PROVE  Agrees(m, row, messages'[m], longer)
<1>1. Agrees(m, row, messages[m], longer)
  BY LongerLogAgrees
<1>2. messages[m] \in Row \cup {Absent}
  BY DEF HistoryTyped, Table
<1>3. CASE messages'[m] = messages[m]
  BY <1>1, <1>3
<1>4. ASSUME NEW v \in DOMAIN batch, batch[v].message_id = m,
             messages'[m] = ApplySyncEvent(messages[m], v, batch[v])
      PROVE  Agrees(m, row, messages'[m], longer)
  <2>1. batch[v] \in Event /\ v \in Nat
    BY DEF Commits, HistoryTyped
  <2>2. v \in DOMAIN longer /\ longer[v] = batch[v]
    BY DEF Within
  <2> QED
    BY <1>1, <1>2, <1>4, <2>1, <2>2, CommittedAgrees
<1> QED
  BY <1>3, <1>4 DEF Commits

\* A table that followed a log follows it when the batch is added.
LEMMA CommitFollows ==
  ASSUME HistoryTyped, NEW batch, NEW last, Commits(batch, last),
         NEW m \in Messages, NEW log, NEW longer, Within(log, longer), Within(batch, longer),
         DOMAIN log \subseteq 0..last_version, DOMAIN longer = DOMAIN log \cup DOMAIN batch,
         FollowsLast(m, messages[m], log)
  PROVE  FollowsLast(m, messages'[m], longer)
<1>1. /\ last_version \in Nat /\ messages[m] \in Row \cup {Absent}
      /\ DOMAIN batch = (last_version + 1)..last /\ last \in Nat
      /\ \A v \in DOMAIN batch : batch[v] \in Event
  BY DEF HistoryTyped, Table, Commits
<1>2. DOMAIN longer \subseteq Nat /\ DOMAIN longer \ DOMAIN log = DOMAIN batch
      /\ \A v \in DOMAIN batch, w \in DOMAIN log : w < v
  BY <1>1
<1>3. \A v \in DOMAIN batch : longer[v] = batch[v]
  BY DEF Within
<1>4. CASE messages'[m] = messages[m] /\ \A v \in DOMAIN batch : batch[v].message_id # m
  BY <1>2, <1>3, <1>4, UntouchedFollows
<1>5. ASSUME NEW v \in DOMAIN batch, batch[v].message_id = m,
             messages'[m] = ApplySyncEvent(messages[m], v, batch[v])
      PROVE  FollowsLast(m, messages'[m], longer)
  <2>1. /\ v \in DOMAIN longer \ DOMAIN log /\ longer[v] = batch[v] /\ longer[v] \in Event
        /\ longer[v].message_id = m
        /\ longer[v].event_type = "message_created" => longer[v].message.sync_version = v
        /\ \A w \in DOMAIN longer \ DOMAIN log : longer[w].message_id = m => w = v
    BY <1>1, <1>2, <1>3, <1>5 DEF Commits
  <2> QED
    BY <1>1, <1>2, <1>5, <2>1, CommittedFollows
<1> QED
  BY <1>4, <1>5 DEF Commits

\* A commit keeps the history in order.
LEMMA CommitKeepsServer ==
  ASSUME ServerInv, NEW batch, NEW last, Commits(batch, last), folders' \subseteq Folders
  PROVE  ServerInv'
<1> USE DEF ServerInv
<1>1. /\ last_version \in Nat /\ last \in Nat /\ last > last_version /\ last_version' = last
      /\ DOMAIN batch = (last_version + 1)..last
      /\ \A v \in DOMAIN batch : batch[v] \in Event /\ batch[v].message_id \in Messages
  BY EventKinds DEF HistoryTyped, Commits
<1>2. /\ \A s \in 0..last_version : history'[s] = history[s]
      /\ \A s \in (last_version + 1)..last : history'[s] = messages'
      /\ history' = [s \in 0..last |-> history'[s]]
  BY <1>1 DEF HistoryTyped, Commits
<1>3. sync_events' = [v \in DOMAIN sync_events \cup DOMAIN batch |->
                        IF v \in DOMAIN batch THEN batch[v] ELSE sync_events[v]]
  BY DEF Commits
<1>4. DOMAIN sync_events \subseteq 1..last_version /\ DOMAIN sync_events \cap DOMAIN batch = {}
  BY <1>1 DEF HistoryTyped
<1>5. Within(sync_events, sync_events') /\ Within(batch, sync_events')
  BY <1>3, <1>4 DEF Within
<1>6. HistoryTyped'
  <2>1. history' \in [0..last_version' -> Table] /\ history'[last_version'] = messages'
    <3>1. \A s \in 0..last : history'[s] \in Table
      BY <1>1, <1>2 DEF HistoryTyped, Commits
    <3> QED
      BY <1>1, <1>2, <3>1
  <2>2. ingested' \subseteq Messages
    BY <1>1 DEF HistoryTyped, Commits
  <2>3. DOMAIN sync_events' \subseteq 1..last_version'
    BY <1>1, <1>3, <1>4
  <2>4. sync_events' = [v \in DOMAIN sync_events' |-> sync_events'[v]]
    BY <1>3
  <2> QED
    BY <1>1, <2>1, <2>2, <2>3, <2>4 DEF HistoryTyped
<1>7. \A m \in Messages :
        messages'[m] # Absent /\ messages[m] = Absent => m \notin ingested /\ m \in ingested'
  <2> SUFFICES ASSUME NEW m \in Messages, messages'[m] # Absent, messages[m] = Absent
               PROVE  m \notin ingested /\ m \in ingested'
    OBVIOUS
  <2>1. PICK v \in DOMAIN batch : batch[v].message_id = m
                                  /\ messages'[m] = ApplySyncEvent(messages[m], v, batch[v])
    BY DEF Commits
  <2>2. batch[v].event_type = "message_created"
    <3>1. v \in Nat /\ messages[m] \in Row \cup {Absent}
      BY <1>1 DEF HistoryTyped, Table
    <3> QED
      BY <1>1, <2>1, <3>1, AppliedRow, EventKinds
  <2> QED
    BY <2>1, <2>2 DEF Commits
<1>8. LivesOnce'
  <2> SUFFICES ASSUME NEW m \in Messages
               PROVE  /\ m \in ingested' <=> \E s \in 0..last : history'[s][m] # Absent
                      /\ \A r, s, q \in 0..last :
                           r <= s /\ s <= q /\ history'[r][m] # Absent /\ history'[q][m] # Absent =>
                             history'[s][m] # Absent
    BY <1>1 DEF LivesOnce
  <2>1. history[last_version] = messages /\ last_version \in 0..last_version
    BY <1>1 DEF HistoryTyped
  <2>2. m \in ingested' => \E s \in 0..last : history'[s][m] # Absent
    <3>1. CASE m \in ingested
      <4>1. PICK s \in 0..last_version : history[s][m] # Absent
        BY <3>1 DEF LivesOnce
      <4> QED
        BY <1>1, <1>2, <4>1
    <3>2. ASSUME NEW v \in DOMAIN batch, batch[v].message_id = m, m \notin ingested
          PROVE  \E s \in 0..last : history'[s][m] # Absent
      <4>1. batch[v].event_type = "message_created"
        BY <3>2 DEF Commits
      <4>2. Told(v, batch[v])'
        BY CommitTells
      <4>3. history'[v][m] = batch[v].message /\ batch[v].message \in Row
        BY <1>1, <3>2, <4>1, <4>2, EventKinds DEF Told
      <4>4. v \in 0..last
        BY <1>1
      <4> QED
        BY <4>3, <4>4, AbsentAssumption
    <3> QED
      BY <3>1, <3>2 DEF Commits
  <2>3. ASSUME NEW s \in 0..last, history'[s][m] # Absent PROVE m \in ingested'
    <3>1. CASE s \in 0..last_version
      BY <1>2, <2>3, <3>1 DEF LivesOnce, Commits
    <3>2. CASE s \in (last_version + 1)..last
      <4>1. messages'[m] # Absent
        BY <1>2, <2>3, <3>2
      <4>2. messages[m] # Absent => m \in ingested
        BY <2>1 DEF LivesOnce
      <4> QED
        BY <1>7, <4>1, <4>2 DEF Commits
    <3> QED
      BY <1>1, <3>1, <3>2
  <2>4. ASSUME NEW r \in 0..last, NEW s \in 0..last, NEW q \in 0..last, r <= s, s <= q,
               history'[r][m] # Absent, history'[q][m] # Absent
        PROVE  history'[s][m] # Absent
    <3>1. CASE s \in (last_version + 1)..last
      <4>1. q \in (last_version + 1)..last
        BY <1>1, <2>4, <3>1
      <4> QED
        BY <1>2, <2>4, <3>1, <4>1
    <3>2. CASE s \in 0..last_version /\ q \in 0..last_version
      <4>1. r \in 0..last_version
        BY <1>1, <2>4, <3>2
      <4> QED
        BY <1>2, <2>4, <3>2, <4>1 DEF LivesOnce
    <3>3. CASE s \in 0..last_version /\ q \in (last_version + 1)..last
      <4>1. r \in 0..last_version /\ history[r][m] # Absent /\ messages'[m] # Absent
        BY <1>1, <1>2, <2>4, <3>3
      <4>2. m \in ingested
        BY <4>1 DEF LivesOnce
      <4>3. messages[m] # Absent
        BY <1>7, <4>1, <4>2
      <4>4. history[s][m] # Absent
        BY <1>1, <2>1, <2>4, <3>3, <4>1, <4>3 DEF LivesOnce
      <4> QED
        BY <1>2, <3>3, <4>4
    <3> QED
      BY <1>1, <3>1, <3>2, <3>3
  <2> QED
    BY <2>2, <2>3, <2>4
<1>9. \A v \in DOMAIN sync_events' : \A e : e = sync_events'[v] => Told(v, e)'
  <2> SUFFICES ASSUME NEW v \in DOMAIN sync_events', NEW e, e = sync_events'[v]
               PROVE  Told(v, e)'
    OBVIOUS
  <2>1. CASE v \in DOMAIN batch
    <3>1. e = batch[v]
      BY <1>3, <2>1
    <3> QED
      BY <2>1, <3>1, CommitTells
  <2>2. CASE v \notin DOMAIN batch
    <3>1. v \in DOMAIN sync_events /\ e = sync_events[v]
      BY <1>3, <2>2
    <3>2. Told(v, e)
      BY <3>1 DEF LogTells
    <3> QED
      BY <3>2, ToldForGood
  <2> QED
    BY <2>1, <2>2
<1>10. \A c \in 0..last_version', m \in Messages : NoGap(c)' =>
         /\ FollowsLast(m, messages'[m], Later(c)')
         /\ Agrees(m, history'[c][m], messages'[m], Later(c)')
  <2> SUFFICES ASSUME NEW c \in 0..last, NEW m \in Messages, NoGap(c)'
               PROVE  /\ FollowsLast(m, messages'[m], Later(c)')
                      /\ Agrees(m, history'[c][m], messages'[m], Later(c)')
    BY <1>1
  <2>1. CASE c \in (last_version + 1)..last
    <3>1. Agrees(m, history'[c][m], messages'[m], Later(c)')
      BY <1>2, <2>1, SameRowAgrees
    <3>2. PICK none : none = [v \in {} |-> v]
      OBVIOUS
    <3>3. DOMAIN none = {} /\ FollowsLast(m, messages[m], none) /\ Within(none, batch)
          /\ Within(batch, batch)
      BY <3>2 DEF FollowsLast, Within
    <3>4. FollowsLast(m, messages'[m], batch)
      BY <1>5, <3>3, CommitFollows
    <3>5. /\ DOMAIN batch \subseteq Nat /\ Within(Later(c)', batch)
          /\ \A v \in DOMAIN Later(c)', w \in DOMAIN batch : w > v => w \in DOMAIN Later(c)'
      BY <1>1, <1>3, <1>4, <2>1 DEF Within, Later
    <3> QED
      BY <3>1, <3>4, <3>5, EndFollowed
  <2>2. CASE c \in 0..last_version
    <3>1. NoGap(c)
      BY <1>1, <1>3, <2>2 DEF NoGap
    <3>2. /\ FollowsLast(m, messages[m], Later(c))
          /\ Agrees(m, history[c][m], messages[m], Later(c))
      BY <2>2, <3>1 DEF LogTells
    <3>3. /\ Within(Later(c), Later(c)') /\ Within(batch, Later(c)')
          /\ DOMAIN Later(c)' = DOMAIN Later(c) \cup DOMAIN batch
          /\ DOMAIN Later(c) \subseteq 0..last_version
      BY <1>1, <1>3, <1>4, <2>2 DEF Within, Later
    <3>4. FollowsLast(m, messages'[m], Later(c)')
      BY <1>5, <3>2, <3>3, CommitFollows
    <3> QED
      BY <1>2, <2>2, <3>2, <3>3, <3>4, CommitAgrees
  <2> QED
    BY <1>1, <2>1, <2>2
<1>11. LogTells'
  BY <1>9, <1>10 DEF LogTells
<1> QED
  BY <1>6, <1>8, <1>11

\* Pruning only shortens the log.
LEMMA PruneKeepsServer ==
  ASSUME ServerInv, Prunes, folders' \subseteq Folders
  PROVE  ServerInv'
<1> USE DEF ServerInv
<1>1. PICK V : sync_events' = [v \in DOMAIN sync_events \ V |-> sync_events[v]]
  BY DEF Prunes
<1>2. UNCHANGED <<messages, last_version, history, ingested>>
  BY DEF Prunes
<1>3. /\ Within(sync_events', sync_events) /\ DOMAIN sync_events \subseteq 1..last_version
      /\ last_version \in Nat
  BY <1>1 DEF Within, HistoryTyped
<1>4. HistoryTyped' /\ LivesOnce'
  <2>1. DOMAIN sync_events' \subseteq 1..last_version'
        /\ sync_events' = [v \in DOMAIN sync_events' |-> sync_events'[v]]
    BY <1>1, <1>2, <1>3
  <2> QED
    BY <1>2, <2>1 DEF HistoryTyped, LivesOnce
<1>5. \A v \in DOMAIN sync_events' : \A e : e = sync_events'[v] => Told(v, e)'
  <2> SUFFICES ASSUME NEW v \in DOMAIN sync_events', NEW e, e = sync_events'[v]
               PROVE  Told(v, e)'
    OBVIOUS
  <2>1. Told(v, e)
    BY <1>3 DEF LogTells, Within
  <2> QED
    BY <1>2, <2>1 DEF Told
<1>6. \A c \in 0..last_version', m \in Messages : NoGap(c)' =>
        /\ FollowsLast(m, messages'[m], Later(c)')
        /\ Agrees(m, history'[c][m], messages'[m], Later(c)')
  <2> SUFFICES ASSUME NEW c \in 0..last_version, NEW m \in Messages, NoGap(c)'
               PROVE  /\ FollowsLast(m, messages[m], Later(c)')
                      /\ Agrees(m, history[c][m], messages[m], Later(c)')
    BY <1>2
  <2>1. NoGap(c)
    BY <1>2, <1>3 DEF NoGap, Within
  <2>2. \A v \in DOMAIN sync_events : v > c => v \in DOMAIN sync_events' /\ sync_events'[v] = sync_events[v]
    BY <1>1, <1>2, <1>3 DEF NoGap
  <2>3. Later(c)' = Later(c)
    BY <1>1, <2>2 DEF Later
  <2> QED
    BY <2>1, <2>3 DEF LogTells
<1>9. LogTells'
  BY <1>5, <1>6 DEF LogTells
<1> QED
  BY <1>4, <1>9

-----------------------------------------------------------------------------
(* The client while the server moves                                       *)

ServerMoves ==
  \/ \E batch, last : Commits(batch, last)
  \/ Prunes
  \/ UNCHANGED <<messages, last_version, sync_events, history, ingested>>

LEMMA SameHistoryTold ==
  ASSUME UNCHANGED <<last_version, history>>, NEW v, NEW e
  PROVE  Told(v, e)' <=> Told(v, e)
  BY DEF Told

LEMMA ServerKept ==
  ASSUME ServerInv, ServerMoves, folders' \subseteq Folders
  PROVE  ServerInv'
<1>1. CASE UNCHANGED <<messages, last_version, sync_events, history, ingested>>
  <2>1. (\A v, e : Told(v, e)' <=> Told(v, e)) /\ (\A c : NoGap(c)' <=> NoGap(c))
        /\ \A c : Later(c)' = Later(c)
    BY <1>1, SameHistoryTold DEF NoGap, Later
  <2>2. HistoryTyped'
    BY <1>1 DEF ServerInv, HistoryTyped
  <2>3. LivesOnce'
    BY <1>1 DEF ServerInv, LivesOnce
  <2>4. LogTells'
    BY <1>1, <2>1 DEF ServerInv, LogTells
  <2> QED
    BY <2>2, <2>3, <2>4 DEF ServerInv
<1> QED
  BY <1>1, CommitKeepsServer, PruneKeepsServer DEF ServerMoves

\* History and log only grow, but for what is pruned.
LEMMA HistoryGrows ==
  ASSUME ServerInv, ServerMoves
  PROVE  /\ last_version \in Nat /\ last_version' \in Nat /\ last_version <= last_version'
         /\ \A s \in 0..last_version : history'[s] = history[s]
         /\ \A v \in DOMAIN sync_events' : v <= last_version =>
              v \in DOMAIN sync_events /\ sync_events'[v] = sync_events[v]
         /\ DOMAIN sync_events' \subseteq 1..last_version'
         /\ \A c \in 0..last_version : NoGap(c)' => NoGap(c)
         /\ \A v, e : Told(v, e) => Told(v, e)'
<1>1. last_version \in Nat /\ DOMAIN sync_events \subseteq 1..last_version
      /\ DOMAIN history = 0..last_version /\ HistoryTyped
  BY DEF ServerInv, HistoryTyped
<1>2. CASE UNCHANGED <<messages, last_version, sync_events, history, ingested>>
  <2>1. \A v, e : Told(v, e) => Told(v, e)'
    BY <1>2, SameHistoryTold
  <2> QED
    BY <1>1, <1>2, <2>1 DEF NoGap
<1>3. ASSUME NEW batch, NEW last, Commits(batch, last)
      PROVE  /\ last_version' \in Nat /\ last_version <= last_version'
             /\ \A s \in 0..last_version : history'[s] = history[s]
             /\ \A v \in DOMAIN sync_events' : v <= last_version =>
                  v \in DOMAIN sync_events /\ sync_events'[v] = sync_events[v]
             /\ DOMAIN sync_events' \subseteq 1..last_version'
             /\ \A c \in 0..last_version : NoGap(c)' => NoGap(c)
             /\ \A v, e : Told(v, e) => Told(v, e)'
  <2>1. \A v, e : Told(v, e) => Told(v, e)'
    BY <1>1, <1>3, ToldForGood
  <2>2. /\ last \in Nat /\ last > last_version /\ last_version' = last
        /\ DOMAIN batch = (last_version + 1)..last
        /\ sync_events' = [v \in DOMAIN sync_events \cup DOMAIN batch |->
                             IF v \in DOMAIN batch THEN batch[v] ELSE sync_events[v]]
        /\ history' = [v \in 0..last |-> IF v \in DOMAIN history THEN history[v] ELSE messages']
    BY <1>3 DEF Commits
  <2>3. \A v \in DOMAIN sync_events' : v <= last_version =>
          v \in DOMAIN sync_events /\ sync_events'[v] = sync_events[v]
    BY <1>1, <2>2
  <2>4. \A c \in 0..last_version : NoGap(c)' => NoGap(c)
    BY <1>1, <2>2, <2>3 DEF NoGap
  <2> QED
    BY <1>1, <2>1, <2>2, <2>3, <2>4
<1>4. CASE Prunes
  <2>1. \A v, e : Told(v, e) => Told(v, e)'
    BY <1>4, SameHistoryTold DEF Prunes
  <2>2. PICK V : sync_events' = [v \in DOMAIN sync_events \ V |-> sync_events[v]]
    BY <1>4 DEF Prunes
  <2>3. \A v \in DOMAIN sync_events' : v \in DOMAIN sync_events /\ sync_events'[v] = sync_events[v]
    BY <2>2
  <2> QED
    BY <1>1, <1>4, <2>1, <2>3 DEF NoGap, Prunes
<1> QED
  BY <1>1, <1>2, <1>3, <1>4, Zenon DEF ServerMoves

\* What agreed with the table but for a log agrees with it but for that log and what the
\* server has added.
LEMMA MoveAgrees ==
  ASSUME ServerInv, ServerMoves, NEW m \in Messages, NEW row, NEW log, NEW longer,
         Within(log, longer),
         \A v \in DOMAIN sync_events' : v > last_version =>
           v \in DOMAIN longer /\ longer[v] = sync_events'[v],
         Agrees(m, row, messages[m], log)
  PROVE  Agrees(m, row, messages'[m], longer)
<1>1. ASSUME NEW batch, NEW last, Commits(batch, last)
      PROVE  Agrees(m, row, messages'[m], longer)
  <2>1. \A v \in DOMAIN batch : v > last_version /\ v \in DOMAIN sync_events' /\ sync_events'[v] = batch[v]
    BY <1>1 DEF Commits, ServerInv, HistoryTyped
  <2>2. Within(batch, longer)
    BY <2>1 DEF Within
  <2> QED
    BY <1>1, <2>2, CommitAgrees DEF ServerInv
<1>2. CASE messages' = messages
  BY <1>2, LongerLogAgrees
<1> QED
  BY <1>1, <1>2 DEF ServerMoves, Prunes

LEMMA MoveFollows ==
  ASSUME ServerInv, ServerMoves, NEW m \in Messages, NEW log, NEW longer,
         Within(log, longer), DOMAIN log \subseteq 0..last_version,
         DOMAIN longer = DOMAIN log \cup {v \in DOMAIN sync_events' : v > last_version},
         \A v \in DOMAIN longer \ DOMAIN log : longer[v] = sync_events'[v],
         FollowsLast(m, messages[m], log)
  PROVE  FollowsLast(m, messages'[m], longer)
<1>1. last_version \in Nat /\ DOMAIN sync_events \subseteq 1..last_version
  BY DEF ServerInv, HistoryTyped
<1>2. ASSUME NEW batch, NEW last, Commits(batch, last)
      PROVE  FollowsLast(m, messages'[m], longer)
  <2>1. /\ DOMAIN batch = {v \in DOMAIN sync_events' : v > last_version}
        /\ \A v \in DOMAIN batch : v \notin DOMAIN log /\ sync_events'[v] = batch[v]
    BY <1>1, <1>2 DEF Commits
  <2>2. Within(batch, longer) /\ DOMAIN longer = DOMAIN log \cup DOMAIN batch
    BY <2>1 DEF Within
  <2> QED
    BY <1>2, <2>2, CommitFollows DEF ServerInv
<1>3. CASE messages' = messages /\ DOMAIN sync_events' \subseteq DOMAIN sync_events
  <2>1. DOMAIN longer = DOMAIN log
    BY <1>1, <1>3
  <2>2. /\ DOMAIN longer \subseteq Nat
        /\ \A v \in DOMAIN longer \ DOMAIN log : longer[v].message_id # m
    BY <1>1, <2>1
  <2> QED
    BY <1>3, <2>2, UntouchedFollows
<1> QED
  BY <1>2, <1>3 DEF ServerMoves, Prunes

\* In particular for the part of the log after some version.
LEMMA MoveAgreesLater ==
  ASSUME ServerInv, ServerMoves, NEW m \in Messages, NEW row, NEW c \in 0..last_version,
         NoGap(c)', NoGap(c) => Agrees(m, row, messages[m], Later(c))
  PROVE  Agrees(m, row, messages'[m], Later(c)')
<1>1. /\ last_version \in Nat /\ last_version' \in Nat /\ last_version <= last_version' /\ NoGap(c)
      /\ \A v \in DOMAIN sync_events' : v <= last_version =>
           v \in DOMAIN sync_events /\ sync_events'[v] = sync_events[v]
      /\ DOMAIN sync_events \subseteq 1..last_version
      /\ DOMAIN sync_events' \subseteq 1..last_version'
  BY HistoryGrows DEF ServerInv, HistoryTyped
<1>2. (c + 1)..last_version' \subseteq DOMAIN sync_events'
  BY DEF NoGap
<1>3. Within(Later(c), Later(c)')
  BY <1>1, <1>2 DEF Within, Later
<1>4. \A v \in DOMAIN sync_events' : v > last_version =>
        v \in DOMAIN Later(c)' /\ Later(c)'[v] = sync_events'[v]
  BY <1>1 DEF Later
<1> QED
  BY <1>1, <1>3, <1>4, MoveAgrees

\* What was shown stays shown.
LEMMA MoveShows ==
  ASSUME ServerInv, ServerMoves, NEW m \in Messages, NEW row, NEW c \in Nat, Shows(m, row, c)
  PROVE  Shows(m, row, c)'
<1>1. \A s \in c..last_version : s \in c..last_version' /\ history'[s] = history[s]
  BY HistoryGrows
<1> QED
  BY <1>1, Zenon DEF Shows

\* The server moves and the profile does not: the client's invariants stand.
LEMMA ServerKeepsProgress ==
  ASSUME ProgressInv, ServerMoves, folders' \subseteq Folders,
         UNCHANGED <<run, last_sync_version, unsignalled>>
  PROVE  ProgressInv'
<1> USE DEF ProgressInv
<1>1. /\ last_version \in Nat /\ last_version' \in Nat /\ last_version <= last_version'
      /\ \A v \in DOMAIN sync_events' : v <= last_version =>
           v \in DOMAIN sync_events /\ sync_events'[v] = sync_events[v]
      /\ \A c \in 0..last_version : NoGap(c)' => NoGap(c)
      /\ \A v, e : Told(v, e) => Told(v, e)'
  BY HistoryGrows
<1>2. last_sync_version \in 0..last_version /\ last_sync_version \in 0..last_version'
  BY <1>1 DEF ClientTyped
<1>3. ClientTyped'
  BY <1>2 DEF ClientTyped
<1>4. ASSUME NEW t \in Tabs PROVE CursorAhead(t)'
  <2>1. CursorAhead(t)
    OBVIOUS
  <2>2. \A c \in last_sync_version..last_version : c \in last_sync_version..last_version'
    BY <1>1, <1>2
  <2>3. ~NoGap(last_sync_version) => ~NoGap(last_sync_version)'
    BY <1>1, <1>2
  <2> QED
    BY <2>1, <2>2, <2>3 DEF CursorAhead, Replays, Reports, Resyncs
<1>5. ASSUME NEW t \in Tabs PROVE EventsTold(t)'
  <2> SUFFICES ASSUME run[t].stage = "apply"
               PROVE  /\ \A v \in DOMAIN run[t].events :
                           /\ v \in (last_sync_version + 1)..run[t].cursor
                           /\ Told(v, run[t].events[v])'
                           /\ v \in DOMAIN sync_events' => run[t].events[v] = sync_events'[v]
                      /\ ~unsignalled =>
                           \A v \in DOMAIN run[t].events, w \in 1..run[t].cursor :
                             w > v => w \in DOMAIN run[t].events
    BY Zenon DEF EventsTold
  <2>1. EventsTold(t) /\ run[t].cursor \in last_sync_version..last_version
    BY DEF CursorAhead, Replays
  <2>2. \A v \in DOMAIN run[t].events :
          v \in (last_sync_version + 1)..run[t].cursor /\ Told(v, run[t].events[v])
          /\ (v \in DOMAIN sync_events => run[t].events[v] = sync_events[v])
    BY <2>1 DEF EventsTold
  <2>3. \A v \in DOMAIN run[t].events : v <= last_version
    BY <1>1, <1>2, <2>1, <2>2
  <2> QED
    BY <1>1, <2>1, <2>2, <2>3 DEF EventsTold
<1> QED
  BY <1>3, <1>4, <1>5, ServerKept

LEMMA ServerKeepsTable ==
  ASSUME NEW L, ProgressInv, TableInv(L), ServerMoves,
         UNCHANGED <<run, last_sync_version, unsignalled>>
  PROVE  TableInv(L)'
<1> USE DEF ProgressInv
<1>1. /\ last_version \in Nat /\ last_version' \in Nat /\ last_version <= last_version'
      /\ \A s \in 0..last_version : history'[s] = history[s]
      /\ \A v \in DOMAIN sync_events' : v <= last_version =>
           v \in DOMAIN sync_events /\ sync_events'[v] = sync_events[v]
      /\ \A c \in 0..last_version : NoGap(c)' => NoGap(c)
      /\ DOMAIN sync_events \subseteq 1..last_version
      /\ DOMAIN sync_events' \subseteq 1..last_version'
  BY HistoryGrows DEF ServerInv, HistoryTyped
<1>2. last_sync_version \in 0..last_version
  BY DEF ClientTyped
<1>3. RestAgrees(L)'
  BY <1>2, MoveAgreesLater DEF RestAgrees, TableInv
<1>4. ASSUME NEW t \in Tabs PROVE ReplayAgrees(L, t)'
  <2>1. Events(t)' = Events(t) /\ (Replays(t)' <=> Replays(t))
    BY DEF Events, Replays
  <2> SUFFICES ASSUME ~unsignalled, Replays(t), run[t].stage = "apply" => run[t].has_more,
                      NoGap(run[t].cursor)', NEW m \in Messages
               PROVE  /\ Agrees(m, L[m], messages'[m], ToApply(t)')
                      /\ FollowsLast(m, messages'[m], ToApply(t)')
    BY <2>1 DEF ReplayAgrees
  <2>2. run[t].cursor \in last_sync_version..last_version
    BY DEF CursorAhead
  <2>3. run[t].cursor \in 0..last_version
    BY <1>1, <1>2, <2>2
  <2>4. NoGap(run[t].cursor)
    BY <1>1, <2>3
  <2>5. Agrees(m, L[m], messages[m], ToApply(t)) /\ FollowsLast(m, messages[m], ToApply(t))
    BY <2>4 DEF TableInv, ReplayAgrees
  <2>6. \A v \in DOMAIN Events(t) : v \in Nat /\ v <= run[t].cursor
    <3>1. CASE run[t].stage = "apply"
      BY <1>2, <2>3, <3>1 DEF Events, EventsTold
    <3>2. CASE run[t].stage # "apply"
      BY <3>2 DEF Events
    <3> QED
      BY <3>1, <3>2
  <2> DEFINE events == Events(t)
             c == run[t].cursor
  <2>7. /\ ToApply(t) = [v \in DOMAIN events \cup {w \in DOMAIN sync_events : w > c} |->
                           IF v \in DOMAIN events THEN events[v] ELSE sync_events[v]]
        /\ ToApply(t)' = [v \in DOMAIN events \cup {w \in DOMAIN sync_events' : w > c} |->
                            IF v \in DOMAIN events THEN events[v] ELSE sync_events'[v]]
    BY <2>1 DEF ToApply
  <2>8. (c + 1)..last_version' \subseteq DOMAIN sync_events'
    BY DEF NoGap
  <2> HIDE DEF events, c
  <2>9. /\ \A v \in DOMAIN events : v \in Nat /\ v <= c
        /\ c \in 0..last_version
    BY <2>3, <2>6 DEF events, c
  <2>10. Within(ToApply(t), ToApply(t)')
    BY <1>1, <2>7, <2>8, <2>9 DEF Within
  <2>11. \A v \in DOMAIN sync_events' : v > last_version =>
           v \in DOMAIN ToApply(t)' /\ ToApply(t)'[v] = sync_events'[v] /\ v \notin DOMAIN ToApply(t)
    BY <1>1, <2>7, <2>9
  <2>12. DOMAIN ToApply(t)' = DOMAIN ToApply(t) \cup {v \in DOMAIN sync_events' : v > last_version}
    BY <1>1, <2>7, <2>8, <2>9
  <2>13. DOMAIN ToApply(t) \subseteq 0..last_version
    BY <1>1, <2>7, <2>9
  <2> QED
    BY <2>5, <2>10, <2>11, <2>12, <2>13, MoveAgrees, MoveFollows
<1>5. ASSUME NEW t \in Tabs PROVE EndAgrees(L, t)'
  <2>1. Reports(t) \/ run[t].stage = "apply" => history'[run[t].cursor] = history[run[t].cursor]
    <3>1. Reports(t) \/ run[t].stage = "apply" => run[t].cursor \in last_sync_version..last_version
      BY DEF CursorAhead, Replays
    <3> QED
      BY <1>1, <1>2, <3>1
  <2> QED
    BY <2>1 DEF TableInv, EndAgrees, Reports
<1>6. ASSUME NEW t \in Tabs PROVE ResyncAgrees(L, t)'
  <2>1. Resyncs(t) => \A m \in Messages : \A row : Copied(t, m, row) => Copied(t, m, row)'
    <3> SUFFICES ASSUME Resyncs(t), NEW m \in Messages, NEW row, Copied(t, m, row)
                 PROVE  Copied(t, m, row)'
      OBVIOUS
    <3>1. run[t].min_version \in 0..last_version
      BY <1>1, <1>2 DEF CursorAhead
    <3> QED
      BY <3>1, MoveAgreesLater DEF Copied
  <2>2. ResyncAgrees(L, t)
    BY DEF TableInv
  <2> QED
    BY <2>1, <2>2 DEF ResyncAgrees, Resyncs
<1> QED
  BY <1>3, <1>4, <1>5, <1>6 DEF TableInv

LEMMA ServerKeepsStale ==
  ASSUME NEW L, ProgressInv, StaleInv(L), ServerMoves,
         UNCHANGED <<run, last_sync_version, unsignalled>>
  PROVE  StaleInv(L)'
<1> USE DEF ProgressInv
<1>1. /\ last_version \in Nat /\ last_version' \in Nat /\ last_version <= last_version'
      /\ \A s \in 0..last_version : s \in 0..last_version' /\ history'[s] = history[s]
  BY HistoryGrows
<1>2. last_sync_version \in Nat
  BY <1>1 DEF ClientTyped
<1>3. NotStale(L)'
  <2> SUFFICES ASSUME ~unsignalled, NEW m \in Messages, L[m] # Absent
               PROVE  Shows(m, L[m], last_sync_version)'
    BY DEF NotStale
  <2>1. Shows(m, L[m], last_sync_version)
    BY DEF StaleInv, NotStale
  <2> QED
    BY <1>2, <2>1, MoveShows
<1>4. ASSUME NEW t \in Tabs PROVE CopiesShown(L, t)'
  <2>1. run[t].stage \in {"list", "put", "save_watermark"} => run[t].min_version \in Nat
    BY <1>2 DEF CursorAhead, Resyncs
  <2>2. CopiesShown(L, t)
    BY DEF StaleInv
  <2> QED
    BY <2>1, <2>2, MoveShows DEF CopiesShown
<1>5. ASSUME NEW t \in Tabs PROVE LocalAlive(L, t)'
  BY <1>1 DEF StaleInv, LocalAlive, Replays, Events
<1> QED
  BY <1>3, <1>4, <1>5 DEF StaleInv

-----------------------------------------------------------------------------
(* Choosing the first few                                                  *)

\* LIMIT n on an ordered query: the first n of a set, all of it if there are fewer.
LEMMA FirstOnes ==
  ASSUME NEW after \in SUBSET Nat, IsFiniteSet(after), NEW n \in Nat \ {0}
  PROVE  LET rows == {v \in after : Cardinality({w \in after : w <= v}) <= n} IN
         /\ \A v \in rows, w \in after : w <= v => w \in rows
         /\ Cardinality(rows) # n => rows = after
<1> DEFINE upTo(v) == {w \in after : w <= v}
           rows == {v \in after : Cardinality(upTo(v)) <= n}
<1>1. \A v \in after : IsFiniteSet(upTo(v)) /\ Cardinality(upTo(v)) \in Nat
  BY FS_Subset, FS_CardinalityType
<1>2. \A v \in rows, w \in after : w <= v => w \in rows
  <2> SUFFICES ASSUME NEW v \in rows, NEW w \in after, w <= v PROVE w \in rows
    BY Zenon
  <2>1. upTo(w) \subseteq upTo(v)
    <3>1. v \in Nat /\ w \in Nat
      OBVIOUS
    <3>2. \A u \in after : u <= w => u <= v
      BY <3>1
    <3> HIDE DEF rows
    <3> QED
      BY <3>2
  <2>2. Cardinality(upTo(w)) <= Cardinality(upTo(v))
    BY <1>1, <2>1, FS_Subset
  <2> QED
    BY <1>1, <2>2
<1>3. ASSUME rows # after PROVE Cardinality(rows) = n
  <2>1. PICK v \in after \ rows : \A w \in after \ rows : v <= w
    <3>1. after \ rows # {} /\ after \ rows \in SUBSET Nat
      BY <1>3
    <3> HIDE DEF rows
    <3> QED
      BY <3>1, LeastNumber
  <2>2. upTo(v) = rows \cup {v}
    <3>1. rows \subseteq after /\ v \in after /\ v \notin rows
      BY <2>1
    <3> HIDE DEF rows
    <3>2. \A w \in after : w <= v /\ w # v => w \in rows
      BY <2>1
    <3>3. \A w \in rows : w <= v
      BY <1>2, <3>1
    <3>4. \A w \in after : w <= v <=> w \in rows \cup {v}
      BY <3>1, <3>2, <3>3
    <3> QED
      BY <3>1, <3>4
  <2>3. IsFiniteSet(rows) /\ Cardinality(rows) \in Nat
    BY FS_Subset, FS_CardinalityType
  <2>4. Cardinality(upTo(v)) = Cardinality(rows) + 1
    <3>1. v \notin rows
      BY <2>1
    <3> HIDE DEF rows, upTo
    <3> QED
      BY <2>2, <2>3, <3>1, FS_AddElement
  <2>5. Cardinality(upTo(v)) > n
    BY <1>1, <2>1
  <2>6. Cardinality(rows) <= n
    <3>1. CASE rows = {}
      <4>1. Cardinality(rows) = 0
        BY <3>1, FS_EmptySet, Zenon
      <4> HIDE DEF rows
      <4> QED
        BY <4>1
    <3>2. CASE rows # {}
      <4>1. PICK r \in rows : \A w \in rows : w <= r
        <5>1. rows \in SUBSET Nat
          OBVIOUS
        <5> HIDE DEF rows
        <5> QED
          BY <2>3, <3>2, <5>1, GreatestNumber
      <4>2. rows \subseteq upTo(r)
        BY <4>1
      <4>3. Cardinality(rows) <= Cardinality(upTo(r))
        BY <1>1, <4>1, <4>2, FS_Subset
      <4>4. Cardinality(upTo(r)) <= n /\ Cardinality(upTo(r)) \in Nat
        BY <1>1, <4>1
      <4> QED
        BY <2>3, <4>3, <4>4
    <3> QED
      BY <3>1, <3>2
  <2> QED
    BY <2>3, <2>4, <2>5, <2>6
<1> QED
  BY <1>2, <1>3

\* The answer of getSyncDelta: the events after the cursor up to the next one.
LEMMA AnswerRows ==
  ASSUME ServerInv, NEW cursor \in 0..last_version
  PROVE  LET after == {v \in DOMAIN sync_events : v > cursor}
             rows == {v \in after : Cardinality({w \in after : w <= v}) <= DeltaLimit}
             next == Max(rows \cup {cursor})
         IN /\ next \in cursor..last_version
            /\ rows \subseteq DOMAIN sync_events
            /\ \A v \in rows : cursor < v /\ v <= next
            /\ \A v \in after : v <= next => v \in rows
            /\ Cardinality(rows) # DeltaLimit => rows = after
<1> DEFINE after == {v \in DOMAIN sync_events : v > cursor}
           rows == {v \in after : Cardinality({w \in after : w <= v}) <= DeltaLimit}
           next == Max(rows \cup {cursor})
<1>1. last_version \in Nat /\ DOMAIN sync_events \subseteq 1..last_version
  BY DEF ServerInv, HistoryTyped
<1>2. after \in SUBSET Nat /\ IsFiniteSet(after) /\ \A v \in after : cursor < v /\ v <= last_version
  <2>1. after \subseteq 1..last_version /\ \A v \in after : cursor < v
    BY <1>1
  <2>2. IsFiniteSet(1..last_version)
    BY <1>1, FS_Interval
  <2>3. IsFiniteSet(after)
    BY <2>1, <2>2, FS_Subset
  <2> QED
    BY <1>1, <2>1, <2>3
<1>3. /\ \A v \in rows, w \in after : w <= v => w \in rows
      /\ Cardinality(rows) # DeltaLimit => rows = after
  <2>1. DeltaLimit \in Nat \ {0}
    BY EngineAssumption
  <2> HIDE DEF after
  <2> QED
    BY <1>2, <2>1, FirstOnes
<1>4. rows \subseteq after
  OBVIOUS
<1> HIDE DEF rows
<1>5. IsFiniteSet(rows \cup {cursor})
  <2>1. IsFiniteSet(rows)
    BY <1>2, <1>4, FS_Subset
  <2> QED
    BY <2>1, FS_AddElement
<1>6. next \in rows \cup {cursor} /\ \A v \in rows \cup {cursor} : v <= next
  <2>1. rows \cup {cursor} \in SUBSET Nat
    BY <1>1, <1>2, <1>4
  <2> QED
    BY <1>5, <2>1, GreatestNumber
<1> HIDE DEF next, after
<1>7. next \in cursor..last_version
  BY <1>1, <1>2, <1>4, <1>6
<1>8. \A v \in after : v <= next => v \in rows
  BY <1>2, <1>3, <1>4, <1>6
<1>9. \A v \in rows : v \in DOMAIN sync_events
  BY <1>4 DEF after
<1>10. \A v \in rows : cursor < v /\ v <= next
  BY <1>2, <1>4, <1>6
<1> QED
  BY <1>3, <1>7, <1>8, <1>9, <1>10 DEF rows, next, after

\* The page of listMessages: the messages after the last one listed up to the new one.
LEMMA ListedPage ==
  ASSUME NEW after \in Nat
  PROVE  LET rest == {m \in Messages : messages[m] # Absent /\ Rank[m] > after}
             page == {m \in rest : Cardinality({n \in rest : Rank[n] <= Rank[m]}) <= PageSize}
             next == Max({Rank[m] : m \in page} \cup {after})
         IN /\ next \in Nat /\ next >= after
            /\ \A m \in page : Rank[m] <= next
            /\ \A m \in rest : Rank[m] <= next => m \in page
<1> DEFINE rest == {m \in Messages : messages[m] # Absent /\ Rank[m] > after}
           page == {m \in rest : Cardinality({n \in rest : Rank[n] <= Rank[m]}) <= PageSize}
           ranks == {Rank[m] : m \in page}
           next == Max(ranks \cup {after})
<1>1. Rank \in [Messages -> Nat] /\ IsFiniteSet(Messages) /\ PageSize \in Nat
  BY EngineAssumption
<1>2. IsFiniteSet(rest) /\ IsFiniteSet(page) /\ page \subseteq Messages
  BY <1>1, FS_Subset
<1>3. ASSUME NEW m \in page, NEW n \in rest, Rank[n] <= Rank[m] PROVE n \in page
  <2> DEFINE upTo(k) == {l \in rest : Rank[l] <= Rank[k]}
  <2>1. upTo(n) \subseteq upTo(m) /\ upTo(m) \subseteq rest
    BY <1>1, <1>3
  <2>2. IsFiniteSet(upTo(m))
    BY <1>2, <2>1, FS_Subset
  <2>3. Cardinality(upTo(n)) <= Cardinality(upTo(m)) /\ IsFiniteSet(upTo(n))
    BY <2>1, <2>2, FS_Subset
  <2>4. Cardinality(upTo(n)) \in Nat /\ Cardinality(upTo(m)) \in Nat
    BY <2>2, <2>3, FS_CardinalityType
  <2>5. Cardinality(upTo(m)) <= PageSize
    BY <1>3
  <2> QED
    BY <1>1, <2>3, <2>4, <2>5
<1> HIDE DEF page
<1>4. IsFiniteSet(ranks \cup {after})
  <2> DEFINE f == [m \in page |-> Rank[m]]
  <2>1. f \in Surjection(page, ranks)
    BY DEF Surjection
  <2>2. IsFiniteSet(ranks)
    BY <1>2, <2>1, FS_Surjection
  <2> QED
    BY <2>2, FS_AddElement
<1>5. ranks \cup {after} \in SUBSET Nat /\ ranks \cup {after} # {}
  BY <1>1, <1>2
<1>6. next \in ranks \cup {after} /\ \A n \in ranks \cup {after} : n <= next
  BY <1>4, <1>5, GreatestNumber
<1> HIDE DEF next
<1>7. \A m \in page : Rank[m] <= next
  BY <1>6
<1>8. \A m \in rest : Rank[m] <= next => m \in page
  <2> SUFFICES ASSUME NEW m \in rest, Rank[m] <= next PROVE m \in page
    OBVIOUS
  <2>1. CASE next = after
    BY <1>1, <2>1
  <2>2. CASE next \in ranks
    BY <1>3, <2>2
  <2> QED
    BY <1>6, <2>1, <2>2
<1> QED
  BY <1>5, <1>6, <1>7, <1>8 DEF next, page

-----------------------------------------------------------------------------
(* A step of one tab                                                       *)

\* No other tab has a run in flight.
Alone(t) == \A u \in Tabs \ {t} : run[u] = Idle

\* The stage tells what a run carries.
LEMMA RunShape ==
  ASSUME ClientTyped, NEW t \in Tabs
  PROVE  /\ run[t] \in RunState
         /\ run[t] = Idle => run[t].stage = "idle"
         /\ run[t].stage \in {"ask", "query"} => run[t] \in Asking
         /\ run[t].stage = "apply" => run[t] \in Applying
         /\ run[t].stage \in {"clear", "save_watermark"} => run[t] \in Clearing
         /\ run[t].stage = "list" => run[t] \in Listing
         /\ run[t].stage = "put" => run[t] \in Putting
         /\ run[t].stage \in {"list_folders", "finish"} => run[t] \in Ending
         /\ run[t].stage \in {"clear_folders", "put_folders"} => run[t] \in Foldering
<1>1. run[t] \in RunState
  BY DEF ClientTyped
<1>2. run[t] = Idle \/ run[t] \in Asking \/ run[t] \in Applying \/ run[t] \in Clearing
      \/ run[t] \in Listing \/ run[t] \in Putting \/ run[t] \in Ending \/ run[t] \in Foldering
  BY <1>1 DEF RunState
<1>3. run[t] = Idle => run[t].stage = "idle"
  BY DEF Idle
<1>4. /\ run[t] \in Asking => run[t].stage \in {"ask", "query"}
      /\ run[t] \in Clearing => run[t].stage \in {"clear", "save_watermark"}
      /\ run[t] \in Listing => run[t].stage = "list"
      /\ run[t] \in Ending => run[t].stage \in {"list_folders", "finish"}
      /\ run[t] \in Foldering => run[t].stage \in {"clear_folders", "put_folders"}
  BY DEF Asking, Clearing, Listing, Ending, Foldering
<1>5. run[t] \in Applying => run[t].stage = "apply"
  BY DEF Applying
<1>6. run[t] \in Putting => run[t].stage = "put"
  BY DEF Putting
<1> QED
  BY <1>1, <1>2, <1>3, <1>4, <1>5, <1>6

\* Nothing is asked of a tab without a run.
LEMMA IdleTab ==
  ASSUME NEW L, NEW u, run'[u] = Idle
  PROVE  /\ CursorAhead(u)' /\ EventsTold(u)'
         /\ ReplayAgrees(L, u)' /\ EndAgrees(L, u)' /\ ResyncAgrees(L, u)'
         /\ CopiesShown(L, u)' /\ LocalAlive(L, u)'
<1>1. run'[u].stage = "idle"
  BY DEF Idle
<1>2. ~Replays(u)' /\ ~Reports(u)' /\ ~Resyncs(u)'
  BY <1>1 DEF Replays, Reports, Resyncs
<1> QED
  BY <1>1, <1>2 DEF CursorAhead, EventsTold, ReplayAgrees, EndAgrees, ResyncAgrees, CopiesShown,
                    LocalAlive

\* While the server stands still so does what is said of it.
LEMMA ServerStill ==
  ASSUME UNCHANGED serverVars
  PROVE  /\ UNCHANGED <<messages, last_version, sync_events, history>>
         /\ \A v, e : Told(v, e)' <=> Told(v, e)
         /\ \A c : (NoGap(c)' <=> NoGap(c)) /\ Later(c)' = Later(c)
         /\ \A m, row, c : Shows(m, row, c)' <=> Shows(m, row, c)
<1>1. UNCHANGED <<messages, last_version, sync_events, history>>
  BY DEF serverVars
<1>2. \A v, e : Told(v, e)' <=> Told(v, e)
  BY <1>1, SameHistoryTold
<1>3. \A c : (NoGap(c)' <=> NoGap(c)) /\ Later(c)' = Later(c)
  BY <1>1 DEF NoGap, Later
<1>4. \A m, row, c : Shows(m, row, c)' <=> Shows(m, row, c)
  BY <1>1 DEF Shows
<1> QED
  BY <1>1, <1>2, <1>3, <1>4

\* When a single tab moves, what has to be shown of it is enough.
LEMMA TabKeeps ==
  ASSUME NEW L2, ProgressInv, UNCHANGED serverVars, NEW t \in Tabs, Alone(t),
         NEW STATE state, state \in RunState, Becomes(t, state),
         L2 \in Table, last_sync_version' \in 0..last_version,
         CursorAhead(t)', EventsTold(t)',
         RestAgrees(L2)', ReplayAgrees(L2, t)', EndAgrees(L2, t)', ResyncAgrees(L2, t)',
         NotStale(L2)', CopiesShown(L2, t)', LocalAlive(L2, t)'
  PROVE  EngineInv(L2)'
<1>1. \A u \in Tabs \ {t} : run'[u] = Idle
  BY DEF Alone, Becomes, ProgressInv, ClientTyped
<1>2. ServerInv'
  BY ServerKept DEF ProgressInv, ServerMoves, serverVars, ServerInv, HistoryTyped
<1>3. ClientTyped'
  BY DEF ClientTyped, ProgressInv, Becomes, serverVars
<1>4. \A u \in Tabs : CursorAhead(u)' /\ EventsTold(u)'
  BY <1>1, IdleTab
<1>5. \A u \in Tabs : ReplayAgrees(L2, u)' /\ EndAgrees(L2, u)' /\ ResyncAgrees(L2, u)'
  BY <1>1, IdleTab
<1>6. \A u \in Tabs : CopiesShown(L2, u)' /\ LocalAlive(L2, u)'
  BY <1>1, IdleTab
<1>7. ProgressInv'
  BY <1>2, <1>3, <1>4 DEF ProgressInv
<1>8. TableInv(L2)' /\ StaleInv(L2)'
  BY <1>5, <1>6 DEF TableInv, StaleInv
<1> QED
  BY <1>7, <1>8 DEF EngineInv

\* A run that has nothing in hand has to apply what comes after its cursor.
LEMMA NothingInHand ==
  ASSUME NEW t, run[t].stage # "apply"
  PROVE  DOMAIN Events(t) = {} /\ ToApply(t) = Later(run[t].cursor)
<1>1. Events(t) = [v \in {} |-> v]
  BY DEF Events
<1> QED
  BY <1>1 DEF ToApply, Later

\* What was shown since some version was shown since an earlier one.
LEMMA ShownSooner ==
  ASSUME NEW m, NEW row, NEW b \in Nat, NEW c \in Nat, b <= c, last_version \in Nat, Shows(m, row, c)
  PROVE  Shows(m, row, b)
<1>1. c..last_version \subseteq b..last_version
  OBVIOUS
<1> QED
  BY <1>1, Zenon DEF Shows

\* A row of some version is shown from that version on.
LEMMA HistoryShows ==
  ASSUME NEW m, NEW row, NEW c \in Nat, NEW s \in c..last_version, last_version \in Nat,
         history[s][m] = row, row # Absent
  PROVE  Shows(m, row, c)
  BY DEF Shows

\* A step that leaves the profile's tables and cursor alone.
LEMMA ProfileStill ==
  ASSUME NEW L, EngineInv(L), UNCHANGED serverVars, UNCHANGED <<last_sync_version>>,
         unsignalled => unsignalled'
  PROVE  L \in Table /\ last_sync_version' \in 0..last_version /\ RestAgrees(L)' /\ NotStale(L)'
<1>1. L \in Table /\ last_sync_version \in 0..last_version /\ RestAgrees(L) /\ NotStale(L)
  BY DEF EngineInv, ProgressInv, ClientTyped, TableInv, StaleInv
<1>2. \A c : (NoGap(c)' <=> NoGap(c)) /\ Later(c)' = Later(c)
  BY ServerStill
<1>3. RestAgrees(L)'
  BY <1>1, <1>2, ServerStill DEF RestAgrees
<1>4. NotStale(L)'
  BY <1>1, ServerStill DEF NotStale
<1> QED
  BY <1>1, <1>3, <1>4

\* A run starts where the last one that ended left off.
LEMMA StartRunKeeps ==
  ASSUME NEW L, EngineInv(L), NEW t \in Tabs, Alone(t), StartRun(t)
  PROVE  EngineInv(L)'
<1> DEFINE state == [stage |-> "ask", cursor |-> last_sync_version, resyncHandled |-> FALSE]
<1>1. /\ ProgressInv /\ ServerInv /\ last_version \in Nat /\ last_sync_version \in 0..last_version
      /\ last_sync_version \in Nat /\ run \in [Tabs -> RunState]
  BY DEF EngineInv, ProgressInv, ClientTyped, ServerInv, HistoryTyped
<1>2. Becomes(t, state) /\ UNCHANGED serverVars /\ UNCHANGED <<last_sync_version, unsignalled>>
  BY DEF StartRun, localVars
<1>3. state \in RunState
  BY <1>1 DEF RunState, Asking
<1>4. /\ run'[t] = state /\ run'[t].stage = "ask" /\ run'[t].cursor = last_sync_version
      /\ ~Reports(t)' /\ ~Resyncs(t)'
  BY <1>1, <1>2 DEF Becomes, Reports, Resyncs
<1>5. L \in Table /\ last_sync_version' \in 0..last_version /\ RestAgrees(L)' /\ NotStale(L)'
  BY <1>2, ProfileStill
<1>6. CursorAhead(t)' /\ EventsTold(t)' /\ EndAgrees(L, t)' /\ ResyncAgrees(L, t)'
      /\ CopiesShown(L, t)'
  BY <1>1, <1>2, <1>4, ServerStill DEF CursorAhead, EventsTold, EndAgrees, ResyncAgrees, CopiesShown
<1>7. ReplayAgrees(L, t)'
  <2>1. ToApply(t)' = Later(last_sync_version)
    BY <1>2, <1>4, ServerStill DEF ToApply, Events, Later
  <2>2. NoGap(last_sync_version) =>
          \A m \in Messages : FollowsLast(m, messages[m], Later(last_sync_version))
    BY <1>1 DEF ServerInv, LogTells
  <2>3. RestAgrees(L)
    BY DEF EngineInv, TableInv
  <2> QED
    BY <1>2, <1>4, <2>1, <2>2, <2>3, ServerStill DEF ReplayAgrees, RestAgrees
<1>8. LocalAlive(L, t)'
  <2> SUFFICES ASSUME NEW m \in Messages, ~unsignalled, L[m] # Absent
               PROVE  \E s \in 0..last_version : history[s][m] # Absent /\ s >= last_sync_version
    BY <1>2, <1>4, ServerStill DEF LocalAlive
  <2>1. Shows(m, L[m], last_sync_version)
    BY DEF EngineInv, StaleInv, NotStale
  <2> QED
    BY <1>1, <2>1 DEF Shows
<1> HIDE DEF state
<1> QED
  BY <1>1, <1>2, <1>3, <1>5, <1>6, <1>7, <1>8, TabKeeps

\* The first query: a gap after the cursor is a gap after the persisted one.
LEMMA AskDeltaKeeps ==
  ASSUME NEW L, EngineInv(L), NEW t \in Tabs, Alone(t), AskDelta(t)
  PROVE  EngineInv(L)'
<1>1. /\ ProgressInv /\ ServerInv /\ last_version \in Nat /\ last_sync_version \in 0..last_version
      /\ last_sync_version \in Nat /\ ClientTyped /\ DOMAIN sync_events \subseteq 1..last_version
      /\ run \in [Tabs -> RunState]
  BY DEF EngineInv, ProgressInv, ClientTyped, ServerInv, HistoryTyped
<1>2. run[t].stage = "ask" /\ UNCHANGED serverVars /\ UNCHANGED <<last_sync_version, unsignalled>>
  BY DEF AskDelta, localVars
<1>3. /\ run[t] \in Asking /\ run[t].cursor \in last_sync_version..last_version
      /\ run[t].cursor \in Nat
  BY <1>1, <1>2, RunShape DEF ProgressInv, CursorAhead, Replays
<1>4. L \in Table /\ last_sync_version' \in 0..last_version /\ RestAgrees(L)' /\ NotStale(L)'
  BY <1>2, ProfileStill
<1>5. CASE ~PruningGap(run[t].cursor)
  <2> DEFINE state == [run[t] EXCEPT !.stage = "query"]
  <2>1. Becomes(t, state)
    BY <1>5 DEF AskDelta
  <2>2. /\ state \in Asking /\ state.stage = "query" /\ state.cursor = run[t].cursor
        /\ run'[t] = state
    BY <1>1, <1>3, <2>1 DEF Asking, Becomes
  <2> HIDE DEF state
  <2>3. state \in RunState
    BY <2>2 DEF RunState
  <2>4. ~Reports(t)' /\ ~Resyncs(t)' /\ run'[t].stage = "query" /\ run'[t].cursor = run[t].cursor
    BY <2>2 DEF Reports, Resyncs
  <2>5. CursorAhead(t)' /\ EventsTold(t)' /\ EndAgrees(L, t)' /\ ResyncAgrees(L, t)'
      /\ CopiesShown(L, t)'
    BY <1>2, <1>3, <2>4, ServerStill DEF CursorAhead, EventsTold, EndAgrees, ResyncAgrees, CopiesShown
  <2>6. DOMAIN Events(t) = {} /\ DOMAIN Events(t)' = {} /\ ToApply(t)' = ToApply(t)
    BY <1>2, <2>4, ServerStill DEF ToApply, Events
  <2>7. ReplayAgrees(L, t)'
    BY <1>2, <2>4, <2>6, ServerStill DEF EngineInv, TableInv, ReplayAgrees, Replays
  <2>8. LocalAlive(L, t)'
    BY <1>2, <2>4, <2>6, ServerStill DEF EngineInv, StaleInv, LocalAlive, Replays
  <2> QED
    BY <1>1, <1>2, <1>4, <2>1, <2>3, <2>5, <2>7, <2>8, TabKeeps
<1>6. CASE PruningGap(run[t].cursor) /\ run[t].resyncHandled
  <2>1. Becomes(t, Idle) /\ Idle \in RunState
    BY <1>6 DEF AskDelta, RunState
  <2>2. run'[t] = Idle
    BY <1>1, <2>1 DEF Becomes
  <2> QED
    BY <1>1, <1>2, <1>4, <2>1, <2>2, IdleTab, TabKeeps
<1>7. CASE PruningGap(run[t].cursor) /\ ~run[t].resyncHandled
  <2> DEFINE low == Min(DOMAIN sync_events)
             state == [stage |-> "clear", min_version |-> low]
  <2>1. Becomes(t, state)
    BY <1>7 DEF AskDelta
  <2>2. low \in DOMAIN sync_events /\ \A v \in DOMAIN sync_events : low <= v
    <3>1. DOMAIN sync_events \in SUBSET Nat /\ DOMAIN sync_events # {}
      BY <1>1, <1>7 DEF PruningGap
    <3> QED
      BY <3>1, LeastNumber
  <2>3. run[t].cursor < low - 1
    BY <1>7 DEF PruningGap
  <2> HIDE DEF low
  <2>4. low \in last_sync_version..last_version /\ low \in Nat
    BY <1>1, <1>3, <2>2, <2>3
  <2>5. ~NoGap(last_sync_version)
    <3>1. last_sync_version + 1 \in (last_sync_version + 1)..last_version
      BY <1>1, <1>3, <2>3, <2>4
    <3>2. last_sync_version + 1 \notin DOMAIN sync_events
      BY <1>1, <1>3, <2>2, <2>3, <2>4
    <3> QED
      BY <3>1, <3>2 DEF NoGap
  <2>6. state \in RunState
    BY <2>4 DEF RunState, Clearing
  <2>7. /\ run'[t] = state /\ run'[t].stage = "clear" /\ run'[t].min_version = low
        /\ ~Reports(t)' /\ ~Replays(t)'
    BY <1>1, <2>1 DEF Becomes, Reports, Replays
  <2>8. CursorAhead(t)'
    BY <1>2, <2>4, <2>5, <2>7, ServerStill DEF CursorAhead
  <2>9. EventsTold(t)' /\ ReplayAgrees(L, t)' /\ EndAgrees(L, t)' /\ ResyncAgrees(L, t)'
        /\ CopiesShown(L, t)'
        /\ LocalAlive(L, t)'
    BY <2>7 DEF EventsTold, ReplayAgrees, EndAgrees, ResyncAgrees, CopiesShown, LocalAlive
  <2> HIDE DEF state
  <2> QED
    BY <1>1, <1>2, <1>4, <2>1, <2>6, <2>8, <2>9, TabKeeps
<1> QED
  BY <1>5, <1>6, <1>7

\* A resync empties the table: the events after the persisted cursor are not all there.
LEMMA ClearMessagesKeeps ==
  ASSUME NEW L, NEW L2, EngineInv(L), NEW t \in Tabs, Alone(t), ClearMessages(t), L2 = NoRow
  PROVE  EngineInv(L2)'
<1> DEFINE state == [stage |-> "list", min_version |-> run[t].min_version, after |-> 0]
<1>1. /\ ProgressInv /\ ServerInv /\ last_version \in Nat /\ last_sync_version \in 0..last_version
      /\ last_sync_version \in Nat /\ ClientTyped /\ run \in [Tabs -> RunState]
  BY DEF EngineInv, ProgressInv, ClientTyped, ServerInv, HistoryTyped
<1>2. /\ run[t].stage = "clear" /\ L2 = NoRow /\ Becomes(t, state) /\ UNCHANGED serverVars
      /\ UNCHANGED <<last_sync_version, unsignalled>>
  BY DEF ClearMessages
<1>3. /\ run[t] \in Clearing /\ run[t].min_version \in last_sync_version..last_version
      /\ ~NoGap(last_sync_version)
  BY <1>1, <1>2, RunShape DEF ProgressInv, CursorAhead, Resyncs
<1>4. state \in RunState
  BY <1>3 DEF RunState, Listing, Clearing
<1>5. /\ run'[t] = state /\ run'[t].stage = "list" /\ run'[t].min_version = run[t].min_version
      /\ run'[t].after = 0 /\ ~Reports(t)' /\ ~Replays(t)'
  BY <1>1, <1>2 DEF Becomes, Reports, Replays
<1>6. L2 \in Table /\ \A m \in Messages : L2[m] = Absent
  BY <1>2 DEF NoRow, Table
<1>7. CursorAhead(t)' /\ EventsTold(t)' /\ ReplayAgrees(L2, t)' /\ EndAgrees(L2, t)'
      /\ LocalAlive(L2, t)'
  BY <1>2, <1>3, <1>5, ServerStill DEF CursorAhead, EventsTold, ReplayAgrees, EndAgrees, LocalAlive
<1>8. RestAgrees(L2)'
  BY <1>2, <1>3, ServerStill DEF RestAgrees
<1>9. NotStale(L2)'
  BY <1>6 DEF NotStale
<1>10. ResyncAgrees(L2, t)'
  <2>1. \A m \in Messages : ~(Rank[m] <= 0)
    BY EngineAssumption
  <2> QED
    BY <1>5, <1>6, <2>1 DEF ResyncAgrees
<1>11. CopiesShown(L2, t)'
  BY <1>5, <1>6 DEF CopiesShown
<1>12. last_sync_version' \in 0..last_version
  BY <1>1, <1>2
<1> HIDE DEF state
<1> QED
  BY <1>1, <1>2, <1>4, <1>6, <1>7, <1>8, <1>9, <1>10, <1>11, <1>12, TabKeeps

\* A page: what it skips is not in the server's table.
LEMMA ListMessagesKeeps ==
  ASSUME NEW L, EngineInv(L), NEW t \in Tabs, Alone(t), ListMessages(t)
  PROVE  EngineInv(L)'
<1> DEFINE rest == {m \in Messages : messages[m] # Absent /\ Rank[m] > run[t].after}
           page == {m \in rest : Cardinality({n \in rest : Rank[n] <= Rank[m]}) <= PageSize}
           next == Max({Rank[m] : m \in page} \cup {run[t].after})
           copy == Restrict(messages, page)
           state == [stage |-> "put", min_version |-> run[t].min_version, page |-> copy,
                     has_more |-> page # rest, after |-> next]
<1>1. /\ ProgressInv /\ ServerInv /\ last_version \in Nat /\ last_sync_version \in 0..last_version
      /\ last_sync_version \in Nat /\ ClientTyped /\ run \in [Tabs -> RunState]
      /\ messages \in Table /\ history[last_version] = messages
  BY DEF EngineInv, ProgressInv, ClientTyped, ServerInv, HistoryTyped
<1>2. /\ run[t].stage = "list" /\ Becomes(t, state) /\ UNCHANGED serverVars
      /\ UNCHANGED <<last_sync_version, unsignalled>>
  BY Zenon DEF ListMessages, localVars
<1>3. /\ run[t] \in Listing /\ run[t].min_version \in last_sync_version..last_version
      /\ ~NoGap(last_sync_version) /\ run[t].after \in Nat
  <2>1. run[t] \in Listing
    BY <1>1, <1>2, RunShape
  <2> QED
    BY <1>1, <1>2, <2>1 DEF ProgressInv, CursorAhead, Resyncs, Listing
<1>4. /\ next \in Nat /\ next >= run[t].after
      /\ \A m \in page : Rank[m] <= next
      /\ \A m \in rest : Rank[m] <= next => m \in page
  BY <1>3, ListedPage
<1>5. /\ page \subseteq rest /\ rest \subseteq Messages
      /\ \A m \in rest : messages[m] # Absent
      /\ \A m \in Messages : Rank[m] > run[t].after /\ m \notin rest => messages[m] = Absent
  OBVIOUS
<1> HIDE DEF next, page, rest
<1>6. DOMAIN copy = page /\ \A m \in page : copy[m] = messages[m]
  BY DEF Restrict
<1>7. copy \in Page
  <2>1. copy \in [page -> Row] /\ page \in SUBSET Messages
    BY <1>1, <1>5 DEF Restrict, Table
  <2> HIDE DEF copy
  <2> QED
    BY <2>1 DEF Page
<1> HIDE DEF copy
<1>8. state \in RunState
  <2>1. run[t].min_version \in Nat /\ (page # rest) \in BOOLEAN
    BY <1>1, <1>3
  <2>2. state \in Putting
    BY <1>4, <1>7, <2>1 DEF Putting
  <2> HIDE DEF state
  <2> QED
    BY <2>2 DEF RunState
<1>9. PICK copied, from : copied = copy /\ from = run[t].min_version
  OBVIOUS
<1>10. /\ run'[t].stage = "put" /\ run'[t].min_version = from /\ run'[t].page = copied
       /\ (run'[t].has_more <=> page # rest) /\ run'[t].after = next
       /\ ~Reports(t)' /\ ~Replays(t)'
  BY <1>1, <1>2, <1>9 DEF Becomes, Reports, Replays
<1> HIDE DEF state
<1>11. /\ from \in last_sync_version..last_version /\ from \in Nat /\ DOMAIN copied = page
       /\ \A m \in page : copied[m] = messages[m]
  BY <1>1, <1>3, <1>6, <1>9
<1>12. L \in Table /\ last_sync_version' \in 0..last_version /\ RestAgrees(L)' /\ NotStale(L)'
  BY <1>2, ProfileStill
<1>13. CursorAhead(t)' /\ EventsTold(t)' /\ ReplayAgrees(L, t)' /\ EndAgrees(L, t)'
      /\ LocalAlive(L, t)'
  BY <1>2, <1>3, <1>10, <1>11, ServerStill DEF CursorAhead, EventsTold, ReplayAgrees, EndAgrees, LocalAlive
<1>14. ResyncAgrees(L, t)'
  <2> SUFFICES ASSUME NEW m \in Messages
               PROVE  /\ m \in page => Rank[m] <= next /\ Copied(t, m, copied[m])'
                      /\ m \notin page =>
                           /\ Rank[m] <= next \/ page = rest => Copied(t, m, L[m])'
                           /\ Rank[m] > next => L[m] = Absent
    BY <1>10, <1>11 DEF ResyncAgrees
  <2>1. \A row : Copied(t, m, row)' <=> Copied(t, m, row)
    BY <1>2, <1>9, <1>10, ServerStill DEF Copied
  <2>2. IF Rank[m] <= run[t].after THEN Copied(t, m, L[m]) ELSE L[m] = Absent
    BY <1>2 DEF EngineInv, TableInv, ResyncAgrees
  <2>3. Copied(t, m, messages[m])
    BY SameRowAgrees DEF Copied
  <2>4. Rank[m] \in Nat
    BY EngineAssumption
  <2>5. CASE m \in page
    <3>1. Copied(t, m, copied[m])'
      BY <1>11, <2>1, <2>3, <2>5
    <3> QED
      BY <1>4, <2>5, <3>1
  <2>6. CASE m \notin page
    <3>1. Rank[m] > next => L[m] = Absent
      BY <1>3, <1>4, <2>2, <2>4
    <3>2. Rank[m] <= next \/ page = rest => Copied(t, m, L[m])
      <4>1. CASE Rank[m] <= run[t].after
        BY <2>2, <4>1
      <4>2. CASE Rank[m] > run[t].after
        <5>1. Rank[m] <= next \/ page = rest => messages[m] = Absent
          BY <1>4, <1>5, <2>6, <4>2
        <5>2. L[m] = Absent
          BY <1>3, <2>2, <2>4, <4>2
        <5> QED
          BY <2>3, <5>1, <5>2
      <4> QED
        BY <1>3, <2>4, <4>1, <4>2
    <3> QED
      BY <1>2, <2>1, <2>6, <3>1, <3>2
  <2> QED
    BY <2>5, <2>6
<1>15. CopiesShown(L, t)'
  <2>1. \A m, row : Shows(m, row, from)' <=> Shows(m, row, from)
    BY <1>2, ServerStill
  <2>2. \A m \in Messages : L[m] # Absent => Shows(m, L[m], from)
    BY <1>2, <1>9 DEF EngineInv, StaleInv, CopiesShown
  <2>3. \A m \in page : Shows(m, copied[m], from)
    <3>1. last_version \in from..last_version
      BY <1>1, <1>11
    <3> QED
      BY <1>1, <1>5, <1>11, <3>1, HistoryShows
  <2> QED
    BY <1>2, <1>10, <1>11, <2>1, <2>2, <2>3 DEF CopiesShown
<1> QED
  BY <1>1, <1>2, <1>8, <1>12, <1>13, <1>14, <1>15, TabKeeps

\* The page is written over the rows.
LEMMA PutPageKeeps ==
  ASSUME NEW L, NEW L2, EngineInv(L), NEW t \in Tabs, Alone(t), PutPage(t),
         L2 = Overlaid(L, run[t].page)
  PROVE  EngineInv(L2)'
<1> DEFINE state == IF run[t].has_more
                    THEN [stage |-> "list", min_version |-> run[t].min_version,
                          after |-> run[t].after]
                    ELSE [stage |-> "save_watermark", min_version |-> run[t].min_version]
<1>1. /\ ProgressInv /\ ServerInv /\ last_version \in Nat /\ last_sync_version \in 0..last_version
      /\ last_sync_version \in Nat /\ ClientTyped /\ run \in [Tabs -> RunState] /\ L \in Table
  BY DEF EngineInv, ProgressInv, ClientTyped, TableInv, ServerInv, HistoryTyped
<1>2. /\ run[t].stage = "put" /\ Becomes(t, state) /\ UNCHANGED serverVars
      /\ UNCHANGED <<last_sync_version, unsignalled>>
      /\ L2 = [m \in Messages |-> IF m \in DOMAIN run[t].page THEN run[t].page[m] ELSE L[m]]
  BY DEF PutPage, Overlaid
<1>3. /\ run[t] \in Putting /\ run[t].min_version \in last_sync_version..last_version
      /\ ~NoGap(last_sync_version)
  BY <1>1, <1>2, RunShape DEF ProgressInv, CursorAhead, Resyncs
<1>4. PICK copied, from, after, more :
        copied = run[t].page /\ from = run[t].min_version /\ after = run[t].after
        /\ more = run[t].has_more
  OBVIOUS
<1>5. /\ from \in last_sync_version..last_version /\ from \in Nat /\ after \in Nat
      /\ copied \in Page /\ more \in BOOLEAN
  BY <1>1, <1>3, <1>4 DEF Putting
<1>6. DOMAIN copied \subseteq Messages /\ \A m \in DOMAIN copied : copied[m] \in Row
  BY <1>5 DEF Page
<1>7. L2 \in Table /\ \A m \in Messages :
        L2[m] = IF m \in DOMAIN copied THEN copied[m] ELSE L[m]
  BY <1>1, <1>2, <1>4, <1>6 DEF Table
<1>8. state \in RunState
  BY <1>4, <1>5 DEF RunState, Listing, Clearing
<1>9. /\ more => run'[t].stage = "list" /\ run'[t].after = after
      /\ ~more => run'[t].stage = "save_watermark"
      /\ run'[t].min_version = from /\ ~Reports(t)' /\ ~Replays(t)'
  BY <1>1, <1>2, <1>4 DEF Becomes, Reports, Replays
<1> HIDE DEF state
<1>10. CursorAhead(t)' /\ EventsTold(t)' /\ ReplayAgrees(L2, t)' /\ EndAgrees(L2, t)'
      /\ LocalAlive(L2, t)'
  BY <1>2, <1>3, <1>5, <1>9, ServerStill
  DEF CursorAhead, EventsTold, ReplayAgrees, EndAgrees, LocalAlive
<1>11. RestAgrees(L2)'
  BY <1>2, <1>3, ServerStill DEF RestAgrees
<1>12. \A m \in Messages :
         /\ m \in DOMAIN copied => Rank[m] <= after /\ Copied(t, m, copied[m])
         /\ m \notin DOMAIN copied =>
              /\ Rank[m] <= after \/ ~more => Copied(t, m, L[m])
              /\ Rank[m] > after => L[m] = Absent
  BY <1>2, <1>4 DEF EngineInv, TableInv, ResyncAgrees
<1>13. ResyncAgrees(L2, t)'
  <2>1. \A m, row : Copied(t, m, row)' <=> Copied(t, m, row)
    BY <1>2, <1>4, <1>9, ServerStill DEF Copied
  <2>2. \A m \in Messages : Rank[m] \in Nat
    BY EngineAssumption
  <2>3. \A m \in Messages : \A row :
          row = L2[m] /\ (Rank[m] <= after \/ ~more) => Copied(t, m, row)'
    BY <1>7, <1>12, <2>1
  <2>4. \A m \in Messages : Rank[m] > after => L2[m] = Absent
    BY <1>5, <1>7, <1>12, <2>2
  <2> QED
    BY <1>5, <1>9, <2>2, <2>3, <2>4 DEF ResyncAgrees
<1>14. \A m \in Messages : \A row : row = L2[m] /\ row # Absent => Shows(m, row, from)
  BY <1>2, <1>4, <1>7 DEF EngineInv, StaleInv, CopiesShown
<1>15. CopiesShown(L2, t)'
  BY <1>2, <1>5, <1>9, <1>14, ServerStill DEF CopiesShown
<1>16. NotStale(L2)'
  <2> SUFFICES ASSUME NEW m \in Messages, NEW row, row = L2[m], row # Absent
               PROVE  Shows(m, row, last_sync_version)'
    BY DEF NotStale
  <2>1. Shows(m, row, last_sync_version)
    <3>1. last_sync_version <= from
      BY <1>1, <1>5
    <3> QED
      BY <1>1, <1>5, <1>14, <3>1, ShownSooner
  <2> QED
    BY <1>2, <2>1, ServerStill
<1>17. last_sync_version' \in 0..last_version
  BY <1>1, <1>2
<1> QED
  BY <1>1, <1>2, <1>7, <1>8, <1>10, <1>11, <1>13, <1>15, <1>16, <1>17, TabKeeps

\* After the last page the cursor resumes at the watermark.
LEMMA SaveWatermarkKeeps ==
  ASSUME NEW L, EngineInv(L), NEW t \in Tabs, Alone(t), SaveWatermark(t)
  PROVE  EngineInv(L)'
<1> DEFINE state == [stage |-> "ask", cursor |-> run[t].min_version, resyncHandled |-> TRUE]
<1>1. /\ ProgressInv /\ ServerInv /\ last_version \in Nat /\ last_sync_version \in 0..last_version
      /\ last_sync_version \in Nat /\ ClientTyped /\ run \in [Tabs -> RunState] /\ L \in Table
  BY DEF EngineInv, ProgressInv, ClientTyped, TableInv, ServerInv, HistoryTyped
<1>2. /\ run[t].stage = "save_watermark" /\ Becomes(t, state) /\ UNCHANGED serverVars
      /\ UNCHANGED <<unsignalled>> /\ last_sync_version' = run[t].min_version
  BY DEF SaveWatermark
<1>3. PICK from : from = run[t].min_version
  OBVIOUS
<1>4. from \in 0..last_version /\ from \in Nat
  BY <1>1, <1>2, <1>3 DEF ProgressInv, CursorAhead, Resyncs
<1>5. state \in RunState
  BY <1>3, <1>4 DEF RunState, Asking
<1>6. /\ run'[t].stage = "ask" /\ run'[t].cursor = from /\ last_sync_version' = from
      /\ ~Reports(t)' /\ ~Resyncs(t)'
  BY <1>1, <1>2, <1>3 DEF Becomes, Reports, Resyncs
<1> HIDE DEF state
<1>7. CursorAhead(t)' /\ EventsTold(t)' /\ EndAgrees(L, t)' /\ ResyncAgrees(L, t)'
      /\ CopiesShown(L, t)'
  BY <1>4, <1>6, <1>2, ServerStill DEF CursorAhead, EventsTold, EndAgrees, ResyncAgrees, CopiesShown
<1>8. NoGap(from) => \A m \in Messages : Agrees(m, L[m], messages[m], Later(from))
  BY <1>2, <1>3 DEF EngineInv, TableInv, ResyncAgrees, Copied
<1>9. RestAgrees(L)'
  BY <1>2, <1>6, <1>8, ServerStill DEF RestAgrees
<1>10. ReplayAgrees(L, t)'
  <2>1. ToApply(t)' = Later(from)
    BY <1>2, <1>6, ServerStill DEF ToApply, Events, Later
  <2>2. NoGap(from) => \A m \in Messages : FollowsLast(m, messages[m], Later(from))
    BY <1>1, <1>4 DEF ServerInv, LogTells
  <2> QED
    BY <1>2, <1>6, <1>8, <2>1, <2>2, ServerStill DEF ReplayAgrees
<1>11. \A m \in Messages : L[m] # Absent => Shows(m, L[m], from)
  BY <1>2, <1>3 DEF EngineInv, StaleInv, CopiesShown
<1>12. NotStale(L)'
  BY <1>2, <1>6, <1>11, ServerStill DEF NotStale
<1>13. LocalAlive(L, t)'
  <2>1. \A m \in Messages : L[m] # Absent =>
          \E s \in 0..last_version : history[s][m] # Absent /\ s >= from
    <3>1. \A s \in from..last_version : s \in 0..last_version /\ s >= from
      BY <1>1, <1>4
    <3> QED
      BY <1>11, <3>1 DEF Shows
  <2> QED
    BY <1>2, <1>6, <2>1, ServerStill DEF LocalAlive
<1>14. last_sync_version' \in 0..last_version
  BY <1>1, <1>2, <1>3, <1>4
<1> QED
  BY <1>1, <1>2, <1>5, <1>7, <1>9, <1>10, <1>12, <1>13, <1>14, TabKeeps

\* The folders are fetched when the messages are done.
LEMMA FoldersKeep ==
  ASSUME NEW L, EngineInv(L), NEW t \in Tabs, Alone(t),
         ListFolders(t) \/ ClearFolders(t) \/ PutFolders(t)
  PROVE  EngineInv(L)'
<1> DEFINE state == IF run[t].stage = "list_folders"
                    THEN [stage |-> "clear_folders", cursor |-> run[t].cursor, folders |-> folders]
                    ELSE IF run[t].stage = "clear_folders"
                    THEN [run[t] EXCEPT !.stage = "put_folders"]
                    ELSE [stage |-> "finish", cursor |-> run[t].cursor]
<1>1. /\ ProgressInv /\ ServerInv /\ last_version \in Nat /\ last_sync_version \in 0..last_version
      /\ last_sync_version \in Nat /\ ClientTyped /\ run \in [Tabs -> RunState]
      /\ folders \subseteq Folders
  BY DEF EngineInv, ProgressInv, ClientTyped, ServerInv, HistoryTyped
<1>2. /\ run[t].stage \in {"list_folders", "clear_folders", "put_folders"} /\ Becomes(t, state)
      /\ UNCHANGED serverVars /\ UNCHANGED <<last_sync_version, unsignalled>>
  <2>1. CASE ListFolders(t)
    BY <2>1 DEF ListFolders, localVars
  <2>2. CASE ClearFolders(t)
    BY <2>2 DEF ClearFolders
  <2>3. CASE PutFolders(t)
    BY <2>3 DEF PutFolders
  <2> QED
    BY <2>1, <2>2, <2>3
<1>3. Reports(t) /\ run[t].cursor \in last_sync_version..last_version /\ run[t].cursor \in Nat
  BY <1>1, <1>2 DEF ProgressInv, CursorAhead, Reports
<1>4. state \in Ending \cup Foldering /\ state.cursor = run[t].cursor
  <2>1. CASE run[t].stage = "list_folders"
    BY <1>1, <1>3, <2>1 DEF Foldering
  <2>2. CASE run[t].stage = "clear_folders"
    <3>1. run[t] \in Foldering
      BY <1>1, <2>2, RunShape
    <3> QED
      BY <2>2, <3>1 DEF Foldering
  <2>3. CASE run[t].stage = "put_folders"
    BY <1>3, <2>3 DEF Ending
  <2> QED
    BY <1>2, <2>1, <2>2, <2>3
<1>5. run'[t] = state
  BY <1>1, <1>2 DEF Becomes
<1> HIDE DEF state
<1>6. state \in RunState
  BY <1>4 DEF RunState
<1>7. Reports(t)' /\ ~Replays(t)' /\ ~Resyncs(t)' /\ run'[t].cursor = run[t].cursor
      /\ run'[t].stage \in {"list_folders", "clear_folders", "put_folders", "finish"}
  BY <1>4, <1>5 DEF Ending, Foldering, Reports, Replays, Resyncs
<1>8. L \in Table /\ last_sync_version' \in 0..last_version /\ RestAgrees(L)' /\ NotStale(L)'
  BY <1>2, ProfileStill
<1>9. CursorAhead(t)' /\ EventsTold(t)' /\ ReplayAgrees(L, t)' /\ ResyncAgrees(L, t)'
      /\ CopiesShown(L, t)' /\ LocalAlive(L, t)'
  BY <1>2, <1>3, <1>7, ServerStill
  DEF CursorAhead, EventsTold, ReplayAgrees, ResyncAgrees, CopiesShown, LocalAlive
<1>10. EndAgrees(L, t)'
  <2>1. EndAgrees(L, t)
    BY DEF EngineInv, TableInv
  <2> QED
    BY <1>2, <1>3, <1>7, <2>1, ServerStill DEF EndAgrees
<1> QED
  BY <1>1, <1>2, <1>6, <1>8, <1>9, <1>10, TabKeeps

\* The run ends: the local table is that of its cursor.
LEMMA FinishKeeps ==
  ASSUME NEW L, EngineInv(L), NEW t \in Tabs, Alone(t), Finish(t)
  PROVE  EngineInv(L)' /\ (~unsignalled => L = history[run[t].cursor])
<1>1. /\ ProgressInv /\ ServerInv /\ last_version \in Nat /\ last_sync_version \in 0..last_version
      /\ last_sync_version \in Nat /\ ClientTyped /\ run \in [Tabs -> RunState] /\ L \in Table
  BY DEF EngineInv, ProgressInv, ClientTyped, TableInv, ServerInv, HistoryTyped
<1>2. /\ run[t].stage = "finish" /\ Becomes(t, Idle) /\ UNCHANGED serverVars
      /\ UNCHANGED <<unsignalled>> /\ last_sync_version' = run[t].cursor
  BY DEF Finish
<1>3. PICK c : c = run[t].cursor
  OBVIOUS
<1>4. c \in 0..last_version /\ c \in Nat
  BY <1>1, <1>2, <1>3 DEF ProgressInv, CursorAhead, Reports
<1>5. ~unsignalled => L = history[c]
  BY <1>2, <1>3 DEF EngineInv, TableInv, EndAgrees, Reports
<1>6. run'[t] = Idle /\ Idle \in RunState
  BY <1>1, <1>2 DEF Becomes, RunState
<1>7. RestAgrees(L)'
  <2>1. NoGap(c) => \A m \in Messages : Agrees(m, history[c][m], messages[m], Later(c))
    BY <1>1, <1>4 DEF ServerInv, LogTells
  <2> QED
    BY <1>2, <1>3, <1>5, <2>1, ServerStill DEF RestAgrees
<1>8. NotStale(L)'
  <2> SUFFICES ASSUME NEW m \in Messages, ~unsignalled, L[m] # Absent
               PROVE  Shows(m, L[m], c)
    BY <1>2, <1>3, ServerStill DEF NotStale
  <2>1. c \in c..last_version /\ history[c][m] = L[m]
    BY <1>1, <1>4, <1>5
  <2> QED
    BY <1>1, <1>4, <2>1, HistoryShows
<1>9. last_sync_version' \in 0..last_version
  BY <1>1, <1>2, <1>3, <1>4
<1> QED
  BY <1>1, <1>2, <1>3, <1>5, <1>6, <1>7, <1>8, <1>9, IdleTab, TabKeeps

\* A run that is given up leaves everything as it stands.
LEMMA AbortKeeps ==
  ASSUME NEW L, EngineInv(L), NEW t \in Tabs, Alone(t), Abort(t)
  PROVE  EngineInv(L)'
<1>1. ProgressInv /\ run \in [Tabs -> RunState]
  BY DEF EngineInv, ProgressInv, ClientTyped
<1>2. Becomes(t, Idle) /\ UNCHANGED serverVars /\ UNCHANGED <<last_sync_version, unsignalled>>
  BY DEF Abort, localVars
<1>3. run'[t] = Idle /\ Idle \in RunState
  BY <1>1, <1>2 DEF Becomes, RunState
<1>4. L \in Table /\ last_sync_version' \in 0..last_version /\ RestAgrees(L)' /\ NotStale(L)'
  BY <1>2, ProfileStill
<1> QED
  BY <1>1, <1>2, <1>3, <1>4, IdleTab, TabKeeps

\* The answer: the events after the cursor up to the next cursor.
LEMMA AnswerDeltaKeeps ==
  ASSUME NEW L, EngineInv(L), NEW t \in Tabs, Alone(t), AnswerDelta(t)
  PROVE  EngineInv(L)'
<1> DEFINE after == {v \in DOMAIN sync_events : v > run[t].cursor}
           rows == {v \in after : Cardinality({w \in after : w <= v}) <= DeltaLimit}
           next == Max(rows \cup {run[t].cursor})
           state == [stage |-> "apply", resyncHandled |-> run[t].resyncHandled,
                     events |-> Restrict(sync_events, rows), cursor |-> next,
                     has_more |-> Cardinality(rows) = DeltaLimit]
<1>1. /\ ProgressInv /\ ServerInv /\ last_version \in Nat /\ last_sync_version \in 0..last_version
      /\ last_sync_version \in Nat /\ ClientTyped /\ run \in [Tabs -> RunState]
      /\ DOMAIN sync_events \subseteq 1..last_version /\ history[last_version] = messages
  BY DEF EngineInv, ProgressInv, ClientTyped, ServerInv, HistoryTyped
<1>2. /\ run[t].stage = "query" /\ Becomes(t, state) /\ UNCHANGED serverVars
      /\ UNCHANGED <<last_sync_version>>
      /\ unsignalled' = (unsignalled \/ ~NoGap(run[t].cursor))
  BY Zenon DEF AnswerDelta, localVars, NoGap
<1>3. run[t] \in Asking /\ run[t].cursor \in last_sync_version..last_version
      /\ run[t].cursor \in 0..last_version
  BY <1>1, <1>2, RunShape DEF ProgressInv, CursorAhead, Replays
<1>4. /\ next \in run[t].cursor..last_version
      /\ rows \subseteq DOMAIN sync_events
      /\ \A v \in rows : run[t].cursor < v /\ v <= next
      /\ \A v \in after : v <= next => v \in rows
      /\ Cardinality(rows) # DeltaLimit => rows = after
  BY <1>1, <1>3, AnswerRows
<1>5. PICK c, d, sent, R, full :
        /\ c = run[t].cursor /\ d = next /\ sent = Restrict(sync_events, rows) /\ R = rows
        /\ full = (Cardinality(rows) = DeltaLimit)
  OBVIOUS
<1> HIDE DEF rows, next
<1>6. /\ R \subseteq DOMAIN sync_events /\ \A v \in R : c < v /\ v <= d
      /\ \A v \in DOMAIN sync_events : c < v /\ v <= d => v \in R
      /\ ~full => R = after
  BY <1>4, <1>5
<1>7. c \in last_sync_version..last_version /\ d \in c..last_version /\ c \in Nat /\ d \in Nat
  BY <1>1, <1>3, <1>4, <1>5
<1>8. DOMAIN sent = R /\ \A v \in R : sent[v] = sync_events[v]
  BY <1>5 DEF Restrict
<1>9. \A v \in R : sync_events[v] \in Event /\ Told(v, sync_events[v])
  BY <1>1, <1>6 DEF ServerInv, LogTells, Told
<1>10. sent \in EventLog
  <2>1. sent \in [R -> Event]
    BY <1>5, <1>8, <1>9 DEF Restrict
  <2>2. R \in SUBSET Nat
    BY <1>1, <1>6
  <2> QED
    BY <2>1, <2>2 DEF EventLog
<1>11. state = [stage |-> "apply", resyncHandled |-> run[t].resyncHandled, events |-> sent,
                cursor |-> d, has_more |-> full]
  BY <1>5
<1>12. state \in RunState
  <2>1. state \in Applying
    BY <1>3, <1>5, <1>7, <1>10, <1>11 DEF Applying, Asking
  <2> HIDE DEF state
  <2> QED
    BY <2>1 DEF RunState
<1>13. /\ run'[t].stage = "apply" /\ run'[t].events = sent /\ run'[t].cursor = d
       /\ run'[t].has_more = full /\ Replays(t)' /\ ~Reports(t)' /\ ~Resyncs(t)'
  BY <1>1, <1>2, <1>11 DEF Becomes, Replays, Reports, Resyncs
<1> HIDE DEF state
<1>14. L \in Table /\ last_sync_version' \in 0..last_version /\ RestAgrees(L)' /\ NotStale(L)'
  BY <1>2, ProfileStill
<1>15. CursorAhead(t)'
  BY <1>1, <1>2, <1>7, <1>13, ServerStill DEF CursorAhead
<1>16. ~unsignalled' => ~unsignalled /\ \A v \in (c + 1)..last_version : v \in DOMAIN sync_events
  BY <1>2, <1>5 DEF NoGap
<1>17. EventsTold(t)'
  <2>1. \A v \in R : \A e : e = sent[v] => v \in (last_sync_version + 1)..d /\ Told(v, e)' /\ e = sync_events[v]
    BY <1>1, <1>2, <1>6, <1>7, <1>8, <1>9, ServerStill
  <2>2. ~unsignalled' => \A v \in R, w \in 1..d : w > v => w \in R
    BY <1>1, <1>6, <1>7, <1>16
  <2> QED
    BY <1>2, <1>8, <1>13, <2>1, <2>2, ServerStill DEF EventsTold
<1>18. Events(t)' = sent /\ ToApply(t)' = Later(c)
  <2>1. Events(t)' = sent
    BY <1>13 DEF Events
  <2>2. DOMAIN sent \cup {w \in DOMAIN sync_events : w > d} = {w \in DOMAIN sync_events : w > c}
    BY <1>1, <1>6, <1>7, <1>8
  <2> QED
    BY <1>2, <1>8, <1>13, <2>1, <2>2, ServerStill DEF ToApply, Later
<1>19. ~unsignalled' => \A m \in Messages : Agrees(m, L[m], messages[m], Later(c))
                                            /\ FollowsLast(m, messages[m], Later(c))
  <2>1. Replays(t) /\ ReplayAgrees(L, t) /\ ToApply(t) = Later(c)
    BY <1>2, <1>5, NothingInHand DEF EngineInv, TableInv, Replays
  <2>2. ~unsignalled' => NoGap(c)
    BY <1>2, <1>5
  <2> QED
    BY <1>2, <1>5, <1>16, <2>1, <2>2 DEF ReplayAgrees
<1>20. ReplayAgrees(L, t)'
  BY <1>2, <1>18, <1>19, ServerStill DEF ReplayAgrees
<1>21. EndAgrees(L, t)'
  <2> SUFFICES ASSUME ~unsignalled', ~full, NEW m \in Messages
               PROVE  /\ Agrees(m, L[m], history[d][m], sent)
                      /\ FollowsLast(m, history[d][m], sent)
    BY <1>2, <1>13, ServerStill DEF EndAgrees
  <2>1. d = last_version
    <3>1. c # last_version => last_version \in DOMAIN sync_events /\ last_version > c
      BY <1>1, <1>7, <1>16
    <3>2. c # last_version => last_version \in R
      BY <1>5, <1>6, <3>1
    <3> QED
      BY <1>1, <1>6, <1>7, <3>2
  <2>2. sent = Later(c)
    BY <1>5, <1>6, <1>8 DEF Later, Restrict
  <2> QED
    BY <1>1, <1>19, <2>1, <2>2
<1>22. LocalAlive(L, t)'
  <2> SUFFICES ASSUME NEW m \in Messages, ~unsignalled', L[m] # Absent
               PROVE  \E s \in 0..last_version : history[s][m] # Absent /\ (s >= d \/ s + 1 \in R)
    BY <1>2, <1>8, <1>13, <1>18, ServerStill DEF LocalAlive
  <2>1. PICK s \in 0..last_version : history[s][m] # Absent /\ s >= c
    <3>1. DOMAIN Events(t) = {}
      BY <1>2, NothingInHand
    <3> QED
      BY <1>2, <1>5, <1>16, <3>1 DEF EngineInv, StaleInv, LocalAlive, Replays
  <2>2. s >= d \/ s + 1 \in R
    BY <1>1, <1>6, <1>7, <1>16, <2>1
  <2> QED
    BY <2>1, <2>2
<1>23. ResyncAgrees(L, t)' /\ CopiesShown(L, t)'
  BY <1>13 DEF ResyncAgrees, CopiesShown
<1> QED
  BY <1>1, <1>2, <1>12, <1>14, <1>15, <1>17, <1>20, <1>21, <1>22, <1>23, TabKeeps

\* The events of an answer are all applied: the run asks for more, or it is done with the
\* messages.
LEMMA AppliedAllKeeps ==
  ASSUME NEW L, EngineInv(L), NEW t \in Tabs, Alone(t), ApplyEvent(t), DOMAIN run[t].events = {}
  PROVE  EngineInv(L)'
<1> DEFINE state == IF run[t].has_more
                    THEN [stage |-> "ask", cursor |-> run[t].cursor,
                          resyncHandled |-> run[t].resyncHandled]
                    ELSE [stage |-> "list_folders", cursor |-> run[t].cursor]
<1>1. /\ ProgressInv /\ ServerInv /\ last_version \in Nat /\ last_sync_version \in 0..last_version
      /\ last_sync_version \in Nat /\ ClientTyped /\ run \in [Tabs -> RunState] /\ L \in Table
      /\ history \in [0..last_version -> Table]
  BY DEF EngineInv, ProgressInv, ClientTyped, TableInv, ServerInv, HistoryTyped
<1>2. /\ run[t].stage = "apply" /\ Becomes(t, state) /\ UNCHANGED serverVars
      /\ UNCHANGED <<last_sync_version, unsignalled>>
  BY DEF ApplyEvent
<1>3. run[t] \in Applying /\ run[t].cursor \in last_sync_version..last_version
  BY <1>1, <1>2, RunShape DEF ProgressInv, CursorAhead, Replays
<1>4. PICK c, more : c = run[t].cursor /\ more = run[t].has_more
  OBVIOUS
<1>5. c \in last_sync_version..last_version /\ c \in Nat /\ more \in BOOLEAN
  BY <1>1, <1>3, <1>4 DEF Applying
<1>6. state \in RunState
  <2>1. state \in Asking \cup Ending
    BY <1>3, <1>4, <1>5 DEF Applying, Asking, Ending
  <2> HIDE DEF state
  <2> QED
    BY <2>1 DEF RunState
<1>7. /\ more => run'[t].stage = "ask"
      /\ ~more => run'[t].stage = "list_folders" /\ ~Replays(t)'
      /\ run'[t].cursor = c /\ ~Resyncs(t)'
  BY <1>1, <1>2, <1>4 DEF Becomes, Replays, Resyncs
<1> HIDE DEF state
<1>8. L \in Table /\ last_sync_version' \in 0..last_version /\ RestAgrees(L)' /\ NotStale(L)'
  BY <1>2, ProfileStill
<1>9. CursorAhead(t)' /\ EventsTold(t)' /\ ResyncAgrees(L, t)' /\ CopiesShown(L, t)'
  BY <1>2, <1>5, <1>7, ServerStill DEF CursorAhead, EventsTold, ResyncAgrees, CopiesShown
<1>10. DOMAIN Events(t) = {} /\ ToApply(t) = Later(c)
  <2>1. Events(t) = run[t].events
    BY <1>2 DEF Events
  <2> QED
    BY <1>4, <2>1 DEF ToApply, Later
<1>11. DOMAIN Events(t)' = {} /\ ToApply(t)' = Later(c)
  BY <1>2, <1>7, ServerStill DEF ToApply, Events, Later
<1>12. ReplayAgrees(L, t)'
  <2>1. ReplayAgrees(L, t) /\ Replays(t)
    BY <1>2 DEF EngineInv, TableInv, Replays
  <2> QED
    BY <1>2, <1>4, <1>7, <1>10, <1>11, <2>1, ServerStill DEF ReplayAgrees
<1>13. LocalAlive(L, t)'
  <2>1. LocalAlive(L, t) /\ Replays(t)
    BY <1>2 DEF EngineInv, StaleInv, Replays
  <2> QED
    BY <1>2, <1>4, <1>7, <1>10, <1>11, <2>1, ServerStill DEF LocalAlive
<1>14. EndAgrees(L, t)'
  <2> SUFFICES ASSUME ~unsignalled, ~more PROVE L = history[c]
    BY <1>2, <1>5, <1>7, ServerStill DEF EndAgrees, Reports
  <2>1. c \in 0..last_version
    BY <1>1, <1>5
  <2>2. \A m \in Messages : L[m] = history[c][m]
    <3> SUFFICES ASSUME NEW m \in Messages PROVE L[m] = history[c][m]
      OBVIOUS
    <3>1. L[m] \in Row \cup {Absent} /\ history[c][m] \in Row \cup {Absent}
      BY <1>1, <2>1 DEF Table
    <3>2. Agrees(m, L[m], history[c][m], run[t].events)
      BY <1>2, <1>4 DEF EngineInv, TableInv, EndAgrees
    <3> QED
      BY <3>1, <3>2, EmptyLogAgrees
  <2>3. L \in Table /\ history[c] \in Table
    BY <1>1, <2>1
  <2> QED
    BY <2>2, <2>3 DEF Table
<1> QED
  BY <1>1, <1>2, <1>6, <1>8, <1>9, <1>12, <1>13, <1>14, TabKeeps

\* The message of the first event an answer has left was there at its version, if the
\* profile has it: the event does not speak of a message that was gone by then.
LEMMA FirstEventAlive ==
  ASSUME ServerInv, NEW m \in Messages, NEW v, NEW e, Told(v, e), e.message_id = m,
         e.event_type \in {"message_updated", "message_moved"},
         NEW s \in 0..last_version, history[s][m] # Absent, s + 1 >= v
  PROVE  history[v][m] # Absent
<1>1. v \in 1..last_version /\ last_version \in Nat /\ LivesOnce
  BY DEF Told, ServerInv, HistoryTyped
<1>2. PICK k \in 0..(v - 1) : history[k][m] # Absent
  BY DEF Told
<1>3. CASE s >= v
  <2>1. k \in 0..last_version /\ v \in 0..last_version /\ k <= v /\ v <= s
    BY <1>1, <1>3
  <2> QED
    BY <1>1, <1>2, <2>1 DEF LivesOnce
<1>4. CASE s = v - 1
  BY <1>4 DEF Told
<1> QED
  BY <1>1, <1>3, <1>4

\* What an event says was shown at its version, and the rest of the row was shown before.
LEMMA AppliedShown ==
  ASSUME ServerInv, NEW m \in Messages, NEW row \in Row \cup {Absent},
         NEW v, NEW e, Told(v, e), e.message_id = m, NEW c \in Nat, c <= v,
         row # Absent => Shows(m, row, c),
         row # Absent /\ e.event_type \in {"message_updated", "message_moved"} =>
           history[v][m] # Absent,
         ApplySyncEvent(row, v, e) # Absent
  PROVE  Shows(m, ApplySyncEvent(row, v, e), c) /\ history[v][m] # Absent
<1> DEFINE after == ApplySyncEvent(row, v, e)
<1> SUFFICES Shows(m, after, c) /\ history[v][m] # Absent
  OBVIOUS
<1>1. /\ e \in Event /\ v \in 1..last_version /\ v \in Nat /\ last_version \in Nat
      /\ v \in c..last_version
  BY DEF Told, ServerInv, HistoryTyped
<1>2. e.event_type \in {"message_created", "message_deleted", "message_updated", "message_moved"}
  BY <1>1, EventKinds
<1>3. CASE e.event_type = "message_created"
  <2>1. after = e.message /\ e.message \in Row /\ history[v][m] = e.message
    BY <1>1, <1>3, AppliedRow, EventKinds DEF Told
  <2> HIDE DEF after
  <2> QED
    BY <1>1, <2>1, HistoryShows, AbsentAssumption
<1>4. CASE e.event_type = "message_deleted"
  BY <1>1, <1>4, AppliedRow
<1>5. CASE e.event_type = "message_updated"
  <2>1. /\ row # Absent /\ \A flag \in Flags :
             after.flags[flag] = IF flag = e.flag THEN e.value ELSE row.flags[flag]
        /\ after.folder_id = row.folder_id /\ after.folder_entered_at = row.folder_entered_at
    BY <1>1, <1>5, AppliedRow
  <2> HIDE DEF after
  <2>2. history[v][m] # Absent /\ history[v][m].flags[e.flag] = e.value
    BY <1>5, <2>1 DEF Told
  <2>3. Shows(m, row, c)
    BY <2>1
  <2>4. \A flag \in Flags : \E s \in c..last_version :
          history[s][m] # Absent /\ history[s][m].flags[flag] = after.flags[flag]
    BY <1>1, <2>1, <2>2, <2>3 DEF Shows
  <2> QED
    BY <2>1, <2>2, <2>3, <2>4, Zenon DEF Shows
<1>6. CASE e.event_type = "message_moved"
  <2>1. /\ row # Absent /\ \A flag \in Flags : after.flags[flag] = row.flags[flag]
        /\ after.folder_id = e.folder_id /\ after.folder_entered_at = e.folder_entered_at
    <3>1. row # Absent
      BY <1>1, <1>6, AppliedRow
    <3>2. \A flag \in Flags : after.flags[flag] = row.flags[flag]
      BY <1>1, <1>6, <3>1, AppliedRow
    <3>3. after.folder_id = e.folder_id /\ after.folder_entered_at = e.folder_entered_at
      BY <1>1, <1>6, <3>1, AppliedRow
    <3> HIDE DEF after
    <3> QED
      BY <3>1, <3>2, <3>3
  <2> HIDE DEF after
  <2>2. /\ history[v][m] # Absent /\ history[v][m].folder_id = e.folder_id
        /\ history[v][m].folder_entered_at = e.folder_entered_at
    BY <1>6, <2>1 DEF Told
  <2>3. Shows(m, row, c)
    BY <2>1
  <2>4. \A flag \in Flags : \E s \in c..last_version :
          history[s][m] # Absent /\ history[s][m].flags[flag] = after.flags[flag]
    BY <2>1, <2>3 DEF Shows
  <2> QED
    BY <1>1, <2>1, <2>2, <2>4 DEF Shows
<1> QED
  BY <1>2, <1>3, <1>4, <1>5, <1>6

\* The oldest event left is applied.
LEMMA AppliedOneKeeps ==
  ASSUME NEW L, NEW L2, EngineInv(L), NEW t \in Tabs, Alone(t), ApplyEvent(t),
         DOMAIN run[t].events # {}, NEW first, first = Min(DOMAIN run[t].events),
         L2 = Applied(L, first, run[t].events[first])
  PROVE  EngineInv(L2)'
<1> DEFINE left == Restrict(run[t].events, DOMAIN run[t].events \ {first})
           state == [run[t] EXCEPT !.events = left]
<1>1. /\ ProgressInv /\ ServerInv /\ last_version \in Nat /\ last_sync_version \in 0..last_version
      /\ last_sync_version \in Nat /\ ClientTyped /\ run \in [Tabs -> RunState] /\ L \in Table
      /\ DOMAIN sync_events \subseteq 1..last_version
  BY DEF EngineInv, ProgressInv, ClientTyped, TableInv, ServerInv, HistoryTyped
<1>2. /\ run[t].stage = "apply" /\ Becomes(t, state) /\ UNCHANGED serverVars
      /\ UNCHANGED <<last_sync_version, unsignalled>>
      /\ L2 = [L EXCEPT ![run[t].events[first].message_id] =
                     ApplySyncEvent(@, first, run[t].events[first])]
  BY DEF ApplyEvent, Applied
<1>3. run[t] \in Applying /\ run[t].cursor \in last_sync_version..last_version
  BY <1>1, <1>2, RunShape DEF ProgressInv, CursorAhead, Replays
<1>4. PICK c, more, events, rest, v, e, m0 :
        /\ c = run[t].cursor /\ more = run[t].has_more /\ events = run[t].events
        /\ v = first /\ rest = left /\ e = run[t].events[first]
        /\ m0 = run[t].events[first].message_id
  OBVIOUS
<1>5. /\ c \in last_sync_version..last_version /\ c \in Nat /\ more \in BOOLEAN
      /\ events \in EventLog
  BY <1>1, <1>3, <1>4 DEF Applying
<1>6. /\ DOMAIN events \subseteq Nat /\ DOMAIN events # {}
      /\ events = [w \in DOMAIN events |-> events[w]]
      /\ \A w \in DOMAIN events : events[w] \in Event
  BY <1>4, <1>5 DEF EventLog
<1>7. v \in DOMAIN events /\ e = events[v] /\ m0 = e.message_id /\ \A w \in DOMAIN events : v <= w
  BY <1>4, <1>6, LeastNumber
<1>8. DOMAIN rest = DOMAIN events \ {v} /\ \A w \in DOMAIN rest : rest[w] = events[w] /\ w > v
  <2>1. rest = Restrict(events, DOMAIN events \ {v})
    BY <1>4
  <2>2. DOMAIN rest = DOMAIN events \ {v} /\ \A w \in DOMAIN rest : rest[w] = events[w]
    BY <2>1 DEF Restrict
  <2> QED
    BY <1>6, <1>7, <2>2
<1>9. rest \in EventLog
  <2>1. rest \in [DOMAIN events \ {v} -> Event]
    BY <1>4, <1>6 DEF Restrict
  <2>2. DOMAIN events \ {v} \in SUBSET Nat
    BY <1>6
  <2> QED
    BY <2>1, <2>2 DEF EventLog
<1>10. /\ \A w \in DOMAIN events :
            /\ w \in (last_sync_version + 1)..c /\ Told(w, events[w])
            /\ w \in DOMAIN sync_events => events[w] = sync_events[w]
       /\ ~unsignalled => \A u \in DOMAIN events, w \in 1..c : w > u => w \in DOMAIN events
  BY <1>2, <1>4 DEF EngineInv, ProgressInv, EventsTold
<1>11. /\ v \in (last_sync_version + 1)..c /\ v \in 1..last_version /\ v \in Nat /\ Told(v, e)
       /\ e \in Event /\ m0 \in Messages
       /\ e.event_type = "message_created" => e.message.sync_version = v
  BY <1>1, <1>5, <1>6, <1>7, <1>10, EventKinds DEF Told
<1>12. state.events = rest /\ state \in RunState
  <2>1. state \in Applying /\ state.events = rest
    BY <1>3, <1>4, <1>9 DEF Applying
  <2> HIDE DEF state
  <2> QED
    BY <2>1 DEF RunState
<1>13. /\ run'[t].stage = "apply" /\ run'[t].events = rest /\ run'[t].cursor = c
       /\ run'[t].has_more = more /\ Replays(t)' /\ ~Reports(t)' /\ ~Resyncs(t)'
  <2>1. /\ state.stage = "apply" /\ state.events = rest /\ state.cursor = c
        /\ state.has_more = more /\ run'[t] = state
    BY <1>1, <1>2, <1>3, <1>4 DEF Becomes, Applying
  <2> HIDE DEF state
  <2> QED
    BY <2>1 DEF Replays, Reports, Resyncs
<1> HIDE DEF state, left
<1>14. /\ L2[m0] = ApplySyncEvent(L[m0], v, e)
       /\ \A m \in Messages : m # m0 => L2[m] = L[m]
       /\ L[m0] \in Row \cup {Absent}
       /\ DOMAIN L2 = Messages
  <2>1. L2 = [L EXCEPT ![m0] = ApplySyncEvent(@, v, e)]
    BY <1>2, <1>4
  <2> QED
    BY <1>1, <1>11, <2>1 DEF Table
<1>15. L2 \in Table
  <2>1. ApplySyncEvent(L[m0], v, e) \in Row \cup {Absent}
    BY <1>11, <1>14, AppliedRow
  <2>2. L2 = [L EXCEPT ![m0] = ApplySyncEvent(L[m0], v, e)]
    BY <1>2, <1>4
  <2> QED
    BY <1>1, <1>11, <2>1, <2>2 DEF Table
<1>16. CursorAhead(t)' /\ ResyncAgrees(L2, t)' /\ CopiesShown(L2, t)'
  BY <1>2, <1>5, <1>13, ServerStill DEF CursorAhead, ResyncAgrees, CopiesShown
<1>17. EventsTold(t)'
  <2>1. \A w \in DOMAIN rest : \A f : f = rest[w] =>
          /\ w \in (last_sync_version + 1)..c /\ Told(w, f)'
          /\ w \in DOMAIN sync_events => f = sync_events[w]
    BY <1>2, <1>8, <1>10, ServerStill
  <2>2. ~unsignalled => \A u \in DOMAIN rest, w \in 1..c : w > u => w \in DOMAIN rest
    BY <1>6, <1>8, <1>10
  <2> QED
    BY <1>2, <1>13, <2>1, <2>2, ServerStill DEF EventsTold
<1>18. RestAgrees(L2)'
  <2> SUFFICES ASSUME ~unsignalled, NoGap(last_sync_version), NEW m \in Messages
               PROVE  \A row : row = L2[m] => Agrees(m, row, messages[m], Later(last_sync_version))
    BY <1>2, ServerStill DEF RestAgrees
  <2>1. Agrees(m, L[m], messages[m], Later(last_sync_version))
    BY DEF EngineInv, TableInv, RestAgrees
  <2>2. v \in DOMAIN Later(last_sync_version) /\ Later(last_sync_version)[v] = e
    <3>1. v \in DOMAIN sync_events /\ v > last_sync_version /\ e = sync_events[v]
      BY <1>1, <1>5, <1>7, <1>10, <1>11 DEF NoGap
    <3> QED
      BY <3>1 DEF Later
  <2>3. m = m0 => Agrees(m, ApplySyncEvent(L[m], v, e), messages[m], Later(last_sync_version))
    BY <1>7, <1>11, <1>14, <2>1, <2>2, AppliedAgrees
  <2> QED
    BY <1>14, <2>1, <2>3
<1>19. ReplayAgrees(L2, t)'
  <2> SUFFICES ASSUME ~unsignalled, more, NoGap(c), NEW m \in Messages
               PROVE  \A row, log : row = L2[m] /\ log = ToApply(t)' =>
                        Agrees(m, row, messages[m], log) /\ FollowsLast(m, messages[m], log)
    BY <1>2, <1>13, ServerStill DEF ReplayAgrees
  <2> DEFINE log == ToApply(t)
  <2>1. Agrees(m, L[m], messages[m], log) /\ FollowsLast(m, messages[m], log)
    BY <1>2, <1>4 DEF EngineInv, TableInv, ReplayAgrees, Replays
  <2>2. /\ log = [w \in DOMAIN events \cup {u \in DOMAIN sync_events : u > c} |->
                    IF w \in DOMAIN events THEN events[w] ELSE sync_events[w]]
        /\ ToApply(t)' = [w \in DOMAIN rest \cup {u \in DOMAIN sync_events : u > c} |->
                            IF w \in DOMAIN rest THEN rest[w] ELSE sync_events[w]]
    BY <1>2, <1>4, <1>13, ServerStill DEF ToApply, Events
  <2> HIDE DEF log
  <2>3. /\ DOMAIN log \subseteq Nat /\ v \in DOMAIN log /\ log[v] = e
        /\ \A w \in DOMAIN sync_events : w > c => w # v /\ w > v
    BY <1>1, <1>5, <1>6, <1>7, <1>11, <2>2
  <2>4. PICK after : after = ToApply(t)'
    OBVIOUS
  <2>5. DOMAIN after = DOMAIN log \ {v} /\ \A w \in DOMAIN after : after[w] = log[w] /\ w > v
    BY <1>8, <2>2, <2>3, <2>4
  <2>6. L[m] \in Row \cup {Absent}
    BY <1>1 DEF Table
  <2>7. /\ e.message_id = m => Agrees(m, ApplySyncEvent(L[m], v, e), messages[m], after)
        /\ e.message_id # m => Agrees(m, L[m], messages[m], after)
        /\ FollowsLast(m, messages[m], after)
    BY <1>11, <2>1, <2>3, <2>5, <2>6, FirstAppliedAgrees
  <2> QED
    BY <1>7, <1>14, <2>4, <2>7
<1>20. EndAgrees(L2, t)'
  <2> SUFFICES ASSUME ~unsignalled, ~more, NEW m \in Messages
               PROVE  \A row : row = L2[m] =>
                        Agrees(m, row, history[c][m], rest) /\ FollowsLast(m, history[c][m], rest)
    BY <1>2, <1>13, ServerStill DEF EndAgrees
  <2>1. Agrees(m, L[m], history[c][m], events) /\ FollowsLast(m, history[c][m], events)
    BY <1>2, <1>4 DEF EngineInv, TableInv, EndAgrees
  <2>2. L[m] \in Row \cup {Absent}
    BY <1>1 DEF Table
  <2>3. /\ events[v] \in Event
        /\ events[v].event_type = "message_created" => events[v].message.sync_version = v
        /\ v \in DOMAIN events /\ DOMAIN events \subseteq Nat
    BY <1>6, <1>7, <1>11
  <2>4. PICK row, shown : row = L[m] /\ shown = history[c][m]
    OBVIOUS
  <2>5. /\ events[v].message_id = m => Agrees(m, ApplySyncEvent(row, v, events[v]), shown, rest)
        /\ events[v].message_id # m => Agrees(m, row, shown, rest)
        /\ FollowsLast(m, shown, rest)
    BY <1>8, <2>1, <2>2, <2>3, <2>4, FirstAppliedAgrees
  <2> QED
    BY <1>7, <1>14, <2>4, <2>5
<1>21. ASSUME NEW m \in Messages, ~unsignalled, L[m] # Absent
       PROVE  \E s \in 0..last_version : history[s][m] # Absent /\ (s >= c \/ s + 1 \in DOMAIN events)
  <2>1. Events(t) = events /\ Replays(t)
    BY <1>2, <1>4 DEF Events, Replays
  <2> QED
    BY <1>4, <1>21, <2>1 DEF EngineInv, StaleInv, LocalAlive
<1>22. ~unsignalled /\ L[m0] # Absent /\ e.event_type \in {"message_updated", "message_moved"}
         => history[v][m0] # Absent
  <2> SUFFICES ASSUME ~unsignalled, L[m0] # Absent,
                      e.event_type \in {"message_updated", "message_moved"}
               PROVE  history[v][m0] # Absent
    OBVIOUS
  <2>1. PICK s \in 0..last_version :
          history[s][m0] # Absent /\ (s >= c \/ s + 1 \in DOMAIN events)
    BY <1>11, <1>21
  <2>2. s + 1 >= v
    BY <1>1, <1>5, <1>7, <1>11, <2>1
  <2> QED
    BY <1>1, <1>7, <1>11, <2>1, <2>2, FirstEventAlive
<1>23. ASSUME ~unsignalled, NEW row, row = L2[m0], row # Absent
       PROVE  Shows(m0, row, last_sync_version) /\ history[v][m0] # Absent
  <2>1. L[m0] # Absent => Shows(m0, L[m0], last_sync_version)
    BY <1>11, <1>23 DEF EngineInv, StaleInv, NotStale
  <2>2. last_sync_version <= v
    BY <1>1, <1>11
  <2>3. ApplySyncEvent(L[m0], v, e) # Absent
    BY <1>14, <1>23
  <2>4. /\ Shows(m0, ApplySyncEvent(L[m0], v, e), last_sync_version)
        /\ history[v][m0] # Absent
    <3>1. L[m0] # Absent /\ e.event_type \in {"message_updated", "message_moved"} =>
            history[v][m0] # Absent
      BY <1>22, <1>23
    <3>2. e.message_id = m0
      BY <1>7
    <3> QED
      BY <1>1, <1>11, <1>14, <2>1, <2>2, <2>3, <3>1, <3>2, AppliedShown
  <2> QED
    BY <1>14, <1>23, <2>4
<1>24. NotStale(L2)'
  <2> SUFFICES ASSUME ~unsignalled, NEW m \in Messages, NEW row, row = L2[m], row # Absent
               PROVE  Shows(m, row, last_sync_version)
    BY <1>2, ServerStill DEF NotStale
  <2>1. CASE m = m0
    BY <1>23, <2>1
  <2>2. CASE m # m0
    BY <1>14, <2>2 DEF EngineInv, StaleInv, NotStale
  <2> QED
    BY <2>1, <2>2
<1>25. LocalAlive(L2, t)'
  <2> SUFFICES ASSUME ~unsignalled, NEW m \in Messages, L2[m] # Absent
               PROVE  \E s \in 0..last_version :
                        history[s][m] # Absent /\ (s >= c \/ s + 1 \in DOMAIN rest)
    <3>1. Events(t)' = rest
      BY <1>13 DEF Events
    <3> QED
      BY <1>2, <1>13, <3>1, ServerStill DEF LocalAlive
  <2>1. CASE history[v][m] # Absent
    <3>1. v \in 0..last_version /\ (v >= c \/ v + 1 \in DOMAIN rest)
      BY <1>5, <1>7, <1>8, <1>10, <1>11
    <3> QED
      BY <2>1, <3>1
  <2>2. CASE history[v][m] = Absent
    <3>1. m # m0
      BY <1>23, <2>2
    <3>2. L[m] # Absent
      BY <1>14, <3>1
    <3>3. PICK s \in 0..last_version :
            history[s][m] # Absent /\ (s >= c \/ s + 1 \in DOMAIN events)
      BY <1>21, <3>2
    <3>4. s + 1 # v
      <4>1. history[v - 1][m] = Absent
        BY <1>7, <1>11, <2>2, <3>1 DEF Told
      <4> QED
        BY <1>11, <3>3, <4>1
    <3> QED
      BY <1>8, <3>3, <3>4
  <2> QED
    BY <2>1, <2>2
<1>26. last_sync_version' \in 0..last_version
  BY <1>1, <1>2
<1> QED
  BY <1>1, <1>2, <1>12, <1>15, <1>16, <1>17, <1>18, <1>19, <1>20, <1>24, <1>25, <1>26, TabKeeps

-----------------------------------------------------------------------------
(* Theorems                                                                *)

LEMMA EngineInit ==
  ASSUME NEW L, L = local, Init
  PROVE  EngineInv(L)
<1>1. /\ messages = NoRow /\ last_version = 0 /\ DOMAIN sync_events = {}
      /\ sync_events = [v \in DOMAIN sync_events |-> sync_events[v]]
      /\ folders = Folders /\ ingested = {} /\ local = NoRow /\ last_sync_version = 0
      /\ run = [t \in Tabs |-> Idle] /\ history = [v \in {0} |-> NoRow]
  BY DEF Init, Log!Init
<1>2. NoRow \in Table /\ \A m \in Messages : NoRow[m] = Absent
  BY DEF NoRow, Table
<1>3. history \in [0..last_version -> Table] /\ history[0] = NoRow /\ 0..last_version = {0}
  BY <1>1, <1>2
<1>4. HistoryTyped
  BY <1>1, <1>2, <1>3 DEF HistoryTyped
<1>5. LivesOnce
  BY <1>1, <1>2, <1>3 DEF LivesOnce
<1>6. LogTells
  <2>1. \A c \in 0..last_version, m \in Messages : FollowsLast(m, messages[m], Later(c))
    BY <1>1 DEF FollowsLast, Later
  <2>2. \A c \in 0..last_version, m \in Messages : Agrees(m, history[c][m], messages[m], Later(c))
    BY <1>1, <1>3, SameRowAgrees
  <2> QED
    BY <1>1, <2>1, <2>2 DEF LogTells
<1>7. ClientTyped
  BY <1>1, <1>2 DEF ClientTyped, RunState
<1>8. \A t \in Tabs : run[t].stage = "idle"
  BY <1>1 DEF Idle
<1>9. \A t \in Tabs : CursorAhead(t) /\ EventsTold(t)
  BY <1>8 DEF CursorAhead, EventsTold, Replays, Reports, Resyncs
<1>10. L \in Table /\ RestAgrees(L)
  BY <1>1, <1>2, SameRowAgrees DEF RestAgrees
<1>11. \A t \in Tabs : ReplayAgrees(L, t) /\ EndAgrees(L, t) /\ ResyncAgrees(L, t)
  BY <1>8 DEF ReplayAgrees, EndAgrees, ResyncAgrees, Replays, Reports
<1>12. NotStale(L)
  BY <1>1, <1>2 DEF NotStale
<1>13. \A t \in Tabs : CopiesShown(L, t) /\ LocalAlive(L, t)
  BY <1>8 DEF CopiesShown, LocalAlive, Replays
<1> QED
  BY <1>4, <1>5, <1>6, <1>7, <1>9, <1>10, <1>11, <1>12, <1>13
  DEF EngineInv, ProgressInv, TableInv, StaleInv, ServerInv

\* The server moves and the profile does not.
LEMMA EngineStands ==
  ASSUME NEW L, EngineInv(L), ServerMoves, folders' \subseteq Folders,
         UNCHANGED <<run, last_sync_version, unsignalled>>
  PROVE  EngineInv(L)'
<1>1. ProgressInv /\ TableInv(L) /\ StaleInv(L)
  BY DEF EngineInv
<1>2. ProgressInv' /\ TableInv(L)' /\ StaleInv(L)'
  BY <1>1, ServerKeepsProgress, ServerKeepsTable, ServerKeepsStale
<1> QED
  BY <1>2 DEF EngineInv

LEMMA ServerMovesAlone ==
  ASSUME ProgressInv, Server \/ Settle \/ UNCHANGED vars
  PROVE  /\ ServerMoves /\ folders' \subseteq Folders
         /\ UNCHANGED <<run, local, last_sync_version, unsignalled>>
<1>1. CASE Server
  <2>1. folders' \subseteq Folders /\ ServerMoves
    BY <1>1, ServerSteps DEF ServerMoves, ProgressInv
  <2>2. UNCHANGED <<run, local, last_sync_version, unsignalled>>
    BY <1>1 DEF Server, localVars
  <2> QED
    BY <2>1, <2>2
<1>2. CASE Settle \/ UNCHANGED vars
  <2>1. UNCHANGED serverVars /\ UNCHANGED <<run, local, last_sync_version, unsignalled>>
    BY <1>2 DEF Settle, vars, localVars
  <2>2. ServerMoves /\ folders' \subseteq Folders
    BY <2>1 DEF ServerMoves, serverVars, ProgressInv, ServerInv, HistoryTyped
  <2> QED
    BY <2>1, <2>2
<1> QED
  BY <1>1, <1>2

\* Every step of a run, with the runs of different tabs apart, on any table for which the
\* invariant stands.
LEMMA RunKeeps ==
  ASSUME NEW L, EngineInv(L), OneAtATime, OneAtATime', NEW t \in Tabs, Run(t) \/ Abort(t)
  PROVE  \E L2 : EngineInv(L2)' /\ Mirrored(L, L2, local, local')
<1>1. run \in [Tabs -> RunState] /\ ClientTyped
  BY DEF EngineInv, ProgressInv, ClientTyped
<1>2. run[t] # Idle => Alone(t)
  BY DEF OneAtATime, Alone
<1>3. run[t].stage # "idle" => Alone(t)
  BY <1>2 DEF Idle
<1>4. ASSUME local' = local, EngineInv(L)'
      PROVE  \E L2 : EngineInv(L2)' /\ Mirrored(L, L2, local, local')
  BY <1>4 DEF Mirrored
<1>5. CASE StartRun(t)
  <2>1. run'[t] # Idle /\ \A u \in Tabs \ {t} : run'[u] = run[u]
    BY <1>1, <1>5 DEF StartRun, Becomes, Idle
  <2>2. Alone(t) /\ local' = local
    BY <1>5, <2>1 DEF OneAtATime, Alone, StartRun, localVars
  <2> QED
    BY <1>4, <1>5, <2>2, StartRunKeeps
<1>6. CASE AskDelta(t)
  <2>1. Alone(t) /\ local' = local
    BY <1>3, <1>6 DEF AskDelta, localVars
  <2> QED
    BY <1>4, <1>6, <2>1, AskDeltaKeeps
<1>7. CASE AnswerDelta(t)
  <2>1. Alone(t) /\ local' = local
    BY <1>3, <1>7 DEF AnswerDelta, localVars
  <2> QED
    BY <1>4, <1>7, <2>1, AnswerDeltaKeeps
<1>8. CASE ApplyEvent(t) /\ DOMAIN run[t].events = {}
  <2>1. Alone(t) /\ local' = local
    BY <1>3, <1>8 DEF ApplyEvent
  <2> QED
    BY <1>4, <1>8, <2>1, AppliedAllKeeps
<1>9. CASE ApplyEvent(t) /\ DOMAIN run[t].events # {}
  <2>1. PICK first, e : first = Min(DOMAIN run[t].events) /\ e = run[t].events[first]
    OBVIOUS
  <2>2. Alone(t) /\ local' = Applied(local, first, e)
    BY <1>3, <1>9, <2>1 DEF ApplyEvent, Applied
  <2>3. PICK L2 : L2 = Applied(L, first, e)
    OBVIOUS
  <2>4. EngineInv(L2)'
    BY <1>9, <2>1, <2>2, <2>3, AppliedOneKeeps
  <2>5. run[t] \in Applying
    BY <1>1, <1>9, RunShape DEF ApplyEvent
  <2>6. run[t].events \in EventLog
    BY <2>5 DEF Applying
  <2>7. DOMAIN run[t].events \subseteq Nat /\ \A v \in DOMAIN run[t].events : run[t].events[v] \in Event
    BY <2>6 DEF EventLog
  <2>8. first \in Nat /\ e \in Event
    BY <1>9, <2>1, <2>7, LeastNumber
  <2> QED
    BY <2>2, <2>3, <2>4, <2>8 DEF Mirrored
<1>10. CASE ClearMessages(t)
  <2>1. Alone(t) /\ local' = NoRow
    BY <1>3, <1>10 DEF ClearMessages
  <2>2. PICK L2 : L2 = NoRow
    OBVIOUS
  <2>3. EngineInv(L2)'
    BY <1>10, <2>1, <2>2, ClearMessagesKeeps
  <2> QED
    BY <2>1, <2>2, <2>3 DEF Mirrored
<1>11. CASE ListMessages(t)
  <2>1. Alone(t) /\ local' = local
    BY <1>3, <1>11 DEF ListMessages, localVars
  <2> QED
    BY <1>4, <1>11, <2>1, ListMessagesKeeps
<1>12. CASE PutPage(t)
  <2>1. Alone(t) /\ local' = Overlaid(local, run[t].page)
    BY <1>3, <1>12 DEF PutPage, Overlaid
  <2>2. PICK L2 : L2 = Overlaid(L, run[t].page)
    OBVIOUS
  <2>3. EngineInv(L2)'
    BY <1>12, <2>1, <2>2, PutPageKeeps
  <2>4. run[t] \in Putting
    BY <1>1, <1>12, RunShape DEF PutPage
  <2>5. run[t].page \in Page
    BY <2>4 DEF Putting
  <2> QED
    BY <2>1, <2>2, <2>3, <2>5 DEF Mirrored
<1>13. CASE SaveWatermark(t)
  <2>1. Alone(t) /\ local' = local
    BY <1>3, <1>13 DEF SaveWatermark
  <2> QED
    BY <1>4, <1>13, <2>1, SaveWatermarkKeeps
<1>14. CASE ListFolders(t) \/ ClearFolders(t) \/ PutFolders(t)
  <2>1. Alone(t) /\ local' = local
    BY <1>3, <1>14 DEF ListFolders, ClearFolders, PutFolders, localVars
  <2> QED
    BY <1>4, <1>14, <2>1, FoldersKeep
<1>15. CASE Finish(t)
  <2>1. Alone(t) /\ local' = local
    BY <1>3, <1>15 DEF Finish
  <2> QED
    BY <1>4, <1>15, <2>1, FinishKeeps
<1>16. CASE Abort(t)
  <2>1. Alone(t) /\ local' = local
    BY <1>2, <1>16 DEF Abort, localVars
  <2> QED
    BY <1>4, <1>16, <2>1, AbortKeeps
<1> QED
  BY <1>5, <1>6, <1>7, <1>8, <1>9, <1>10, <1>11, <1>12, <1>13, <1>14, <1>15, <1>16 DEF Run

\* The invariant of the local table itself.
LocalInv == \E L : L = local /\ EngineInv(L)

LEMMA LocalInit == Init => LocalInv
BY EngineInit DEF LocalInv

LEMMA LocalSteps == LocalInv /\ OneAtATime /\ OneAtATime' /\ [Next]_vars => LocalInv'
<1> SUFFICES ASSUME LocalInv, OneAtATime, OneAtATime', [Next]_vars
             PROVE  \E L2 : L2 = local' /\ EngineInv(L2)'
  BY DEF LocalInv
<1>1. PICK L : L = local /\ EngineInv(L)
  BY DEF LocalInv
<1>2. CASE Server \/ Settle \/ UNCHANGED vars
  <2>1. ServerMoves /\ folders' \subseteq Folders
        /\ UNCHANGED <<run, local, last_sync_version, unsignalled>>
    BY <1>1, <1>2, ServerMovesAlone DEF EngineInv
  <2>2. EngineInv(L)'
    BY <1>1, <2>1, EngineStands
  <2> QED
    BY <1>1, <2>1, <2>2
<1>3. ASSUME NEW t \in Tabs, Run(t) \/ Abort(t)
      PROVE  \E L2 : L2 = local' /\ EngineInv(L2)'
  <2>1. PICK L2 : EngineInv(L2)' /\ Mirrored(L, L2, local, local')
    BY <1>1, <1>3, RunKeeps
  <2>2. L2 = local'
    BY <1>1, <2>1 DEF Mirrored
  <2> QED
    BY <2>1, <2>2
<1> QED
  BY <1>2, <1>3 DEF Next

LEMMA LocalNeverStale == LocalInv => NeverStale
<1> SUFFICES ASSUME LocalInv PROVE NeverStale
  OBVIOUS
<1>1. PICK L : L = local /\ EngineInv(L)
  BY DEF LocalInv
<1>2. ~unsignalled => \A m \in Messages : local[m] # Absent => Shows(m, local[m], last_sync_version)
  BY <1>1 DEF EngineInv, StaleInv, NotStale
<1> QED
  BY <1>2 DEF NeverStale, RowsNotStale, Shows

\* A run that ends leaves the server's table at the cursor it reports (doRunDeltaSync), for
\* any number of messages, flags, folders, versions and pages, wherever earlier runs were
\* cut off: as long as the runs of different tabs do not overlap.
THEOREM RunsLeaveTheServersTable == Spec /\ []OneAtATime => SyncedTable
<1>1. LocalInv /\ OneAtATime =>
        [\A t \in Tabs : Finish(t) /\ ~unsignalled => local = history[run[t].cursor]]_vars
  <2> SUFFICES ASSUME LocalInv, OneAtATime, NEW t \in Tabs, Finish(t), ~unsignalled
               PROVE  local = history[run[t].cursor]
    OBVIOUS
  <2>1. Alone(t)
    BY DEF OneAtATime, Alone, Finish, Idle
  <2>2. PICK L : L = local /\ EngineInv(L)
    BY DEF LocalInv
  <2> QED
    BY <2>1, <2>2, FinishKeeps
<1> QED
  BY <1>1, LocalInit, LocalSteps, PTL DEF Spec, SyncedTable

\* Under the same condition the persisted cursor never runs ahead of the rows: what the
\* profile shows was shown by the server at or after it, in every state, replays, resyncs
\* and interruptions included.
THEOREM RowsAreNeverStale == Spec /\ []OneAtATime => []NeverStale
BY LocalInit, LocalSteps, LocalNeverStale, PTL DEF Spec

\* A profile with the mailbox open in one tab meets the condition: inflightRuns admits one
\* run at a time.
THEOREM OneTabIsInSync ==
  ASSUME \A t, u \in Tabs : t = u
  PROVE  Spec => SyncedTable /\ []NeverStale
<1>1. OneAtATime
  BY DEF OneAtATime
<1> QED
  BY <1>1, RunsLeaveTheServersTable, RowsAreNeverStale, PTL

-----------------------------------------------------------------------------
(* The queue of optimistic mutations: what is deleted from it are the rows *)
(* of a POST that was answered in full.  The client only knows that an     *)
(* answer arrived; that it stands for all rows of its own POST is what     *)
(* QueueInv keeps.                                                         *)

Waits(t) == flush[t].stage = "wait"
Deletes(t) == flush[t].stage = "delete"

\* The clicks are numbered from one on, and the queue and the POSTs only hold clicks.
QueueTyped ==
  /\ \E n \in Nat : enqueued \in [1..n -> Mutations]
  /\ DOMAIN sync_queue \subseteq DOMAIN enqueued
  /\ post \in [Posts -> {Idle} \cup [todo : SUBSET DOMAIN enqueued,
                                     rejected : SUBSET DOMAIN enqueued]]
  /\ flush = [t \in Tabs |-> flush[t]]
  /\ \A t \in Tabs :
       /\ Waits(t) => flush[t] \in [stage : {"wait"}, post : Posts,
                                    rows : SUBSET DOMAIN enqueued,
                                    rejected : SUBSET Messages]
       /\ Deletes(t) => flush[t] \in [stage : {"delete"}, rows : SUBSET DOMAIN enqueued,
                                      more : BOOLEAN, rejected : SUBSET Messages]
       /\ flush[t] # Idle /\ flush[t].stage \notin {"wait", "delete", "resync"} =>
            flush[t].rejected \subseteq Messages

\* A tab that waits has a POST of its own, which will have answered all its rows.
PostOfItsOwn ==
  /\ \A t \in Tabs : Waits(t) =>
       /\ post[flush[t].post] # Idle
       /\ flush[t].rows \subseteq answered \cup post[flush[t].post].todo
  /\ \A t, u \in Tabs : Waits(t) /\ Waits(u) /\ flush[t].post = flush[u].post => t = u

\* Only answered rows are being deleted.
DeletesAnswered == \A t \in Tabs : Deletes(t) => flush[t].rows \subseteq answered

QueueInv == QueueTyped /\ NoMutationForgotten /\ PostOfItsOwn /\ DeletesAnswered

-----------------------------------------------------------------------------
LEMMA QueueInit == QInit => QueueInv
<1> SUFFICES ASSUME QInit PROVE QueueInv
  OBVIOUS
<1> USE DEF QInit
<1>1. enqueued \in [1..0 -> Mutations]
  OBVIOUS
<1>2. QueueTyped
  BY <1>1, Zenon DEF QueueTyped, Waits, Deletes, Idle
<1> QED
  BY <1>2 DEF QueueInv, NoMutationForgotten, PostOfItsOwn, DeletesAnswered,
     Waits, Deletes, Idle, Restrict

\* Tab t goes on to a step that holds no rows: whatever it waited for or deleted is
\* left where it is.
LEMMA MovesOn ==
  ASSUME QueueInv, NEW t \in Tabs, NEW STATE state, Flushes(t, state),
         state.stage \notin {"wait", "delete"},
         state # Idle /\ state.stage # "resync" => state.rejected \subseteq Messages,
         UNCHANGED <<sync_queue, enqueued, answered>>,
         post' \in [Posts -> {Idle} \cup [todo : SUBSET DOMAIN enqueued,
                                          rejected : SUBSET DOMAIN enqueued]],
         \A p \in Posts : post'[p] = post[p] \/ (Waits(t) /\ flush[t].post = p)
  PROVE  QueueInv'
<1> USE DEF QueueInv
<1>1. /\ flush' = [u \in Tabs |-> flush'[u]]
      /\ flush'[t] = state
      /\ \A u \in Tabs : u # t => flush'[u] = flush[u]
  BY Zenon DEF QueueTyped, Flushes
<1>2. ~Waits(t)' /\ ~Deletes(t)'
  BY <1>1, Zenon DEF Waits, Deletes
<1>3. \A u \in Tabs : u # t => (Waits(u)' <=> Waits(u)) /\ (Deletes(u)' <=> Deletes(u))
  BY <1>1, Zenon DEF Waits, Deletes
<1>4. QueueTyped'
  <2>1. \A u \in Tabs :
          /\ Waits(u)' => flush'[u] \in [stage : {"wait"}, post : Posts,
                                         rows : SUBSET DOMAIN enqueued,
                                         rejected : SUBSET Messages]
          /\ Deletes(u)' => flush'[u] \in [stage : {"delete"}, rows : SUBSET DOMAIN enqueued,
                                           more : BOOLEAN, rejected : SUBSET Messages]
          /\ flush'[u] # Idle /\ flush'[u].stage \notin {"wait", "delete", "resync"} =>
               flush'[u].rejected \subseteq Messages
    BY <1>1, <1>2, <1>3, Zenon DEF QueueTyped
  <2> QED
    BY <1>1, <2>1, Zenon DEF QueueTyped, Waits, Deletes
<1>5. PostOfItsOwn'
  <2>1. \A u \in Tabs : Waits(u)' =>
          /\ Waits(u) /\ flush'[u] = flush[u] /\ flush[u].post \in Posts
          /\ post'[flush[u].post] = post[flush[u].post]
    BY <1>1, <1>2, <1>3 DEF PostOfItsOwn, QueueTyped
  <2>2. \A u \in Tabs : Waits(u)' =>
          /\ post'[flush'[u].post] # Idle
          /\ flush'[u].rows \subseteq answered' \cup post'[flush'[u].post].todo
    BY <2>1 DEF PostOfItsOwn
  <2>3. \A u, w \in Tabs : Waits(u)' /\ Waits(w)' /\ flush'[u].post = flush'[w].post => u = w
    BY <2>1 DEF PostOfItsOwn
  <2> QED
    BY <2>2, <2>3, Zenon DEF PostOfItsOwn, Waits
<1>6. DeletesAnswered'
  BY <1>1, <1>2, <1>3, Zenon DEF DeletesAnswered, Deletes
<1>7. NoMutationForgotten'
  BY DEF NoMutationForgotten
<1> QED
  BY <1>4, <1>5, <1>6, <1>7

\* A click gets the next number.
LEMMA EnqueueKeeps == ASSUME QueueInv, EnqueueMutation PROVE QueueInv'
<1> USE DEF QueueInv
<1>1. PICK n \in Nat : enqueued \in [1..n -> Mutations]
  BY DEF QueueTyped
<1>2. Cardinality(DOMAIN enqueued) = n
  BY <1>1, FS_Interval
<1>3. PICK mutation \in Mutations :
        /\ sync_queue' = [i \in DOMAIN sync_queue \cup {n + 1} |->
                            IF i = n + 1 THEN mutation ELSE sync_queue[i]]
        /\ enqueued' = [i \in 1..(n + 1) |-> IF i = n + 1 THEN mutation ELSE enqueued[i]]
  BY <1>2, Zenon DEF EnqueueMutation
<1>4. UNCHANGED <<flush, post, answered>>
  BY DEF EnqueueMutation
<1>5. /\ n + 1 \in Nat /\ enqueued' \in [1..(n + 1) -> Mutations]
      /\ DOMAIN enqueued \subseteq DOMAIN enqueued' /\ DOMAIN enqueued' = DOMAIN enqueued \cup {n + 1}
      /\ n + 1 \notin DOMAIN enqueued
  BY <1>1, <1>3
<1>6. QueueTyped'
  <2>1. DOMAIN sync_queue' \subseteq DOMAIN enqueued'
    BY <1>3, <1>5 DEF QueueTyped
  <2>2. post' \in [Posts -> {Idle} \cup [todo : SUBSET DOMAIN enqueued',
                                         rejected : SUBSET DOMAIN enqueued']]
    BY <1>4, <1>5 DEF QueueTyped
  <2>3. \A t \in Tabs :
          /\ Waits(t) => flush[t] \in [stage : {"wait"}, post : Posts,
                                       rows : SUBSET DOMAIN enqueued',
                                       rejected : SUBSET Messages]
          /\ Deletes(t) => flush[t] \in [stage : {"delete"}, rows : SUBSET DOMAIN enqueued',
                                         more : BOOLEAN, rejected : SUBSET Messages]
    BY <1>5 DEF QueueTyped
  <2> QED
    BY <1>4, <1>5, <2>1, <2>2, <2>3, Zenon DEF QueueTyped, Waits, Deletes
<1>7. NoMutationForgotten'
  <2>1. sync_queue = [i \in DOMAIN sync_queue |-> enqueued[i]]
    BY DEF NoMutationForgotten, Restrict
  <2>2. sync_queue' = [i \in DOMAIN sync_queue' |-> enqueued'[i]]
    BY <1>1, <1>3, <1>5, <2>1 DEF QueueTyped
  <2> QED
    BY <1>3, <1>4, <1>5, <2>2 DEF NoMutationForgotten, Restrict
<1> QED
  BY <1>4, <1>6, <1>7, Zenon DEF PostOfItsOwn, DeletesAnswered, Waits, Deletes

\* The worker answers one row of a POST.
LEMMA ProcessKeeps ==
  ASSUME QueueInv, NEW p \in Posts, ProcessMutation(p)
  PROVE  QueueInv'
<1> USE DEF QueueInv
<1> DEFINE id == Min(post[p].todo)
<1>1. post[p] # Idle /\ post[p].todo # {} /\ UNCHANGED <<sync_queue, flush, enqueued>>
  BY DEF ProcessMutation
<1>2. PICK rejected \in SUBSET {id} :
        /\ answered' = answered \cup {id}
        /\ post' = [post EXCEPT ![p] =
                      IF post[p].todo = {id} /\ ~Awaited(p) THEN Idle
                      ELSE [todo |-> @.todo \ {id}, rejected |-> @.rejected \cup rejected]]
  BY DEF ProcessMutation
<1>3. post[p] \in [todo : SUBSET DOMAIN enqueued, rejected : SUBSET DOMAIN enqueued]
  BY <1>1 DEF QueueTyped
<1>4. id \in post[p].todo
  BY <1>1, <1>3, LeastNumber DEF QueueTyped
<1> HIDE DEF id
<1>5. QueueTyped'
  <2>1. post' \in [Posts -> {Idle} \cup [todo : SUBSET DOMAIN enqueued,
                                         rejected : SUBSET DOMAIN enqueued]]
    BY <1>2, <1>3, <1>4 DEF QueueTyped
  <2> QED
    BY <1>1, <2>1, Zenon DEF QueueTyped, Waits, Deletes
<1>6. PostOfItsOwn'
  <2> SUFFICES ASSUME NEW t \in Tabs, Waits(t)
               PROVE  /\ post'[flush[t].post] # Idle
                      /\ flush[t].rows \subseteq answered' \cup post'[flush[t].post].todo
    BY <1>1, Zenon DEF PostOfItsOwn, Waits
  <2>1. flush[t].post \in Posts /\ post[flush[t].post] # Idle
        /\ flush[t].rows \subseteq answered \cup post[flush[t].post].todo
    BY DEF QueueTyped, PostOfItsOwn
  <2>2. CASE flush[t].post # p
    BY <1>2, <2>1, <2>2 DEF QueueTyped
  <2>3. CASE flush[t].post = p
    <3>1. Awaited(p)
      BY <2>3 DEF Awaited, Waits, Idle
    <3>2. post'[p] = [todo |-> post[p].todo \ {id}, rejected |-> post[p].rejected \cup rejected]
      BY <1>2, <3>1 DEF QueueTyped
    <3>3. post'[p].todo = post[p].todo \ {id} /\ post'[p] # Idle
      BY <3>2 DEF Idle
    <3> QED
      BY <1>2, <2>1, <2>3, <3>3
  <2> QED
    BY <2>2, <2>3
<1>7. NoMutationForgotten' /\ DeletesAnswered'
  BY <1>1, <1>2 DEF NoMutationForgotten, DeletesAnswered, Deletes
<1> QED
  BY <1>5, <1>6, <1>7

\* A tab posts the oldest rows of the queue.
LEMMA PostKeeps ==
  ASSUME QueueInv, NEW t \in Tabs, PostMutations(t)
  PROVE  QueueInv'
<1> USE DEF QueueInv
<1> DEFINE rows == {i \in DOMAIN sync_queue :
                      Cardinality({j \in DOMAIN sync_queue : j <= i}) <= FlushChunk}
<1>1. rows \subseteq DOMAIN enqueued
  BY DEF QueueTyped
<1>2. flush[t] # Idle /\ flush[t].stage = "select" /\ UNCHANGED <<sync_queue, enqueued, answered>>
  BY DEF PostMutations
<1>3. flush[t].rejected \subseteq Messages
  BY <1>2 DEF QueueTyped
<1>4. CASE Flushes(t, AfterLoop(flush[t].rejected)) /\ UNCHANGED post
  <2>1. AfterLoop(flush[t].rejected) = Idle
        \/ AfterLoop(flush[t].rejected) = [stage |-> "reconcile", rejected |-> flush[t].rejected]
    BY DEF AfterLoop
  <2> DEFINE state == AfterLoop(flush[t].rejected)
  <2>2. state.stage \notin {"wait", "delete"}
    BY <2>1 DEF Idle
  <2>3. state # Idle => state.rejected \subseteq Messages
    BY <1>3, <2>1
  <2>4. post' \in [Posts -> {Idle} \cup [todo : SUBSET DOMAIN enqueued,
                                         rejected : SUBSET DOMAIN enqueued]]
    BY <1>4 DEF QueueTyped
  <2> HIDE DEF state
  <2>5. Flushes(t, state) /\ \A p \in Posts : post'[p] = post[p]
    BY <1>4 DEF state
  <2> QED
    BY <1>2, <2>2, <2>3, <2>4, <2>5, MovesOn
<1>5. ASSUME NEW p \in Posts, post[p] = Idle,
             post' = [post EXCEPT ![p] = [todo |-> rows, rejected |-> {}]],
             Flushes(t, [stage |-> "wait", post |-> p, rows |-> rows,
                         rejected |-> flush[t].rejected])
      PROVE  QueueInv'
  <2> HIDE DEF rows
  <2>1. /\ flush' = [u \in Tabs |-> flush'[u]]
        /\ flush'[t] = [stage |-> "wait", post |-> p, rows |-> rows,
                        rejected |-> flush[t].rejected]
        /\ \A u \in Tabs : u # t => flush'[u] = flush[u]
    BY <1>5, Zenon DEF QueueTyped, Flushes
  <2>2. Waits(t)' /\ ~Deletes(t)' /\ flush'[t].post = p /\ flush'[t].rows = rows
        /\ flush'[t].stage = "wait"
    BY <2>1 DEF Waits, Deletes
  <2>3. \A u \in Tabs : u # t => (Waits(u)' <=> Waits(u)) /\ (Deletes(u)' <=> Deletes(u))
    BY <2>1, Zenon DEF Waits, Deletes
  <2>4. post'[p] = [todo |-> rows, rejected |-> {}] /\ \A q \in Posts : q # p => post'[q] = post[q]
    BY <1>5 DEF QueueTyped
  <2>5. post'[p].todo = rows /\ post'[p] # Idle
    BY <2>4 DEF Idle
  <2>6. QueueTyped'
    <3>1. post' \in [Posts -> {Idle} \cup [todo : SUBSET DOMAIN enqueued,
                                           rejected : SUBSET DOMAIN enqueued]]
      BY <1>1, <1>5 DEF QueueTyped
    <3>2. flush'[t] \in [stage : {"wait"}, post : Posts, rows : SUBSET DOMAIN enqueued,
                         rejected : SUBSET Messages]
      BY <1>1, <1>3, <2>1
    <3>3. \A u \in Tabs :
            /\ Waits(u)' => flush'[u] \in [stage : {"wait"}, post : Posts,
                                           rows : SUBSET DOMAIN enqueued,
                                           rejected : SUBSET Messages]
            /\ Deletes(u)' => flush'[u] \in [stage : {"delete"}, rows : SUBSET DOMAIN enqueued,
                                             more : BOOLEAN, rejected : SUBSET Messages]
            /\ flush'[u] # Idle /\ flush'[u].stage \notin {"wait", "delete", "resync"} =>
                 flush'[u].rejected \subseteq Messages
      BY <2>1, <2>2, <2>3, <3>2, Zenon DEF QueueTyped
    <3> QED
      BY <1>2, <2>1, <3>1, <3>3, Zenon DEF QueueTyped, Waits, Deletes
  <2>7. \A u \in Tabs : u # t /\ Waits(u) => flush[u].post # p /\ flush[u].post \in Posts
    BY <1>5 DEF PostOfItsOwn, QueueTyped
  <2>8. PostOfItsOwn'
    <3>1. \A u \in Tabs : Waits(u)' =>
            /\ post'[flush'[u].post] # Idle
            /\ flush'[u].rows \subseteq answered' \cup post'[flush'[u].post].todo
      <4> SUFFICES ASSUME NEW u \in Tabs, Waits(u)'
                   PROVE  /\ post'[flush'[u].post] # Idle
                          /\ flush'[u].rows \subseteq answered' \cup post'[flush'[u].post].todo
        OBVIOUS
      <4>1. CASE u = t
        BY <2>2, <2>5, <4>1
      <4>2. CASE u # t
        BY <1>2, <2>1, <2>3, <2>4, <2>7, <4>2 DEF PostOfItsOwn
      <4> QED
        BY <4>1, <4>2
    <3>2. \A u, w \in Tabs : Waits(u)' /\ Waits(w)' /\ flush'[u].post = flush'[w].post => u = w
      BY <2>1, <2>2, <2>3, <2>7, Zenon DEF PostOfItsOwn
    <3> QED
      BY <3>1, <3>2, Zenon DEF PostOfItsOwn, Waits
  <2>9. DeletesAnswered' /\ NoMutationForgotten'
    BY <1>2, <2>1, <2>2, <2>3 DEF DeletesAnswered, NoMutationForgotten, Deletes
  <2> QED
    BY <2>6, <2>8, <2>9
<1> QED
  BY <1>4, <1>5 DEF PostMutations

\* The answer of its POST makes a tab delete the rows it posted.
LEMMA AnswerKeeps ==
  ASSUME QueueInv, NEW t \in Tabs, AnswerMutations(t)
  PROVE  QueueInv'
<1> USE DEF QueueInv
<1> DEFINE p == flush[t].post
           rejected == flush[t].rejected \cup {enqueued[i].message_id : i \in post[p].rejected}
           more == Cardinality(flush[t].rows) = FlushChunk
<1>1. /\ Waits(t) /\ post[p].todo = {}
      /\ Flushes(t, [stage |-> "delete", rows |-> flush[t].rows, more |-> more,
                     rejected |-> rejected])
      /\ post' = [post EXCEPT ![p] = Idle]
      /\ UNCHANGED <<sync_queue, enqueued, answered>>
  BY DEF AnswerMutations, Waits
<1>2. p \in Posts /\ flush[t].rejected \subseteq Messages /\ flush[t].rows \subseteq DOMAIN enqueued
  BY <1>1 DEF QueueTyped
<1>3. flush[t].rows \subseteq answered
  BY <1>1, <1>2 DEF PostOfItsOwn
<1>4. rejected \subseteq Messages
  <2>1. post[p].rejected \subseteq DOMAIN enqueued
    BY <1>1, <1>2 DEF QueueTyped, PostOfItsOwn
  <2>2. \A i \in DOMAIN enqueued : enqueued[i] \in Mutation
    BY QueueAssumption DEF QueueTyped
  <2>3. \A i \in DOMAIN enqueued : enqueued[i].message_id \in Messages
    BY <2>2 DEF Mutation
  <2> QED
    BY <1>2, <2>1, <2>3
<1> HIDE DEF rejected, more
<1>5. /\ flush' = [u \in Tabs |-> flush'[u]]
      /\ flush'[t] = [stage |-> "delete", rows |-> flush[t].rows, more |-> more,
                      rejected |-> rejected]
      /\ \A u \in Tabs : u # t => flush'[u] = flush[u]
  BY <1>1, Zenon DEF QueueTyped, Flushes
<1>6. ~Waits(t)' /\ Deletes(t)' /\ flush'[t].stage = "delete" /\ flush'[t].rows = flush[t].rows
  BY <1>5 DEF Waits, Deletes
<1>7. \A u \in Tabs : u # t => (Waits(u)' <=> Waits(u)) /\ (Deletes(u)' <=> Deletes(u))
  BY <1>5, Zenon DEF Waits, Deletes
<1>8. QueueTyped'
  <2>1. post' \in [Posts -> {Idle} \cup [todo : SUBSET DOMAIN enqueued,
                                         rejected : SUBSET DOMAIN enqueued]]
    BY <1>1 DEF QueueTyped
  <2>2. flush'[t] \in [stage : {"delete"}, rows : SUBSET DOMAIN enqueued,
                       more : BOOLEAN, rejected : SUBSET Messages]
    BY <1>2, <1>4, <1>5 DEF more
  <2>3. \A u \in Tabs :
          /\ Waits(u)' => flush'[u] \in [stage : {"wait"}, post : Posts,
                                         rows : SUBSET DOMAIN enqueued,
                                         rejected : SUBSET Messages]
          /\ Deletes(u)' => flush'[u] \in [stage : {"delete"}, rows : SUBSET DOMAIN enqueued,
                                           more : BOOLEAN, rejected : SUBSET Messages]
          /\ flush'[u] # Idle /\ flush'[u].stage \notin {"wait", "delete", "resync"} =>
               flush'[u].rejected \subseteq Messages
    BY <1>5, <1>6, <1>7, <2>2, Zenon DEF QueueTyped
  <2> QED
    BY <1>1, <1>5, <2>1, <2>3, Zenon DEF QueueTyped, Waits, Deletes
<1>9. PostOfItsOwn'
  <2>1. \A u \in Tabs : Waits(u)' =>
          /\ Waits(u) /\ flush'[u] = flush[u] /\ flush[u].post \in Posts /\ flush[u].post # p
    BY <1>1, <1>5, <1>6, <1>7 DEF PostOfItsOwn, QueueTyped
  <2>2. \A u \in Tabs : Waits(u)' => post'[flush[u].post] = post[flush[u].post]
    BY <1>1, <2>1 DEF QueueTyped
  <2>3. \A u \in Tabs : Waits(u)' =>
          /\ post'[flush'[u].post] # Idle
          /\ flush'[u].rows \subseteq answered' \cup post'[flush'[u].post].todo
    BY <1>1, <2>1, <2>2 DEF PostOfItsOwn
  <2>4. \A u, w \in Tabs : Waits(u)' /\ Waits(w)' /\ flush'[u].post = flush'[w].post => u = w
    BY <2>1 DEF PostOfItsOwn
  <2> QED
    BY <2>3, <2>4, Zenon DEF PostOfItsOwn, Waits
<1>10. DeletesAnswered' /\ NoMutationForgotten'
  <2>1. \A u \in Tabs : Deletes(u)' => flush'[u].rows \subseteq answered
    BY <1>3, <1>5, <1>6, <1>7 DEF DeletesAnswered
  <2> QED
    BY <1>1, <2>1 DEF DeletesAnswered, NoMutationForgotten, Deletes
<1> QED
  BY <1>8, <1>9, <1>10

\* An answered row leaves the queue.
LEMMA DeleteKeeps ==
  ASSUME QueueInv, NEW t \in Tabs, DeleteRow(t)
  PROVE  QueueInv'
<1> USE DEF QueueInv
<1>1. Deletes(t) /\ UNCHANGED <<post, enqueued, answered>>
  BY DEF DeleteRow, Deletes
<1>2. flush[t] \in [stage : {"delete"}, rows : SUBSET DOMAIN enqueued,
                    more : BOOLEAN, rejected : SUBSET Messages]
  BY <1>1 DEF QueueTyped
<1>3. CASE flush[t].rows = {}
  <2> DEFINE state == IF flush[t].more THEN [stage |-> "select", rejected |-> flush[t].rejected]
                      ELSE AfterLoop(flush[t].rejected)
  <2>1. \/ state = Idle
        \/ state = [stage |-> "select", rejected |-> flush[t].rejected]
        \/ state = [stage |-> "reconcile", rejected |-> flush[t].rejected]
    BY DEF AfterLoop
  <2>2. Flushes(t, state) /\ UNCHANGED sync_queue
    BY <1>3 DEF DeleteRow
  <2> HIDE DEF state
  <2>3. state.stage \notin {"wait", "delete"} /\ (state # Idle => state.rejected \subseteq Messages)
    BY <1>2, <2>1 DEF Idle
  <2>4. post' \in [Posts -> {Idle} \cup [todo : SUBSET DOMAIN enqueued,
                                         rejected : SUBSET DOMAIN enqueued]]
    BY <1>1 DEF QueueTyped
  <2> QED
    BY <1>1, <2>2, <2>3, <2>4, MovesOn
<1>4. CASE flush[t].rows # {}
  <2> DEFINE id == Min(flush[t].rows)
  <2>1. id \in flush[t].rows
    BY <1>2, <1>4, LeastNumber DEF QueueTyped
  <2>2. /\ sync_queue' = Restrict(sync_queue, DOMAIN sync_queue \ {id})
        /\ Flushes(t, [flush[t] EXCEPT !.rows = @ \ {id}])
    BY <1>4 DEF DeleteRow
  <2> HIDE DEF id
  <2>3. /\ flush' = [u \in Tabs |-> flush'[u]]
        /\ flush'[t] = [flush[t] EXCEPT !.rows = @ \ {id}]
        /\ \A u \in Tabs : u # t => flush'[u] = flush[u]
    BY <2>2, Zenon DEF QueueTyped, Flushes
  <2>4. /\ flush'[t] \in [stage : {"delete"}, rows : SUBSET DOMAIN enqueued,
                          more : BOOLEAN, rejected : SUBSET Messages]
        /\ flush'[t].rows \subseteq flush[t].rows
    BY <1>2, <2>3
  <2>5. ~Waits(t)' /\ Deletes(t)' /\ ~Waits(t) /\ flush'[t].stage = "delete"
    BY <1>1, <2>4 DEF Waits, Deletes
  <2>6. \A u \in Tabs : u # t => (Waits(u)' <=> Waits(u)) /\ (Deletes(u)' <=> Deletes(u))
    BY <2>3, Zenon DEF Waits, Deletes
  <2>7. QueueTyped'
    <3>1. \A u \in Tabs :
            /\ Waits(u)' => flush'[u] \in [stage : {"wait"}, post : Posts,
                                           rows : SUBSET DOMAIN enqueued,
                                           rejected : SUBSET Messages]
            /\ Deletes(u)' => flush'[u] \in [stage : {"delete"}, rows : SUBSET DOMAIN enqueued,
                                             more : BOOLEAN, rejected : SUBSET Messages]
            /\ flush'[u] # Idle /\ flush'[u].stage \notin {"wait", "delete", "resync"} =>
                 flush'[u].rejected \subseteq Messages
      BY <2>3, <2>4, <2>5, <2>6, Zenon DEF QueueTyped
    <3>2. DOMAIN sync_queue' \subseteq DOMAIN enqueued
      BY <2>2 DEF Restrict, QueueTyped
    <3> QED
      BY <1>1, <2>3, <3>1, <3>2, Zenon DEF QueueTyped, Waits, Deletes
  <2>8. PostOfItsOwn'
    <3>1. \A u \in Tabs : Waits(u)' => Waits(u) /\ flush'[u] = flush[u]
      BY <2>3, <2>5, <2>6
    <3> QED
      BY <1>1, <3>1, Zenon DEF PostOfItsOwn, Waits
  <2>9. DeletesAnswered'
    <3>1. \A u \in Tabs : Deletes(u)' => flush'[u].rows \subseteq answered
      BY <1>1, <2>3, <2>4, <2>6 DEF DeletesAnswered
    <3> QED
      BY <1>1, <3>1 DEF DeletesAnswered, Deletes
  <2>10. NoMutationForgotten'
    <3>1. id \in answered
      BY <1>1, <2>1 DEF DeletesAnswered
    <3>2. sync_queue = [i \in DOMAIN sync_queue |-> enqueued[i]]
      BY DEF NoMutationForgotten, Restrict
    <3>3. sync_queue' = [i \in DOMAIN sync_queue \ {id} |-> enqueued[i]]
      BY <2>2, <3>2 DEF Restrict
    <3> QED
      BY <1>1, <3>1, <3>3 DEF NoMutationForgotten, Restrict
  <2> QED
    BY <2>7, <2>8, <2>9, <2>10
<1> QED
  BY <1>3, <1>4

\* The steps of a flush around its POSTs only fetch rows or give up.
LEMMA FlushKeeps ==
  ASSUME QueueInv, NEW t \in Tabs,
         \/ LoseAnswer(t) \/ GetMessage(t) \/ GetMessageFails(t)
         \/ OverwriteLocal(t) \/ CloseTab(t)
  PROVE  QueueInv'
<1> USE DEF QueueInv
<1> DEFINE PostsTyped(ps) == ps \in [Posts -> {Idle} \cup [todo : SUBSET DOMAIN enqueued,
                                                           rejected : SUBSET DOMAIN enqueued]]
<1>1. PostsTyped(post)
  BY DEF QueueTyped
<1>2. UNCHANGED <<sync_queue, enqueued, answered>>
  BY DEF LoseAnswer, GetMessage, GetMessageFails, OverwriteLocal, CloseTab
<1>3. CASE LoseAnswer(t)
  <2> DEFINE state == AfterLoop(flush[t].rejected)
  <2>1. Waits(t) /\ Flushes(t, state)
    BY <1>3 DEF LoseAnswer, Waits
  <2>2. flush[t].post \in Posts /\ flush[t].rejected \subseteq Messages
    BY <2>1 DEF QueueTyped
  <2>3. state = Idle \/ state = [stage |-> "reconcile", rejected |-> flush[t].rejected]
    BY DEF AfterLoop
  <2> HIDE DEF state
  <2>4. state.stage \notin {"wait", "delete"} /\ (state # Idle => state.rejected \subseteq Messages)
    BY <2>2, <2>3 DEF Idle
  <2>5. post' = post \/ post' = [post EXCEPT ![flush[t].post] = Idle]
    BY <1>3 DEF LoseAnswer
  <2>6. PostsTyped(post') /\ \A p \in Posts : post'[p] = post[p] \/ (Waits(t) /\ flush[t].post = p)
    BY <1>1, <2>1, <2>2, <2>5
  <2> QED
    BY <1>2, <2>1, <2>4, <2>6, MovesOn
<1>4. CASE CloseTab(t)
  <2>1. Flushes(t, Idle) /\ Idle.stage \notin {"wait", "delete"}
    BY <1>4 DEF CloseTab, Idle
  <2>2. post' = [p \in Posts |-> IF flush[t].stage = "wait" /\ flush[t].post = p /\ post[p].todo = {}
                                 THEN Idle ELSE post[p]]
    BY <1>4 DEF CloseTab
  <2>3. PostsTyped(post') /\ \A p \in Posts : post'[p] = post[p] \/ (Waits(t) /\ flush[t].post = p)
    BY <1>1, <2>2 DEF Waits
  <2> QED
    BY <1>2, <2>1, <2>3, MovesOn
<1>5. ASSUME NEW STATE state, Flushes(t, state), UNCHANGED post,
             state.stage \notin {"wait", "delete"},
             state.stage # "resync" => state.rejected \subseteq Messages
      PROVE  QueueInv'
  <2>1. PostsTyped(post') /\ \A p \in Posts : post'[p] = post[p]
    BY <1>1, <1>5
  <2> QED
    BY <1>2, <1>5, <2>1, MovesOn
<1>6. flush[t] # Idle /\ flush[t].stage \in {"reconcile", "overwrite"} =>
        flush[t].rejected \subseteq Messages
  BY DEF QueueTyped
<1>7. ASSUME NEW rejected \in SUBSET Messages
      PROVE  LET state == Reconciled(rejected) IN
             /\ state.stage \notin {"wait", "delete"}
             /\ state.stage # "resync" => state.rejected \subseteq Messages
  BY DEF Reconciled
<1>8. CASE GetMessage(t)
  <2>1. PICK m \in flush[t].rejected :
          Flushes(t, [stage |-> "overwrite", message_id |-> m, row |-> messages[m],
                      rejected |-> flush[t].rejected \ {m}])
    BY <1>8 DEF GetMessage
  <2>2. flush[t].rejected \subseteq Messages /\ UNCHANGED post
    BY <1>6, <1>8 DEF GetMessage
  <2> QED
    BY <1>5, <2>1, <2>2
<1>9. CASE GetMessageFails(t)
  <2>1. PICK m \in flush[t].rejected : Flushes(t, Reconciled(flush[t].rejected \ {m}))
    BY <1>9 DEF GetMessageFails
  <2>2. flush[t].rejected \ {m} \in SUBSET Messages /\ UNCHANGED post
    BY <1>6, <1>9 DEF GetMessageFails
  <2> QED
    BY <1>5, <1>7, <2>1, <2>2
<1>10. CASE OverwriteLocal(t)
  <2>1. /\ Flushes(t, Reconciled(flush[t].rejected)) /\ UNCHANGED post
        /\ flush[t].rejected \in SUBSET Messages
    BY <1>6, <1>10 DEF OverwriteLocal
  <2> QED
    BY <1>5, <1>7, <2>1
<1> QED
  BY <1>3, <1>4, <1>8, <1>9, <1>10

\* A delta run only says whether a flush begins or ends.
LEMMA SyncKeeps ==
  ASSUME QueueInv, NEW t \in Tabs, Sync(t) \/ AbortSync(t)
  PROVE  QueueInv'
<1> USE DEF QueueInv
<1> DEFINE PostsTyped(ps) == ps \in [Posts -> {Idle} \cup [todo : SUBSET DOMAIN enqueued,
                                                           rejected : SUBSET DOMAIN enqueued]]
<1>1. PostsTyped(post)
  BY DEF QueueTyped
<1>2. UNCHANGED <<sync_queue, post, enqueued, answered>>
  BY DEF Sync, AbortSync, StartSync, AskDeltaAgain, FinishSync, queueVars
<1>3. \/ UNCHANGED flush
      \/ Flushes(t, flush[t])
      \/ Flushes(t, Idle)
      \/ Flushes(t, [stage |-> "select", rejected |-> {}])
  BY DEF Sync, AbortSync, StartSync, AskDeltaAgain, FinishSync, queueVars
<1>4. CASE UNCHANGED flush \/ Flushes(t, flush[t])
  <2>1. UNCHANGED flush
    BY <1>4, Zenon DEF QueueTyped, Flushes
  <2> QED
    BY <1>2, <2>1, Zenon DEF QueueTyped, NoMutationForgotten, PostOfItsOwn, DeletesAnswered,
       Waits, Deletes
<1>5. ASSUME NEW STATE state, Flushes(t, state),
             state = Idle \/ state = [stage |-> "select", rejected |-> {}]
      PROVE  QueueInv'
  <2>1. state.stage \notin {"wait", "delete"} /\ (state # Idle => state.rejected \subseteq Messages)
    BY <1>5 DEF Idle
  <2>2. PostsTyped(post') /\ \A p \in Posts : post'[p] = post[p]
    BY <1>1, <1>2
  <2> QED
    BY <1>2, <1>5, <2>1, <2>2, MovesOn
<1> QED
  BY <1>3, <1>4, <1>5

\* Server commits and everything else that leaves the queue alone.
LEMMA ElsewhereKeeps == ASSUME QueueInv, UNCHANGED queueVars PROVE QueueInv'
  BY Zenon DEF QueueInv, QueueTyped, NoMutationForgotten, PostOfItsOwn, DeletesAnswered,
     Waits, Deletes, queueVars

\* A click is in the queue until the worker has answered it: however POSTs overlap, whether
\* their answers arrive, wherever tabs are closed and whatever the server commits.
THEOREM ClicksAreKept == QSpec => []NoMutationForgotten
<1>1. QInit => QueueInv
  BY QueueInit
<1>2. QueueInv /\ [QNext]_qVars => QueueInv'
  <2> SUFFICES ASSUME QueueInv, [QNext]_qVars PROVE QueueInv'
    OBVIOUS
  <2>1. CASE UNCHANGED qVars
    BY <2>1, ElsewhereKeeps DEF qVars
  <2>2. CASE (Server \/ Settle) /\ UNCHANGED queueVars
    BY <2>2, ElsewhereKeeps
  <2>3. CASE EnqueueMutation
    BY <2>3, EnqueueKeeps
  <2>4. ASSUME NEW p \in Posts, ProcessMutation(p) PROVE QueueInv'
    BY <2>4, ProcessKeeps
  <2>5. ASSUME NEW t \in Tabs, Sync(t) PROVE QueueInv'
    BY <2>5, SyncKeeps
  <2>6. ASSUME NEW t \in Tabs, Flush(t) PROVE QueueInv'
    BY <2>6, PostKeeps, AnswerKeeps, DeleteKeeps, FlushKeeps DEF Flush
  <2>7. ASSUME NEW t \in Tabs, Trouble(t) PROVE QueueInv'
    BY <2>7, SyncKeeps, FlushKeeps DEF Trouble
  <2> QED
    BY <2>1, <2>2, <2>3, <2>4, <2>5, <2>6, <2>7 DEF QNext
<1>3. QueueInv => NoMutationForgotten
  BY DEF QueueInv
<1> QED
  BY <1>1, <1>2, <1>3, PTL DEF QSpec

-----------------------------------------------------------------------------
(* What rows show while clicks are under way.  Field by field, the local   *)
(* table is one for which EngineInv stands, or shows a click that still    *)
(* waits: in the queue, or for the row that its flush will fetch.  When an *)
(* accepted click leaves the queue, the server had its value at or after   *)
(* the persisted cursor, and that other table can take the value over.     *)

\* A tab is synchronising.
Busy(t) == run[t] # Idle \/ flush[t] # Idle
OneBusy == \A t, u \in Tabs : Busy(t) /\ Busy(u) => t = u

\* What a mutation sets.
Fields == Flags \cup {"move"}
Field(row, type) == IF type = "move" THEN row.folder_id ELSE row.flags[type]

\* A click for it is in the queue.
Pending(m, type, value) ==
  \E id \in DOMAIN sync_queue :
    sync_queue[id] = [mutation_type |-> type, message_id |-> m, mutation_value |-> value]

Excused(m, type, value) ==
  m \in unreconciled \/ ToBeReconciled(m) \/ Pending(m, type, value)

\* The local table is L but for clicks.
ButForClicks(L) ==
  \A m \in Messages :
    /\ local[m] = Absent <=> L[m] = Absent
    /\ local[m] # Absent =>
         \A type \in Fields : \/ Field(local[m], type) = Field(L[m], type)
                              \/ Excused(m, type, Field(local[m], type))

\* `row` is what the server had for message m at or after the persisted cursor.
ServerHad(m, row) ==
  /\ m \in Messages /\ row \in Row \cup {Absent}
  /\ NoGap(last_sync_version) => Agrees(m, row, messages[m], Later(last_sync_version))
  /\ row # Absent => Shows(m, row, last_sync_version)

\* The worker has answered click `id` with ok: at or after the persisted cursor the server
\* had a row with its value, because the worker committed it or found it there.
Settled(id) ==
  \E row \in Row :
    /\ ServerHad(enqueued[id].message_id, row)
    /\ Field(row, enqueued[id].mutation_type) = enqueued[id].mutation_value

\* `old` with what `row` says of one field; a move brings its retention stamp.
Merged(old, row, type) ==
  IF type = "move"
  THEN [old EXCEPT !.folder_id = row.folder_id, !.folder_entered_at = row.folder_entered_at]
  ELSE [old EXCEPT !.flags = [@ EXCEPT ![type] = row.flags[type]]]

\* What a flush of tab t is doing; its runs are over or yet to come.
Flushing(t) == flush[t] # Idle /\ flush[t].stage # "resync"

FlushSound(t) ==
  Flushing(t) =>
    /\ run[t] = Idle
    /\ flush[t].stage = "wait" =>
         \A id \in flush[t].rows :
           \/ id \in post[flush[t].post].todo \cup post[flush[t].post].rejected
           \/ Settled(id)
    /\ flush[t].stage = "delete" =>
         \A id \in flush[t].rows : Settled(id) \/ enqueued[id].message_id \in flush[t].rejected
    /\ flush[t].stage = "overwrite" => ServerHad(flush[t].message_id, flush[t].row)

ClickInv ==
  /\ QueueInv
  /\ local \in Table
  /\ \A t \in Tabs : FlushSound(t)
  /\ \E L : EngineInv(L) /\ ButForClicks(L)

-----------------------------------------------------------------------------
(* Clicks and rows                                                         *)

\* The event of a click speaks of what the click is about.
LEMMA ClickEvent ==
  ASSUME NEW mutation \in Mutation
  PROVE  LET e == EventOf(mutation) IN
         /\ mutation.message_id \in Messages /\ mutation.mutation_type \in Fields
         /\ e \in Event /\ e.message_id = mutation.message_id
         /\ e.event_type = IF mutation.mutation_type = "move" THEN "message_moved"
                           ELSE "message_updated"
         /\ mutation.mutation_type = "move" =>
              mutation.mutation_value \in Folders /\ e.folder_id = mutation.mutation_value
         /\ mutation.mutation_type # "move" =>
              /\ mutation.mutation_type \in Flags /\ mutation.mutation_value \in BOOLEAN
              /\ e.flag = mutation.mutation_type /\ e.value = mutation.mutation_value
<1>1. CASE mutation \in [mutation_type : Flags, message_id : Messages, mutation_value : BOOLEAN]
  <2>1. mutation.mutation_type # "move"
    BY <1>1, QueueAssumption
  <2>2. EventOf(mutation) =
          [event_type |-> "message_updated", message_id |-> mutation.message_id,
           flag |-> mutation.mutation_type, value |-> mutation.mutation_value, created_at |-> 0]
    BY <2>1 DEF EventOf
  <2>3. EventOf(mutation) \in UpdatedEvent
    BY <1>1, <2>2 DEF UpdatedEvent
  <2> QED
    BY <1>1, <2>1, <2>2, <2>3 DEF Event, Fields
<1>2. CASE mutation \in [mutation_type : {"move"}, message_id : Messages, mutation_value : Folders]
  <2>1. EventOf(mutation) =
          [event_type |-> "message_moved", message_id |-> mutation.message_id,
           folder_id |-> mutation.mutation_value,
           folder_entered_at |-> EnteredAt(mutation.mutation_value, 0), created_at |-> 0]
    BY <1>2 DEF EventOf
  <2>2. EnteredAt(mutation.mutation_value, 0) \in Nat \cup {Null}
    BY DEF EnteredAt
  <2>3. EventOf(mutation) \in MovedEvent
    BY <1>2, <2>1, <2>2 DEF MovedEvent
  <2> QED
    BY <1>2, <2>1, <2>3 DEF Event, Fields
<1> QED
  BY <1>1, <1>2 DEF Mutation

LEMMA EnqueuedMutations ==
  ASSUME QueueTyped
  PROVE  \A id \in DOMAIN enqueued : enqueued[id] \in Mutation
BY QueueAssumption DEF QueueTyped

\* What an event does to one field it does in any row.
LEMMA AppliedField ==
  ASSUME NEW r \in Row \cup {Absent}, NEW q \in Row \cup {Absent}, r = Absent <=> q = Absent,
         NEW v \in Nat, NEW e \in Event,
         NEW r2, r2 = ApplySyncEvent(r, v, e), NEW q2, q2 = ApplySyncEvent(q, v, e)
  PROVE  /\ r2 \in Row \cup {Absent} /\ (r2 = Absent <=> q2 = Absent)
         /\ r2 # Absent =>
              \A type \in Fields : \/ Field(r2, type) = Field(q2, type)
                                   \/ /\ Field(r2, type) = Field(r, type)
                                      /\ Field(q2, type) = Field(q, type)
<1>1. r2 \in Row \cup {Absent}
  BY AppliedRow
<1>2. e.event_type \in {"message_created", "message_deleted", "message_updated", "message_moved"}
  BY EventKinds
<1>3. CASE e.event_type \in {"message_created", "message_deleted"}
  <2>1. r2 = q2
    BY <1>3, AppliedRow
  <2> QED
    BY <1>1, <2>1
<1>4. CASE e.event_type = "message_updated"
  <2>1. (r = Absent <=> r2 = Absent) /\ (q = Absent <=> q2 = Absent)
    BY <1>4, AppliedRow
  <2>2. r # Absent => /\ \A flag \in Flags :
                           r2.flags[flag] = IF flag = e.flag THEN e.value ELSE r.flags[flag]
                      /\ r2.folder_id = r.folder_id
    BY <1>4, AppliedRow
  <2>3. q # Absent => /\ \A flag \in Flags :
                           q2.flags[flag] = IF flag = e.flag THEN e.value ELSE q.flags[flag]
                      /\ q2.folder_id = q.folder_id
    BY <1>4, AppliedRow
  <2> QED
    BY <1>1, <2>1, <2>2, <2>3, QueueAssumption DEF Fields, Field
<1>5. CASE e.event_type = "message_moved"
  <2>1. (r = Absent <=> r2 = Absent) /\ (q = Absent <=> q2 = Absent)
    BY <1>5, AppliedRow
  <2>2. r # Absent => (\A flag \in Flags : r2.flags[flag] = r.flags[flag]) /\ r2.folder_id = e.folder_id
    BY <1>5, AppliedRow
  <2>3. q # Absent => (\A flag \in Flags : q2.flags[flag] = q.flags[flag]) /\ q2.folder_id = e.folder_id
    BY <1>5, AppliedRow
  <2> QED
    BY <1>1, <2>1, <2>2, <2>3, QueueAssumption DEF Fields, Field
<1> QED
  BY <1>2, <1>3, <1>4, <1>5

\* The event of a click sets the field of the click and no other.
LEMMA ClickApplied ==
  ASSUME NEW mutation \in Mutation, NEW row \in Row, NEW v \in Nat,
         NEW after, after = ApplySyncEvent(row, v, EventOf(mutation))
  PROVE  /\ after \in Row
         /\ \A type \in Fields :
              Field(after, type) = IF type = mutation.mutation_type THEN mutation.mutation_value
                                   ELSE Field(row, type)
<1>1. PICK e : e = EventOf(mutation)
  OBVIOUS
<1>2. e \in Event /\ row # Absent
  BY <1>1, ClickEvent, AbsentAssumption
<1>3. CASE mutation.mutation_type = "move"
  <2>1. e.event_type = "message_moved" /\ e.folder_id = mutation.mutation_value
    BY <1>1, <1>3, ClickEvent
  <2>2. /\ after \in Row \cup {Absent} /\ after # Absent
        /\ \A flag \in Flags : after.flags[flag] = row.flags[flag]
        /\ after.folder_id = e.folder_id
    BY <1>1, <1>2, <2>1, AppliedRow
  <2> QED
    BY <1>3, <2>1, <2>2, QueueAssumption DEF Fields, Field
<1>4. CASE mutation.mutation_type # "move"
  <2>1. /\ e.event_type = "message_updated" /\ e.flag = mutation.mutation_type
        /\ e.value = mutation.mutation_value
    BY <1>1, <1>4, ClickEvent
  <2>2. /\ after \in Row \cup {Absent} /\ after # Absent
        /\ \A flag \in Flags : after.flags[flag] = IF flag = e.flag THEN e.value ELSE row.flags[flag]
        /\ after.folder_id = row.folder_id
    BY <1>1, <1>2, <2>1, AppliedRow
  <2> QED
    BY <1>4, <2>1, <2>2, QueueAssumption DEF Fields, Field
<1> QED
  BY <1>3, <1>4

\* So does its optimistic write.
LEMMA ClickWritten ==
  ASSUME NEW mutation \in Mutation, NEW row \in Row,
         NEW after, after = Optimistic(row, mutation)
  PROVE  /\ after \in Row
         /\ \A type \in Fields :
              Field(after, type) = IF type = mutation.mutation_type THEN mutation.mutation_value
                                   ELSE Field(row, type)
<1>1. row # Absent
  BY AbsentAssumption
<1>2. CASE mutation.mutation_type = "move"
  <2>1. PICK stamp : stamp = IF mutation.mutation_value \in local_folders
                             THEN EnteredAt(mutation.mutation_value, BrowserNow) ELSE Null
    OBVIOUS
  <2>2. after = [row EXCEPT !.folder_id = mutation.mutation_value, !.folder_entered_at = stamp]
    BY <1>1, <1>2, <2>1 DEF Optimistic
  <2>3. stamp \in Nat \cup {Null} /\ mutation.mutation_value \in Folders
    BY <1>2, <2>1, ClickEvent DEF EnteredAt, BrowserNow
  <2> QED
    BY <1>2, <2>2, <2>3, QueueAssumption DEF Row, Fields, Field
<1>3. CASE mutation.mutation_type # "move"
  <2>1. after = [row EXCEPT !.flags =
                   [row.flags EXCEPT ![mutation.mutation_type] = mutation.mutation_value]]
    BY <1>1, <1>3 DEF Optimistic
  <2>2. mutation.mutation_type \in Flags /\ mutation.mutation_value \in BOOLEAN
    BY <1>3, ClickEvent
  <2>3. PICK flags : flags = [row.flags EXCEPT ![mutation.mutation_type] = mutation.mutation_value]
    OBVIOUS
  <2>4. /\ flags \in [Flags -> BOOLEAN]
        /\ \A flag \in Flags :
             flags[flag] = IF flag = mutation.mutation_type THEN mutation.mutation_value
                           ELSE row.flags[flag]
    BY <2>2, <2>3 DEF Row
  <2>5. after = [row EXCEPT !.flags = flags]
    BY <2>1, <2>3
  <2>6. after \in Row /\ after.flags = flags /\ after.folder_id = row.folder_id
    BY <2>4, <2>5 DEF Row
  <2> QED
    BY <1>3, <2>2, <2>4, <2>6, QueueAssumption DEF Fields, Field
<1> QED
  BY <1>2, <1>3

\* Between runs a row can be written over when it is one that the server had for its
\* message at or after the persisted cursor.
LEMMA RowWritten ==
  ASSUME NEW L, EngineInv(L), \A u \in Tabs : run[u] = Idle,
         NEW m \in Messages, NEW row \in Row \cup {Absent},
         ~unsignalled /\ NoGap(last_sync_version) =>
           Agrees(m, row, messages[m], Later(last_sync_version)),
         ~unsignalled /\ row # Absent => Shows(m, row, last_sync_version),
         NEW L2, L2 = [L EXCEPT ![m] = row]
  PROVE  EngineInv(L2)
<1>1. /\ ProgressInv /\ L \in Table /\ RestAgrees(L) /\ NotStale(L)
  BY DEF EngineInv, TableInv, StaleInv
<1>2. /\ L2 \in Table /\ L2[m] = row /\ \A n \in Messages \ {m} : L2[n] = L[n]
  BY <1>1 DEF Table
<1>3. RestAgrees(L2)
  BY <1>1, <1>2 DEF RestAgrees
<1>4. NotStale(L2)
  BY <1>1, <1>2 DEF NotStale
<1>5. ASSUME NEW u \in Tabs
      PROVE  /\ ReplayAgrees(L2, u) /\ EndAgrees(L2, u) /\ ResyncAgrees(L2, u)
             /\ CopiesShown(L2, u) /\ LocalAlive(L2, u)
  <2>1. run[u].stage = "idle"
    BY DEF Idle
  <2> QED
    BY <2>1 DEF ReplayAgrees, EndAgrees, ResyncAgrees, CopiesShown, LocalAlive, Replays, Reports
<1> QED
  BY <1>1, <1>2, <1>3, <1>4, <1>5 DEF EngineInv, TableInv, StaleInv

\* Merging brings over one field.
LEMMA MergedFlags ==
  ASSUME NEW old \in Row, NEW row \in Row, NEW type0 \in Fields
  PROVE  LET new == Merged(old, row, type0) IN
         /\ new \in Row /\ new.sync_version = old.sync_version
         /\ \A flag \in Flags :
              new.flags[flag] = IF flag = type0 THEN row.flags[flag] ELSE old.flags[flag]
<1>1. PICK new : new = Merged(old, row, type0)
  OBVIOUS
<1>2. CASE type0 = "move"
  <2>1. new = [old EXCEPT !.folder_id = row.folder_id, !.folder_entered_at = row.folder_entered_at]
    BY <1>1, <1>2 DEF Merged
  <2> QED
    BY <1>1, <1>2, <2>1, QueueAssumption DEF Row
<1>3. CASE type0 # "move"
  <2>1. PICK flags : flags = [old.flags EXCEPT ![type0] = row.flags[type0]]
    OBVIOUS
  <2>2. new = [old EXCEPT !.flags = flags]
    BY <1>1, <1>3, <2>1 DEF Merged
  <2>3. /\ flags \in [Flags -> BOOLEAN]
        /\ \A flag \in Flags : flags[flag] = IF flag = type0 THEN row.flags[flag] ELSE old.flags[flag]
    BY <1>3, <2>1 DEF Row, Fields
  <2>4. new \in Row /\ new.sync_version = old.sync_version /\ new.flags = flags
    BY <2>2, <2>3 DEF Row
  <2> QED
    BY <1>1, <2>3, <2>4
<1> QED
  BY <1>2, <1>3

LEMMA MergedFolder ==
  ASSUME NEW old \in Row, NEW row \in Row, NEW type0 \in Fields
  PROVE  LET new == Merged(old, row, type0) IN
         /\ type0 = "move" =>
              new.folder_id = row.folder_id /\ new.folder_entered_at = row.folder_entered_at
         /\ type0 # "move" =>
              new.folder_id = old.folder_id /\ new.folder_entered_at = old.folder_entered_at
BY DEF Merged, Row

\* So one field of a row can be written over with that of a row the server had.
LEMMA FieldWritten ==
  ASSUME NEW L, EngineInv(L), \A u \in Tabs : run[u] = Idle,
         NEW m, NEW row \in Row, ServerHad(m, row), L[m] # Absent,
         NEW type0 \in Fields, NEW L2, L2 = [L EXCEPT ![m] = Merged(L[m], row, type0)]
  PROVE  EngineInv(L2)
<1>1. /\ L \in Table /\ RestAgrees(L) /\ NotStale(L) /\ m \in Messages
  BY DEF EngineInv, TableInv, StaleInv, ServerHad
<1>2. PICK old \in Row : old = L[m]
  BY <1>1 DEF Table
<1>3. PICK new : new = Merged(old, row, type0)
  OBVIOUS
<1>4. /\ new \in Row /\ new.sync_version = old.sync_version
      /\ \A flag \in Flags :
           new.flags[flag] = IF flag = type0 THEN row.flags[flag] ELSE old.flags[flag]
  BY <1>3, MergedFlags
<1>5. /\ type0 = "move" =>
           new.folder_id = row.folder_id /\ new.folder_entered_at = row.folder_entered_at
      /\ type0 # "move" =>
           new.folder_id = old.folder_id /\ new.folder_entered_at = old.folder_entered_at
  BY <1>3, MergedFolder
<1>6. /\ L2 = [L EXCEPT ![m] = new] /\ new \in Row \cup {Absent}
      /\ new # Absent /\ old # Absent /\ row # Absent
  BY <1>2, <1>3, <1>4, AbsentAssumption
<1>7. ASSUME ~unsignalled, NoGap(last_sync_version)
      PROVE  Agrees(m, new, messages[m], Later(last_sync_version))
  <2>1. PICK shown, log : shown = messages[m] /\ log = Later(last_sync_version)
    OBVIOUS
  <2>2. Agrees(m, old, shown, log)
    BY <1>1, <1>2, <1>7, <2>1 DEF RestAgrees
  <2>3. Agrees(m, row, shown, log)
    BY <1>7, <2>1 DEF ServerHad
  <2>4. Agrees(m, new, shown, log)
    <3>1. (\A v \in DOMAIN log : ~OnRow(log[v], m)) => (new = Absent <=> shown = Absent)
      BY <1>6, <2>2 DEF Agrees
    <3>2. ASSUME shown # Absent, NEW flag \in Flags, \A v \in DOMAIN log : ~OnFlag(log[v], m, flag)
          PROVE  new.flags[flag] = shown.flags[flag]
      BY <1>4, <1>6, <2>2, <2>3, <3>2 DEF Agrees
    <3>3. ASSUME shown # Absent, \A v \in DOMAIN log : ~OnFolder(log[v], m)
          PROVE  new.folder_id = shown.folder_id /\ new.folder_entered_at = shown.folder_entered_at
      BY <1>5, <1>6, <2>2, <2>3, <3>3 DEF Agrees
    <3>4. ASSUME shown # Absent, \A v \in DOMAIN log : log[v].message_id # m
          PROVE  new.sync_version = shown.sync_version
      BY <1>4, <1>6, <2>2, <3>4 DEF Agrees
    <3> QED
      BY <3>1, <3>2, <3>3, <3>4 DEF Agrees
  <2> QED
    BY <2>1, <2>4
<1>8. ASSUME ~unsignalled
      PROVE  Shows(m, new, last_sync_version)
  <2>1. Shows(m, old, last_sync_version)
    BY <1>1, <1>2, <1>6, <1>8 DEF NotStale
  <2>2. Shows(m, row, last_sync_version)
    BY <1>6 DEF ServerHad
  <2> QED
    <3>1. ASSUME NEW flag \in Flags
          PROVE  \E s \in last_sync_version..last_version :
                   history[s][m] # Absent /\ history[s][m].flags[flag] = new.flags[flag]
      BY <1>4, <2>1, <2>2 DEF Shows
    <3>2. \E s \in last_sync_version..last_version :
            /\ history[s][m] # Absent
            /\ history[s][m].folder_id = new.folder_id
            /\ history[s][m].folder_entered_at = new.folder_entered_at
      BY <1>5, <2>1, <2>2 DEF Shows
    <3> QED
      BY <3>1, <3>2 DEF Shows
<1> QED
  BY <1>1, <1>6, <1>7, <1>8, RowWritten

\* What the server had it had, and may still be written.
LEMMA HadStays ==
  ASSUME ProgressInv, ServerMoves, UNCHANGED last_sync_version,
         NEW m, NEW row, ServerHad(m, row)
  PROVE  ServerHad(m, row)'
<1>1. ServerInv /\ last_sync_version \in 0..last_version /\ last_sync_version \in Nat
  BY DEF ProgressInv, ClientTyped, ServerInv, HistoryTyped
<1>2. PICK c \in 0..last_version : c = last_sync_version /\ c \in Nat
  BY <1>1
<1>3. m \in Messages /\ row \in Row \cup {Absent}
  BY DEF ServerHad
<1>4. NoGap(c) => Agrees(m, row, messages[m], Later(c))
  BY <1>2 DEF ServerHad
<1>5. NoGap(c)' => Agrees(m, row, messages'[m], Later(c)')
  BY <1>1, <1>3, <1>4, MoveAgreesLater
<1>6. row # Absent => Shows(m, row, c)'
  BY <1>1, <1>2, <1>3, MoveShows DEF ServerHad
<1>7. c = last_sync_version'
  BY <1>2
<1> QED
  BY <1>3, <1>5, <1>6, <1>7 DEF ServerHad, NoGap, Later

\* A click settled stays settled while the persisted cursor stands.
LEMMA SettledStays ==
  ASSUME ProgressInv, ServerMoves, UNCHANGED last_sync_version,
         NEW id, enqueued'[id] = enqueued[id], Settled(id)
  PROVE  Settled(id)'
<1>1. PICK mutation : mutation = enqueued[id] /\ mutation = enqueued'[id]
  OBVIOUS
<1>2. PICK row \in Row : ServerHad(mutation.message_id, row)
                         /\ Field(row, mutation.mutation_type) = mutation.mutation_value
  BY <1>1 DEF Settled
<1>3. PICK m : m = mutation.message_id
  OBVIOUS
<1>4. ServerHad(m, row)'
  BY <1>2, <1>3, HadStays
<1>5. Field(row, mutation.mutation_type)' = mutation.mutation_value
  BY <1>2 DEF Field
<1> QED
  BY <1>1, <1>2, <1>3, <1>4, <1>5 DEF Settled, Field

\* The excuses that are no clicks in the queue last.
ReconcilingLasts ==
  \A m \in Messages : m \in unreconciled \/ ToBeReconciled(m) =>
    m \in unreconciled' \/ ToBeReconciled(m)'

\* It is enough that every field agrees, waits in the queue or has another excuse.
LEMMA ExcusesLast ==
  ASSUME NEW L, NEW K, K = local', ReconcilingLasts,
         \A m \in Messages :
           /\ K[m] = Absent <=> L[m] = Absent
           /\ K[m] # Absent =>
                \A type \in Fields : \/ Field(K[m], type) = Field(L[m], type)
                                     \/ m \in unreconciled \/ ToBeReconciled(m)
                                     \/ Pending(m, type, Field(K[m], type))'
  PROVE  ButForClicks(L)'
<1>1. ASSUME NEW m \in Messages, NEW type \in Fields,
             \/ m \in unreconciled \/ ToBeReconciled(m)
             \/ Pending(m, type, Field(K[m], type))'
      PROVE  Excused(m, type, Field(K[m], type))'
  BY <1>1 DEF Excused, ReconcilingLasts
<1>2. \A m \in Messages :
        /\ K[m] = Absent <=> L[m] = Absent
        /\ K[m] # Absent =>
             \A type \in Fields : \/ Field(K[m], type) = Field(L[m], type)
                                  \/ Excused(m, type, Field(K[m], type))'
  BY <1>1
<1> QED
  BY <1>2 DEF ButForClicks

\* While the queue stands so do the clicks in it.
LEMMA PendingStays ==
  ASSUME UNCHANGED sync_queue, NEW m, NEW type, NEW value, Excused(m, type, value)
  PROVE  m \in unreconciled \/ ToBeReconciled(m) \/ Pending(m, type, value)'
BY DEF Excused, Pending

\* The rows stand, and so do their excuses.
LEMMA ClicksStill ==
  ASSUME NEW L, ButForClicks(L), UNCHANGED <<local, sync_queue>>, ReconcilingLasts
  PROVE  ButForClicks(L)'
<1>1. PICK K : K = local /\ K = local'
  OBVIOUS
<1>2. \A m \in Messages :
        /\ K[m] = Absent <=> L[m] = Absent
        /\ K[m] # Absent =>
             \A type \in Fields : \/ Field(K[m], type) = Field(L[m], type)
                                  \/ Excused(m, type, Field(K[m], type))
  BY <1>1 DEF ButForClicks
<1>3. ASSUME NEW m \in Messages, NEW type, Excused(m, type, Field(K[m], type))
      PROVE  \/ m \in unreconciled \/ ToBeReconciled(m)
             \/ Pending(m, type, Field(K[m], type))'
  <2>1. PICK value : value = Field(K[m], type)
    OBVIOUS
  <2> QED
    BY <1>3, <2>1, PendingStays
<1> QED
  BY <1>1, <1>2, <1>3, ExcusesLast

\* What a run does it does to both tables.
LEMMA ClicksMirrored ==
  ASSUME NEW L, L \in Table, local \in Table, ButForClicks(L),
         NEW K2, K2 = local', NEW L2, Mirrored(L, L2, local, K2),
         UNCHANGED sync_queue, ReconcilingLasts
  PROVE  local' \in Table /\ ButForClicks(L2)'
<1>1. ASSUME NEW m \in Messages
      PROVE  /\ K2[m] = Absent <=> L2[m] = Absent
             /\ K2[m] # Absent =>
                  \A type \in Fields : \/ Field(K2[m], type) = Field(L2[m], type)
                                       \/ Excused(m, type, Field(K2[m], type))
  <2>1. PICK r \in Row \cup {Absent}, q \in Row \cup {Absent} : r = local[m] /\ q = L[m]
    BY DEF Table
  <2>2. /\ r = Absent <=> q = Absent
        /\ r # Absent => \A type \in Fields : \/ Field(r, type) = Field(q, type)
                                              \/ Excused(m, type, Field(r, type))
    BY <2>1 DEF ButForClicks
  <2>3. CASE L2 = L /\ K2 = local
    BY <2>1, <2>2, <2>3
  <2>4. CASE L2 = NoRow /\ K2 = NoRow
    BY <2>4 DEF NoRow
  <2>5. CASE \E page \in Page : L2 = Overlaid(L, page) /\ K2 = Overlaid(local, page)
    BY <2>1, <2>2, <2>5 DEF Overlaid
  <2>6. ASSUME NEW v \in Nat, NEW e \in Event, L2 = Applied(L, v, e), K2 = Applied(local, v, e)
        PROVE  /\ K2[m] = Absent <=> L2[m] = Absent
               /\ K2[m] # Absent =>
                    \A type \in Fields : \/ Field(K2[m], type) = Field(L2[m], type)
                                         \/ Excused(m, type, Field(K2[m], type))
    <3>1. CASE e.message_id # m
      <4>1. K2[m] = r /\ L2[m] = q
        BY <2>1, <2>6, <3>1 DEF Applied, Table
      <4> QED
        BY <2>2, <4>1
    <3>2. CASE e.message_id = m
      <4>1. PICK r2, q2 : r2 = ApplySyncEvent(r, v, e) /\ q2 = ApplySyncEvent(q, v, e)
        OBVIOUS
      <4>2. K2[m] = r2 /\ L2[m] = q2
        BY <2>1, <2>6, <3>2, <4>1 DEF Applied, Table
      <4>3. /\ r2 = Absent <=> q2 = Absent
            /\ r2 # Absent =>
                 \A type \in Fields : \/ Field(r2, type) = Field(q2, type)
                                      \/ /\ Field(r2, type) = Field(r, type)
                                         /\ Field(q2, type) = Field(q, type)
        BY <2>2, <4>1, AppliedField
      <4>4. r2 # Absent /\ r = Absent => r2 = q2
        <5>1. r = Absent => q = r
          BY <2>2
        <5> QED
          BY <4>1, <5>1
      <4>5. ASSUME r2 # Absent, NEW type \in Fields
            PROVE  Field(r2, type) = Field(q2, type) \/ Excused(m, type, Field(r2, type))
        <5>1. CASE r = Absent
          BY <4>4, <4>5, <5>1
        <5>2. CASE r # Absent
          BY <2>2, <4>3, <4>5, <5>2
        <5> QED
          BY <5>1, <5>2
      <4> QED
        BY <4>2, <4>3, <4>5
    <3> QED
      BY <3>1, <3>2
  <2> QED
    BY <2>3, <2>4, <2>5, <2>6 DEF Mirrored
<1>2. K2 \in Table
  <2>1. CASE K2 = local \/ K2 = NoRow
    BY <2>1 DEF NoRow, Table
  <2>2. ASSUME NEW page \in Page, K2 = Overlaid(local, page)
        PROVE  K2 \in Table
    <3>1. \A m \in DOMAIN page : page[m] \in Row
      BY DEF Page
    <3> QED
      BY <2>2, <3>1 DEF Overlaid, Table
  <2>3. ASSUME NEW v \in Nat, NEW e \in Event, K2 = Applied(local, v, e)
        PROVE  K2 \in Table
    <3>1. e.message_id \in Messages
      BY EventKinds
    <3>2. PICK after : after = ApplySyncEvent(local[e.message_id], v, e)
      OBVIOUS
    <3>3. local[e.message_id] \in Row \cup {Absent}
      BY <3>1 DEF Table
    <3>4. after \in Row \cup {Absent}
      BY <3>2, <3>3, AppliedRow
    <3>5. K2 = [local EXCEPT ![e.message_id] = after]
      BY <2>3, <3>2 DEF Applied
    <3> QED
      BY <3>4, <3>5 DEF Table
  <2> QED
    BY <2>1, <2>2, <2>3 DEF Mirrored
<1>3. ASSUME NEW m \in Messages, NEW type, Excused(m, type, Field(K2[m], type))
      PROVE  \/ m \in unreconciled \/ ToBeReconciled(m)
             \/ Pending(m, type, Field(K2[m], type))'
  <2>1. PICK value : value = Field(K2[m], type)
    OBVIOUS
  <2> QED
    BY <1>3, <2>1, PendingStays
<1> QED
  BY <1>1, <1>2, <1>3, ExcusesLast

-----------------------------------------------------------------------------
(* Every step, with the tabs synchronising one at a time                   *)

LEMMA OthersRest ==
  ASSUME OneBusy, NEW t \in Tabs, Busy(t)
  PROVE  \A u \in Tabs : u # t => run[u] = Idle /\ flush[u] = Idle
BY DEF OneBusy, Busy

\* A tab whose flush does not move, while the server or another tab does.
LEMMA FlushStays ==
  ASSUME QueueTyped, ProgressInv, ServerMoves, UNCHANGED last_sync_version,
         NEW u \in Tabs, flush'[u] = flush[u], run'[u] = run[u], FlushSound(u),
         \A id \in DOMAIN enqueued : enqueued'[id] = enqueued[id],
         Waits(u) => \A id \in flush[u].rows :
           id \in post[flush[u].post].todo \cup post[flush[u].post].rejected =>
             \/ id \in post'[flush[u].post].todo \cup post'[flush[u].post].rejected
             \/ Settled(id)'
  PROVE  FlushSound(u)'
<1>1. PICK f : f = flush[u] /\ f = flush'[u]
  OBVIOUS
<1>2. SUFFICES ASSUME f # Idle, f.stage # "resync"
               PROVE  /\ run'[u] = Idle
                      /\ f.stage = "wait" =>
                           \A id \in f.rows :
                             \/ id \in post'[f.post].todo \cup post'[f.post].rejected
                             \/ Settled(id)'
                      /\ f.stage = "delete" =>
                           \A id \in f.rows :
                             Settled(id)' \/ enqueued'[id].message_id \in f.rejected
                      /\ f.stage = "overwrite" => ServerHad(f.message_id, f.row)'
  BY <1>1 DEF FlushSound, Flushing, ServerHad
<1>3. /\ run[u] = Idle
      /\ f.stage = "wait" =>
           \A id \in f.rows :
             id \in post[f.post].todo \cup post[f.post].rejected \/ Settled(id)
      /\ f.stage = "delete" =>
           \A id \in f.rows : Settled(id) \/ enqueued[id].message_id \in f.rejected
      /\ f.stage = "overwrite" => ServerHad(f.message_id, f.row)
  BY <1>1, <1>2 DEF FlushSound, Flushing
<1>4. f.stage \in {"wait", "delete"} => f.rows \subseteq DOMAIN enqueued
  BY <1>1 DEF QueueTyped, Waits, Deletes
<1>5. ASSUME NEW id \in DOMAIN enqueued, Settled(id)
      PROVE  Settled(id)'
  BY <1>5, SettledStays
<1>6. ServerHad(f.message_id, f.row) => ServerHad(f.message_id, f.row)'
  <2>1. PICK m, row : m = f.message_id /\ row = f.row
    OBVIOUS
  <2>2. ServerHad(m, row) => ServerHad(m, row)'
    BY HadStays
  <2> QED
    BY <2>1, <2>2
<1>7. f.stage = "wait" =>
        \A id \in f.rows :
          id \in post'[f.post].todo \cup post'[f.post].rejected \/ Settled(id)'
  BY <1>1, <1>3, <1>4, <1>5 DEF Waits
<1>8. f.stage = "delete" =>
        \A id \in f.rows : Settled(id)' \/ enqueued'[id].message_id \in f.rejected
  BY <1>3, <1>4, <1>5
<1> QED
  BY <1>1, <1>3, <1>6, <1>7, <1>8

\* Whoever waits to be reconciled still does when no flush moves.
LEMMA FlushesStand ==
  ASSUME UNCHANGED <<flush, unreconciled>>
  PROVE  ReconcilingLasts
BY DEF ReconcilingLasts, ToBeReconciled

\* The server moves and the profile does not.
LEMMA ServerKeepsClicks ==
  ASSUME ClickInv, ((Server \/ Settle) /\ UNCHANGED queueVars) \/ UNCHANGED qVars
  PROVE  ClickInv'
<1>1. PICK L : EngineInv(L) /\ ButForClicks(L)
  BY DEF ClickInv
<1>2. ProgressInv /\ QueueInv /\ QueueTyped
  BY <1>1 DEF EngineInv, ClickInv, QueueInv
<1>3. (Server \/ Settle \/ UNCHANGED vars) /\ UNCHANGED queueVars
  BY DEF qVars
<1>4. /\ ServerMoves /\ folders' \subseteq Folders
      /\ UNCHANGED <<run, local, last_sync_version, unsignalled>>
  BY <1>2, <1>3, ServerMovesAlone
<1>5. UNCHANGED <<sync_queue, flush, post, enqueued, answered, unreconciled>>
  BY <1>3 DEF queueVars
<1>6. QueueInv'
  BY <1>2, <1>3, ElsewhereKeeps
<1>7. EngineInv(L)'
  BY <1>1, <1>4, EngineStands
<1>8. ButForClicks(L)'
  BY <1>1, <1>4, <1>5, FlushesStand, ClicksStill
<1>9. ASSUME NEW u \in Tabs
      PROVE  FlushSound(u)'
  BY <1>2, <1>4, <1>5, FlushStays DEF ClickInv
<1> QED
  BY <1>4, <1>6, <1>7, <1>8, <1>9 DEF ClickInv

\* A click writes the row and joins the queue.
LEMMA EnqueueKeepsClicks == ASSUME ClickInv, EnqueueMutation PROVE ClickInv'
<1>1. PICK L : EngineInv(L) /\ ButForClicks(L)
  BY DEF ClickInv
<1>2. ProgressInv /\ QueueInv /\ QueueTyped /\ local \in Table
  BY <1>1 DEF EngineInv, ClickInv, QueueInv
<1>3. PICK n \in Nat : enqueued \in [1..n -> Mutations]
  BY <1>2 DEF QueueTyped
<1>4. Cardinality(DOMAIN enqueued) = n
  BY <1>3, FS_Interval
<1>5. PICK mutation \in Mutations :
        /\ local' = [local EXCEPT ![mutation.message_id] = Optimistic(@, mutation)]
        /\ sync_queue' = [i \in DOMAIN sync_queue \cup {n + 1} |->
                            IF i = n + 1 THEN mutation ELSE sync_queue[i]]
        /\ enqueued' = [i \in 1..(n + 1) |-> IF i = n + 1 THEN mutation ELSE enqueued[i]]
  BY <1>4, Zenon DEF EnqueueMutation
<1>6. UNCHANGED <<serverVars, last_sync_version, run, unsignalled, flush, post, unreconciled>>
  BY DEF EnqueueMutation
<1>7. ServerMoves /\ folders' \subseteq Folders
  BY <1>2, <1>6 DEF ServerMoves, serverVars, ProgressInv, ServerInv, HistoryTyped
<1>8. QueueInv'
  BY <1>2, EnqueueKeeps
<1>9. EngineInv(L)'
  BY <1>1, <1>6, <1>7, EngineStands
<1>10. \A id \in DOMAIN enqueued : enqueued'[id] = enqueued[id] /\ id # n + 1
  BY <1>3, <1>5
<1>11. ASSUME NEW u \in Tabs
       PROVE  FlushSound(u)'
  BY <1>2, <1>6, <1>7, <1>10, FlushStays DEF ClickInv
<1>12. /\ n + 1 \in DOMAIN sync_queue' /\ sync_queue'[n + 1] = mutation
       /\ \A id \in DOMAIN sync_queue : id \in DOMAIN sync_queue' /\ sync_queue'[id] = sync_queue[id]
  BY <1>2, <1>5, <1>10 DEF QueueTyped
<1>13. PICK K : K = local'
  OBVIOUS
<1>14. mutation \in Mutation /\ mutation.message_id \in Messages
  BY ClickEvent, QueueAssumption
<1>15. PICK c \in Messages : c = mutation.message_id
  BY <1>14
<1>16. PICK old, new : /\ old \in Row \cup {Absent} /\ old = local[c]
                       /\ new = Optimistic(old, mutation)
  BY <1>2 DEF Table
<1>17. /\ K = [local EXCEPT ![c] = new]
       /\ old = Absent => new = Absent
       /\ old # Absent =>
            /\ new \in Row
            /\ \A type \in Fields :
                 Field(new, type) = IF type = mutation.mutation_type THEN mutation.mutation_value
                                    ELSE Field(old, type)
  <2>1. K = [local EXCEPT ![c] = new]
    BY <1>5, <1>13, <1>15, <1>16
  <2>2. old = Absent => new = Absent
    BY <1>16 DEF Optimistic
  <2> QED
    BY <1>14, <1>16, <2>1, <2>2, ClickWritten
<1>18. K \in Table /\ K[c] = new /\ \A m \in Messages \ {c} : K[m] = local[m]
  BY <1>2, <1>17 DEF Table
<1>19. ASSUME NEW m \in Messages, NEW type, NEW value, Pending(m, type, value)
       PROVE  Pending(m, type, value)'
  BY <1>12, <1>19 DEF Pending
<1>20. Pending(c, mutation.mutation_type, mutation.mutation_value)'
  <2>1. mutation = [mutation_type |-> mutation.mutation_type, message_id |-> c,
                    mutation_value |-> mutation.mutation_value]
    BY <1>14, <1>15 DEF Mutation
  <2> QED
    BY <1>12, <2>1 DEF Pending
<1>21. ASSUME NEW m \in Messages
       PROVE  /\ K[m] = Absent <=> L[m] = Absent
              /\ K[m] # Absent =>
                   \A type \in Fields : \/ Field(K[m], type) = Field(L[m], type)
                                        \/ m \in unreconciled \/ ToBeReconciled(m)
                                        \/ Pending(m, type, Field(K[m], type))'
  <2>1. PICK row : row = local[m]
    OBVIOUS
  <2>2. /\ row = Absent <=> L[m] = Absent
        /\ row # Absent =>
             \A type \in Fields : \/ Field(row, type) = Field(L[m], type)
                                  \/ m \in unreconciled \/ ToBeReconciled(m)
                                  \/ Pending(m, type, Field(row, type))
    BY <1>1, <2>1 DEF ButForClicks, Excused
  <2>3. row # Absent =>
          \A type \in Fields : \/ Field(row, type) = Field(L[m], type)
                               \/ m \in unreconciled \/ ToBeReconciled(m)
                               \/ Pending(m, type, Field(row, type))'
    BY <1>19, <2>2
  <2>4. CASE m # c
    BY <1>18, <2>1, <2>2, <2>3, <2>4
  <2>5. CASE m = c
    <3>1. row = old /\ K[m] = new
      BY <1>16, <1>18, <2>1, <2>5
    <3>2. new = Absent <=> old = Absent
      BY <1>17, AbsentAssumption
    <3>3. ASSUME new # Absent, NEW type \in Fields
          PROVE  \/ Field(new, type) = Field(L[m], type)
                 \/ m \in unreconciled \/ ToBeReconciled(m)
                 \/ Pending(m, type, Field(new, type))'
      <4>1. CASE type = mutation.mutation_type
        <5>1. Field(new, type) = mutation.mutation_value
          BY <1>17, <3>2, <3>3, <4>1
        <5> QED
          BY <1>20, <2>5, <4>1, <5>1
      <4>2. CASE type # mutation.mutation_type
        <5>1. Field(new, type) = Field(row, type)
          BY <1>17, <3>1, <3>2, <3>3, <4>2
        <5> QED
          BY <2>3, <3>1, <3>2, <3>3, <5>1
      <4> QED
        BY <4>1, <4>2
    <3> QED
      BY <2>2, <3>1, <3>2, <3>3
  <2> QED
    BY <2>4, <2>5
<1>22. ButForClicks(L)'
  BY <1>6, <1>13, <1>21, FlushesStand, ExcusesLast
<1> QED
  BY <1>8, <1>9, <1>11, <1>13, <1>18, <1>22 DEF ClickInv

\* The server has the rows that it shows.
LEMMA ShownNow ==
  ASSUME ProgressInv, NEW m \in Messages
  PROVE  ServerHad(m, messages[m])
<1>1. /\ messages \in Table /\ history[last_version] = messages
      /\ last_version \in Nat /\ last_sync_version \in 0..last_version
  BY DEF ProgressInv, ClientTyped, ServerInv, HistoryTyped
<1>2. PICK row : row = messages[m]
  OBVIOUS
<1>3. row \in Row \cup {Absent}
  BY <1>1, <1>2 DEF Table
<1>4. Agrees(m, row, messages[m], Later(last_sync_version))
  BY <1>2, SameRowAgrees
<1>5. ASSUME row # Absent PROVE Shows(m, row, last_sync_version)
  <2>1. PICK c : c = last_sync_version /\ c \in Nat /\ last_version \in c..last_version
    BY <1>1
  <2>2. history[last_version][m] = row
    BY <1>1, <1>2
  <2> QED
    BY <1>1, <1>5, <2>1, <2>2, HistoryShows
<1> QED
  BY <1>2, <1>3, <1>4, <1>5 DEF ServerHad

\* A click accepted is settled: the row that the batch leaves has its value.
LEMMA AcceptedSettles ==
  ASSUME QueueTyped, ProgressInv, NEW STATE next, NEW id \in DOMAIN enqueued, id = next,
         Accepted(enqueued[id]), CommitOne(EventOf(enqueued[next])),
         UNCHANGED <<ingested, last_sync_version, enqueued>>
  PROVE  ServerMoves /\ Settled(id)'
<1>1. PICK mutation \in Mutation : mutation = enqueued[id]
  BY EnqueuedMutations
<1>2. PICK event, m : event = EventOf(mutation) /\ m = mutation.message_id
  OBVIOUS
<1>3. /\ event \in Event /\ m \in Messages /\ event.message_id = m
      /\ event.event_type \in {"message_moved", "message_updated"}
      /\ mutation.mutation_type \in Fields
  BY <1>2, ClickEvent
<1>4. /\ ServerInv /\ HistoryTyped /\ last_version \in Nat
      /\ last_sync_version \in 0..last_version /\ last_sync_version \in Nat
  BY DEF ProgressInv, ClientTyped, ServerInv, HistoryTyped
<1>5. messages[m] # Absent /\ messages[m] \in Row
  BY <1>1, <1>2, <1>3, <1>4 DEF Accepted, HistoryTyped, Table
<1>6. m \in ingested
  BY <1>3, <1>4, <1>5 DEF ServerInv, HistoryTyped, LivesOnce
<1>7. PICK batch, last : /\ Commits(batch, last)
                         /\ last = last_version + 1 /\ batch = [v \in {last} |-> event]
  <2> DEFINE said == EventOf(enqueued[next])
  <2>1. said = event
    BY <1>1, <1>2
  <2>2. CommitOne(said)
    OBVIOUS
  <2> HIDE DEF said
  <2>3. /\ said \in Event /\ said.event_type # "message_created"
        /\ said.message_id \in ingested /\ ingested' = ingested \cup {said.message_id}
    BY <1>3, <1>6, <2>1
  <2>4. \E batch, last : /\ Commits(batch, last)
                         /\ last = last_version + 1 /\ batch = [v \in {last} |-> said]
    BY <1>4, <2>2, <2>3, CommitOneEffect
  <2> QED
    BY <2>1, <2>4
<1>8. last \in DOMAIN batch /\ batch[last] = event /\ last \in Nat /\ last > last_version
      /\ DOMAIN batch = {last}
  BY <1>4, <1>7
<1>9. last_version' = last /\ history'[last] = messages'
  BY <1>4, <1>7, <1>8 DEF Commits, HistoryTyped
<1>10. PICK row : row = messages'[m]
  OBVIOUS
<1>11. row = ApplySyncEvent(messages[m], last, event)
  BY <1>3, <1>7, <1>8, <1>10 DEF Commits
<1>12. /\ row \in Row /\ row # Absent
       /\ Field(row, mutation.mutation_type) = mutation.mutation_value
  BY <1>2, <1>3, <1>5, <1>8, <1>11, ClickApplied, AbsentAssumption
<1>13. ServerHad(m, row)'
  <2>1. Agrees(m, row, row, Later(last_sync_version)')
    BY SameRowAgrees
  <2>2. Shows(m, row, last_sync_version)'
    <3>1. PICK c : c = last_sync_version' /\ c = last_sync_version
      OBVIOUS
    <3>2. last \in c..last_version' /\ history'[last][m] = row
      BY <1>4, <1>8, <1>9, <1>10, <3>1
    <3> QED
      BY <1>12, <3>1, <3>2 DEF Shows
  <2> QED
    BY <1>3, <1>10, <1>12, <2>1, <2>2 DEF ServerHad, Agrees
<1>14. Settled(id)'
  BY <1>1, <1>2, <1>12, <1>13 DEF Settled, Field
<1> QED
  BY <1>7, <1>14 DEF ServerMoves

\* A click that the worker finds done is settled too.
LEMMA FoundSettles ==
  ASSUME QueueTyped, ProgressInv, NEW id \in DOMAIN enqueued,
         Accepted(enqueued[id]), NoOp(enqueued[id])
  PROVE  Settled(id)
<1>1. PICK mutation \in Mutation : mutation = enqueued[id]
  BY EnqueuedMutations
<1>2. PICK m \in Messages : m = mutation.message_id
  BY ClickEvent
<1>3. ServerHad(m, messages[m])
  BY ShownNow
<1>4. messages[m] # Absent /\ messages[m] \in Row
  BY <1>1, <1>2, <1>3 DEF Accepted, ServerHad
<1>5. Field(messages[m], mutation.mutation_type) = mutation.mutation_value
  BY <1>1, <1>2 DEF NoOp, Field
<1> QED
  BY <1>1, <1>2, <1>3, <1>4, <1>5 DEF Settled

\* The worker answers a click: it has committed it, it found it done, or it says no.
LEMMA ProcessKeepsClicks ==
  ASSUME ClickInv, NEW p \in Posts, ProcessMutation(p)
  PROVE  ClickInv'
<1>1. PICK L : EngineInv(L) /\ ButForClicks(L)
  BY DEF ClickInv
<1>2. ProgressInv /\ QueueInv /\ QueueTyped /\ local \in Table
  BY <1>1 DEF EngineInv, ClickInv, QueueInv
<1>3. /\ UNCHANGED <<folders, ingested, run, unsignalled, sync_queue, flush, enqueued, unreconciled>>
      /\ UNCHANGED <<local, last_sync_version>>
      /\ post[p] # Idle /\ post[p].todo # {}
  BY DEF ProcessMutation, localVars
<1> DEFINE next == Min(post[p].todo)
<1>4. PICK id : id = next
  OBVIOUS
<1> DEFINE Answers(rejected) ==
             post' = [post EXCEPT ![p] =
                        IF post[p].todo = {next} /\ ~Awaited(p) THEN Idle
                        ELSE [todo |-> @.todo \ {next}, rejected |-> @.rejected \cup rejected]]
<1>5. \/ /\ Accepted(enqueued[next]) /\ CommitOne(EventOf(enqueued[next]))
         /\ Answers({})
      \/ /\ Accepted(enqueued[next]) /\ NoOp(enqueued[next])
         /\ UNCHANGED <<messages, last_version, sync_events, history>>
         /\ Answers({})
      \/ /\ UNCHANGED <<messages, last_version, sync_events, history>>
         /\ Answers({next})
  BY Zenon DEF ProcessMutation
<1> HIDE DEF next, Answers
<1>6. PICK rejected \in SUBSET {id} :
        /\ Answers(rejected)
        /\ \/ Accepted(enqueued[id]) /\ CommitOne(EventOf(enqueued[next]))
           \/ /\ Accepted(enqueued[id]) /\ NoOp(enqueued[id])
              /\ UNCHANGED <<messages, last_version, sync_events, history>>
           \/ id \in rejected /\ UNCHANGED <<messages, last_version, sync_events, history>>
  BY <1>4, <1>5
<1>7. post[p] \in [todo : SUBSET DOMAIN enqueued, rejected : SUBSET DOMAIN enqueued]
  BY <1>2, <1>3 DEF QueueTyped
<1>8. id \in post[p].todo /\ id \in DOMAIN enqueued
  BY <1>2, <1>3, <1>4, <1>7, LeastNumber DEF QueueTyped, next
<1>9. ServerMoves /\ (Settled(id)' \/ id \in rejected)
  <2>1. CASE Accepted(enqueued[id]) /\ CommitOne(EventOf(enqueued[next]))
    BY <1>2, <1>3, <1>4, <1>8, <2>1, AcceptedSettles
  <2>2. CASE id \in rejected /\ UNCHANGED <<messages, last_version, sync_events, history>>
    BY <1>3, <2>2 DEF ServerMoves
  <2>3. CASE /\ Accepted(enqueued[id]) /\ NoOp(enqueued[id])
             /\ UNCHANGED <<messages, last_version, sync_events, history>>
    <3>1. ServerMoves
      BY <1>3, <2>3 DEF ServerMoves
    <3>2. Settled(id)
      BY <1>2, <1>8, <2>3, FoundSettles
    <3> QED
      BY <1>2, <1>3, <3>1, <3>2, SettledStays
  <2> QED
    BY <1>6, <2>1, <2>2, <2>3
<1>10. folders' \subseteq Folders
  BY <1>2, <1>3 DEF ProgressInv, ServerInv, HistoryTyped
<1>11. QueueInv'
  BY <1>2, ProcessKeeps
<1>12. EngineInv(L)'
  BY <1>1, <1>3, <1>9, <1>10, EngineStands
<1>13. ButForClicks(L)'
  BY <1>1, <1>3, FlushesStand, ClicksStill
<1>14. ASSUME NEW u \in Tabs, Waits(u), NEW i \in flush[u].rows,
              i \in post[flush[u].post].todo \cup post[flush[u].post].rejected
       PROVE  \/ i \in post'[flush[u].post].todo \cup post'[flush[u].post].rejected
              \/ Settled(i)'
  <2>1. flush[u].post \in Posts
    BY <1>2, <1>14 DEF QueueTyped
  <2>2. CASE flush[u].post # p
    BY <1>2, <1>6, <1>14, <2>1, <2>2 DEF QueueTyped, Answers
  <2>3. CASE flush[u].post = p
    <3>1. Awaited(p)
      BY <1>14, <2>3 DEF Awaited, Waits, Idle
    <3>2. post'[p] = [todo |-> post[p].todo \ {id}, rejected |-> post[p].rejected \cup rejected]
      BY <1>2, <1>4, <1>6, <3>1 DEF QueueTyped, Answers
    <3>3. post'[p].todo = post[p].todo \ {id} /\ post'[p].rejected = post[p].rejected \cup rejected
      BY <3>2
    <3> QED
      BY <1>9, <1>14, <2>3, <3>3
  <2> QED
    BY <2>2, <2>3
<1>15. ASSUME NEW u \in Tabs
       PROVE  FlushSound(u)'
  BY <1>2, <1>3, <1>9, <1>14, FlushStays DEF ClickInv
<1> QED
  BY <1>2, <1>3, <1>11, <1>12, <1>13, <1>15 DEF ClickInv

\* A run takes the local table and the other one along.
LEMMA SyncKeepsClicks ==
  ASSUME ClickInv, OneBusy, OneBusy', NEW t \in Tabs, Sync(t) \/ AbortSync(t)
  PROVE  ClickInv'
<1>1. PICK L : EngineInv(L) /\ ButForClicks(L)
  BY DEF ClickInv
<1>2. /\ ProgressInv /\ QueueInv /\ QueueTyped /\ local \in Table /\ L \in Table
      /\ run \in [Tabs -> RunState] /\ FlushSound(t)
  BY <1>1 DEF EngineInv, ClickInv, QueueInv, ProgressInv, ClientTyped, TableInv
<1>3. Run(t) \/ Abort(t)
  BY DEF Sync, AbortSync, Run, StartSync, AskDeltaAgain, FinishSync
<1>4. UNCHANGED <<sync_queue, post, enqueued, answered, unreconciled>>
  BY DEF Sync, AbortSync, StartSync, AskDeltaAgain, FinishSync, queueVars
<1>5. OneAtATime /\ OneAtATime'
  BY DEF OneBusy, OneAtATime, Busy
<1>6. PICK L2 : EngineInv(L2)' /\ Mirrored(L, L2, local, local')
  BY <1>1, <1>3, <1>5, RunKeeps
<1>7. (run[t] # Idle \/ run'[t] # Idle) /\ (run[t] = Idle => StartSync(t))
  <2>1. run[t] # Idle \/ StartSync(t)
    BY DEF Sync, AbortSync, AskDeltaAgain, FinishSync, AskDelta, Finish, Abort, AnswerDelta,
       ApplyEvent, ClearMessages, ListMessages, PutPage, SaveWatermark, ListFolders, ClearFolders,
       PutFolders, Idle
  <2>2. StartSync(t) => run'[t] # Idle
    BY <1>2 DEF StartSync, StartRun, Becomes, Idle
  <2> QED
    BY <2>1, <2>2
<1>8. flush[t] = Idle \/ flush[t].stage = "resync"
  BY <1>2, <1>7 DEF FlushSound, Flushing, StartSync
<1>9. \/ UNCHANGED flush
      \/ Flushes(t, flush[t])
      \/ Flushes(t, Idle)
      \/ Flushes(t, [stage |-> "select", rejected |-> {}]) /\ Becomes(t, Idle)
  BY DEF Sync, AbortSync, StartSync, AskDeltaAgain, FinishSync, queueVars, Finish
<1>10. /\ \A u \in Tabs : u # t => flush'[u] = flush[u]
       /\ \/ flush'[t] = flush[t]
          \/ flush'[t] = Idle
          \/ flush'[t] = [stage |-> "select", rejected |-> {}] /\ run'[t] = Idle
  <2>1. flush = [u \in Tabs |-> flush[u]]
    BY <1>2 DEF QueueTyped
  <2> QED
    BY <1>2, <1>9, <2>1 DEF Flushes, Becomes
<1>11. \A u \in Tabs : u # t => flush'[u] = Idle
  <2>1. CASE run[t] # Idle
    BY <1>10, <2>1, OthersRest DEF Busy
  <2>2. CASE run'[t] # Idle
    BY <2>2 DEF OneBusy, Busy
  <2> QED
    BY <1>7, <2>1, <2>2
<1>12. ReconcilingLasts
  <2>1. ASSUME NEW m \in Messages, ToBeReconciled(m)
        PROVE  FALSE
    BY <1>8, <1>10, <1>11, <2>1 DEF ToBeReconciled
  <2> QED
    BY <1>4, <2>1 DEF ReconcilingLasts
<1>13. QueueInv'
  BY <1>2, SyncKeeps
<1>14. local' \in Table /\ ButForClicks(L2)'
  <2>1. PICK K : K = local' /\ Mirrored(L, L2, local, K)
    BY <1>6
  <2> QED
    BY <1>1, <1>2, <1>4, <1>12, <2>1, ClicksMirrored
<1>15. ASSUME NEW u \in Tabs
       PROVE  FlushSound(u)'
  <2>1. CASE u # t
    BY <1>11, <2>1 DEF FlushSound, Flushing
  <2>2. CASE u = t
    <3>1. CASE flush'[t] = Idle \/ flush'[t].stage = "resync"
      BY <2>2, <3>1 DEF FlushSound, Flushing
    <3>2. CASE flush'[t] = [stage |-> "select", rejected |-> {}] /\ run'[t] = Idle
      <4>1. flush'[t].stage = "select"
        BY <3>2
      <4> QED
        BY <2>2, <3>2, <4>1 DEF FlushSound, Flushing
    <3> QED
      BY <1>8, <1>10, <3>1, <3>2
  <2> QED
    BY <2>1, <2>2
<1> QED
  BY <1>6, <1>13, <1>14, <1>15 DEF ClickInv

-----------------------------------------------------------------------------
(* A step of a flush                                                       *)

Reconciles(t, m) ==
  flush[t] # Idle /\
    \/ flush[t].stage # "resync" /\ m \in flush[t].rejected
    \/ flush[t].stage = "overwrite" /\ m = flush[t].message_id

\* While one tab flushes nobody else synchronises.
LEMMA FlushesAlone ==
  ASSUME ClickInv, OneBusy, NEW t \in Tabs, Flushing(t)
  PROVE  /\ \A u \in Tabs : run[u] = Idle
         /\ \A u \in Tabs : u # t => flush[u] = Idle
<1>1. run[t] = Idle /\ Busy(t)
  BY DEF ClickInv, FlushSound, Flushing, Busy
<1> QED
  BY <1>1, OthersRest

LEMMA FlushMoved ==
  ASSUME QueueTyped, NEW t \in Tabs, NEW STATE state, Flushes(t, state)
  PROVE  flush'[t] = state /\ \A u \in Tabs : u # t => flush'[u] = flush[u]
<1>1. flush = [u \in Tabs |-> flush[u]]
  BY DEF QueueTyped
<1> QED
  BY <1>1 DEF Flushes

\* A step of a flush that leaves the rows and the queue alone.
LEMMA FlushGoesOn ==
  ASSUME ClickInv, OneBusy, NEW t \in Tabs, Flushing(t), UNCHANGED <<vars, sync_queue>>,
         \A u \in Tabs : u # t => flush'[u] = flush[u],
         \A m \in Messages : Reconciles(t, m) => m \in unreconciled' \/ Reconciles(t, m)',
         unreconciled \subseteq unreconciled', FlushSound(t)', QueueInv'
  PROVE  ClickInv'
<1>1. PICK L : EngineInv(L) /\ ButForClicks(L)
  BY DEF ClickInv
<1>2. ProgressInv /\ local \in Table
  BY <1>1 DEF EngineInv, ClickInv
<1>3. /\ ServerMoves /\ folders' \subseteq Folders
      /\ UNCHANGED <<run, local, last_sync_version, unsignalled>>
  BY <1>2, ServerMovesAlone
<1>4. EngineInv(L)'
  BY <1>1, <1>3, EngineStands
<1>5. ReconcilingLasts
  <2>1. \A m \in Messages : ToBeReconciled(m) => Reconciles(t, m)
    BY FlushesAlone DEF ToBeReconciled, Reconciles
  <2>2. \A m \in Messages : Reconciles(t, m)' => ToBeReconciled(m)'
    BY DEF ToBeReconciled, Reconciles
  <2> QED
    BY <2>1, <2>2 DEF ReconcilingLasts
<1>6. ButForClicks(L)'
  BY <1>1, <1>3, <1>5, ClicksStill
<1>7. ASSUME NEW u \in Tabs, u # t
      PROVE  FlushSound(u)'
  BY <1>7, FlushesAlone DEF FlushSound, Flushing
<1> QED
  BY <1>2, <1>3, <1>4, <1>6, <1>7 DEF ClickInv

\* What goes on after the loop still reconciles what was rejected.
LEMMA AfterLoopReconciles ==
  ASSUME NEW rejected, NEW f, f = AfterLoop(rejected)
  PROVE  /\ \/ f = Idle /\ rejected = {}
            \/ f # Idle /\ f.stage = "reconcile" /\ f.rejected = rejected
         /\ f # Idle => f.stage \notin {"wait", "delete", "overwrite", "resync"}
<1>1. CASE rejected = {}
  BY <1>1 DEF AfterLoop
<1>2. CASE rejected # {}
  <2>1. f = [stage |-> "reconcile", rejected |-> rejected]
    BY <1>2 DEF AfterLoop
  <2>2. f.stage = "reconcile" /\ f.rejected = rejected
    BY <2>1
  <2> QED
    BY <2>2 DEF Idle
<1> QED
  BY <1>1, <1>2

\* The oldest clicks are posted: none of them is answered yet.
LEMMA PostKeepsClicks ==
  ASSUME ClickInv, OneBusy, NEW t \in Tabs, PostMutations(t)
  PROVE  ClickInv'
<1>1. QueueInv /\ QueueTyped /\ FlushSound(t) /\ post = [p \in Posts |-> post[p]]
  BY DEF ClickInv, QueueInv, QueueTyped
<1>2. /\ flush[t] # Idle /\ flush[t].stage = "select" /\ Flushing(t)
      /\ UNCHANGED <<vars, sync_queue, enqueued, unreconciled>>
  BY DEF PostMutations, Flushing
<1>3. PICK before : before = flush[t].rejected
  OBVIOUS
<1>4. \/ Flushes(t, AfterLoop(before))
      \/ \E p \in Posts : \E rows :
           /\ post' = [post EXCEPT ![p] = [todo |-> rows, rejected |-> {}]]
           /\ Flushes(t, [stage |-> "wait", post |-> p, rows |-> rows, rejected |-> before])
  BY <1>3 DEF PostMutations
<1>5. run'[t] = Idle
  BY <1>1, <1>2 DEF FlushSound, vars
<1>6. QueueInv'
  BY <1>1, PostKeeps
<1>7. CASE Flushes(t, AfterLoop(before))
  <2>1. PICK f : f = AfterLoop(before)
    OBVIOUS
  <2>2. flush'[t] = f /\ \A u \in Tabs : u # t => flush'[u] = flush[u]
    BY <1>1, <1>7, <2>1, FlushMoved
  <2>3. FlushSound(t)'
    BY <1>5, <2>1, <2>2, AfterLoopReconciles DEF FlushSound, Flushing
  <2>4. \A m \in Messages : Reconciles(t, m) => Reconciles(t, m)'
    BY <1>2, <1>3, <2>1, <2>2, AfterLoopReconciles DEF Reconciles
  <2> QED
    BY <1>2, <1>6, <2>2, <2>3, <2>4, FlushGoesOn
<1>8. ASSUME NEW p \in Posts, NEW rows,
             post' = [post EXCEPT ![p] = [todo |-> rows, rejected |-> {}]],
             Flushes(t, [stage |-> "wait", post |-> p, rows |-> rows, rejected |-> before])
      PROVE  ClickInv'
  <2>1. PICK f : f = [stage |-> "wait", post |-> p, rows |-> rows, rejected |-> before]
    OBVIOUS
  <2>2. f.stage = "wait" /\ f.post = p /\ f.rows = rows /\ f.rejected = before /\ f # Idle
    BY <2>1 DEF Idle
  <2>3. flush'[t] = f /\ \A u \in Tabs : u # t => flush'[u] = flush[u]
    BY <1>1, <1>8, <2>1, FlushMoved
  <2>4. post'[p].todo = rows
    BY <1>1, <1>8
  <2>5. FlushSound(t)'
    BY <1>5, <2>2, <2>3, <2>4 DEF FlushSound, Flushing
  <2>6. \A m \in Messages : Reconciles(t, m) => Reconciles(t, m)'
    BY <1>2, <1>3, <2>2, <2>3 DEF Reconciles
  <2> QED
    BY <1>2, <1>6, <2>3, <2>5, <2>6, FlushGoesOn
<1> QED
  BY <1>4, <1>7, <1>8

\* The answer is complete: every row is settled or its message is to be reconciled.
LEMMA AnswerKeepsClicks ==
  ASSUME ClickInv, OneBusy, NEW t \in Tabs, AnswerMutations(t)
  PROVE  ClickInv'
<1>1. QueueInv /\ QueueTyped /\ FlushSound(t) /\ ProgressInv
  BY DEF ClickInv, QueueInv, EngineInv
<1>2. /\ flush[t] # Idle /\ flush[t].stage = "wait" /\ Flushing(t)
      /\ post[flush[t].post].todo = {}
      /\ UNCHANGED <<vars, sync_queue, enqueued, unreconciled>>
  BY DEF AnswerMutations, Flushing
<1>3. PICK rows, more, before, refused, f :
        /\ rows = flush[t].rows /\ more = (Cardinality(flush[t].rows) = FlushChunk)
        /\ before = flush[t].rejected
        /\ refused = {enqueued[i].message_id : i \in post[flush[t].post].rejected}
        /\ f = [stage |-> "delete", rows |-> rows, more |-> more,
                rejected |-> before \cup refused]
  OBVIOUS
<1>4. Flushes(t, [stage |-> "delete", rows |-> rows, more |-> more,
                  rejected |-> before \cup refused])
  BY <1>3 DEF AnswerMutations
<1>5. /\ f.stage = "delete" /\ f.rows = rows /\ f.rejected = before \cup refused /\ f # Idle
  BY <1>3 DEF Idle
<1>6. flush'[t] = f /\ \A u \in Tabs : u # t => flush'[u] = flush[u]
  BY <1>1, <1>3, <1>4, FlushMoved
<1>7. QueueInv'
  BY <1>1, AnswerKeeps
<1>8. /\ run[t] = Idle
      /\ \A id \in rows : id \in post[flush[t].post].rejected \/ Settled(id)
  BY <1>1, <1>2, <1>3 DEF FlushSound
<1>9. \A id \in rows : id \in DOMAIN enqueued
  BY <1>1, <1>2, <1>3 DEF QueueTyped, Waits
<1>10. ServerMoves /\ UNCHANGED <<run, last_sync_version>>
  BY <1>1, <1>2, ServerMovesAlone
<1>11. \A id \in rows : Settled(id)' \/ enqueued'[id].message_id \in before \cup refused
  <2>1. ASSUME NEW id \in rows, Settled(id)
        PROVE  Settled(id)'
    <3>1. enqueued'[id] = enqueued[id]
      BY <1>2
    <3> QED
      BY <1>1, <1>10, <2>1, <3>1, SettledStays
  <2>2. \A id \in post[flush[t].post].rejected : enqueued'[id].message_id \in refused
    BY <1>2, <1>3
  <2> QED
    BY <1>8, <2>1, <2>2
<1>12. FlushSound(t)'
  BY <1>5, <1>6, <1>8, <1>10, <1>11 DEF FlushSound, Flushing
<1>13. \A m \in Messages : Reconciles(t, m) => Reconciles(t, m)'
  BY <1>2, <1>3, <1>5, <1>6 DEF Reconciles
<1> QED
  BY <1>2, <1>6, <1>7, <1>12, <1>13, FlushGoesOn

\* No answer: what was rejected so far is reconciled, the rows stay in the queue.
LEMMA LoseKeepsClicks ==
  ASSUME ClickInv, OneBusy, NEW t \in Tabs, LoseAnswer(t)
  PROVE  ClickInv'
<1>1. QueueInv /\ QueueTyped /\ FlushSound(t)
  BY DEF ClickInv, QueueInv
<1>2. /\ flush[t] # Idle /\ flush[t].stage = "wait" /\ Flushing(t)
      /\ UNCHANGED <<vars, sync_queue, unreconciled>>
  BY DEF LoseAnswer, Flushing
<1>3. PICK before, f : before = flush[t].rejected /\ f = AfterLoop(before)
  OBVIOUS
<1>4. Flushes(t, AfterLoop(before))
  BY <1>3 DEF LoseAnswer
<1>5. flush'[t] = f /\ \A u \in Tabs : u # t => flush'[u] = flush[u]
  BY <1>1, <1>3, <1>4, FlushMoved
<1>6. QueueInv'
  BY <1>1, FlushKeeps
<1>7. run'[t] = Idle
  BY <1>1, <1>2 DEF FlushSound, vars
<1>8. FlushSound(t)'
  BY <1>3, <1>5, <1>7, AfterLoopReconciles DEF FlushSound, Flushing
<1>9. \A m \in Messages : Reconciles(t, m) => Reconciles(t, m)'
  BY <1>2, <1>3, <1>5, AfterLoopReconciles DEF Reconciles
<1> QED
  BY <1>2, <1>5, <1>6, <1>8, <1>9, FlushGoesOn

\* The row of a rejected message is fetched: it is the server's of this moment.
LEMMA GetKeepsClicks ==
  ASSUME ClickInv, OneBusy, NEW t \in Tabs, GetMessage(t)
  PROVE  ClickInv'
<1>1. QueueInv /\ QueueTyped /\ FlushSound(t) /\ ProgressInv
  BY DEF ClickInv, QueueInv, EngineInv
<1>2. /\ flush[t] # Idle /\ flush[t].stage = "reconcile" /\ Flushing(t)
      /\ UNCHANGED <<vars, sync_queue, unreconciled>>
  BY DEF GetMessage, Flushing
<1>3. PICK before : before = flush[t].rejected /\ before \subseteq Messages
  BY <1>1, <1>2 DEF QueueTyped
<1>4. PICK m \in before :
        Flushes(t, [stage |-> "overwrite", message_id |-> m, row |-> messages[m],
                    rejected |-> before \ {m}])
  BY <1>3 DEF GetMessage
<1>5. PICK row, f :
        /\ row = messages[m]
        /\ f = [stage |-> "overwrite", message_id |-> m, row |-> row, rejected |-> before \ {m}]
  OBVIOUS
<1>6. /\ f.stage = "overwrite" /\ f.message_id = m /\ f.row = row /\ f.rejected = before \ {m}
      /\ f # Idle
  BY <1>5 DEF Idle
<1>7. flush'[t] = f /\ \A u \in Tabs : u # t => flush'[u] = flush[u]
  BY <1>1, <1>4, <1>5, FlushMoved
<1>8. QueueInv'
  BY <1>1, FlushKeeps
<1>9. ServerHad(m, row)
  BY <1>1, <1>3, <1>5, ShownNow
<1>10. ServerMoves /\ UNCHANGED <<run, last_sync_version>>
  BY <1>1, <1>2, ServerMovesAlone
<1>11. ServerHad(m, row)'
  BY <1>1, <1>9, <1>10, HadStays
<1>12. FlushSound(t)'
  <2>1. run'[t] = Idle
    BY <1>1, <1>2, <1>10 DEF FlushSound
  <2>2. ServerHad(f.message_id, f.row)'
    BY <1>6, <1>11
  <2> QED
    BY <1>6, <1>7, <2>1, <2>2 DEF FlushSound, Flushing, ServerHad
<1>13. \A n \in Messages : Reconciles(t, n) => Reconciles(t, n)'
  BY <1>2, <1>3, <1>6, <1>7 DEF Reconciles
<1> QED
  BY <1>2, <1>7, <1>8, <1>12, <1>13, FlushGoesOn

\* What goes on after a reconciliation reconciles the rest.
LEMMA ReconciledReconciles ==
  ASSUME NEW rejected, NEW f, f = Reconciled(rejected)
  PROVE  /\ f # Idle
         /\ \/ f.stage = "resync" /\ rejected = {}
            \/ f.stage = "reconcile" /\ f.rejected = rejected
<1>1. CASE rejected = {}
  BY <1>1 DEF Reconciled, Idle
<1>2. CASE rejected # {}
  <2>1. f = [stage |-> "reconcile", rejected |-> rejected]
    BY <1>2 DEF Reconciled
  <2>2. f.stage = "reconcile" /\ f.rejected = rejected
    BY <2>1
  <2> QED
    BY <2>2 DEF Idle
<1> QED
  BY <1>1, <1>2

\* It cannot be fetched: the row is given up for unreconciled.
LEMMA GetFailsKeepsClicks ==
  ASSUME ClickInv, OneBusy, NEW t \in Tabs, GetMessageFails(t)
  PROVE  ClickInv'
<1>1. QueueInv /\ QueueTyped /\ FlushSound(t)
  BY DEF ClickInv, QueueInv
<1>2. /\ flush[t] # Idle /\ flush[t].stage = "reconcile" /\ Flushing(t)
      /\ UNCHANGED <<vars, sync_queue>>
  BY DEF GetMessageFails, Flushing
<1>3. PICK before : before = flush[t].rejected
  OBVIOUS
<1>4. PICK m \in before : /\ Flushes(t, Reconciled(before \ {m}))
                          /\ unreconciled' = unreconciled \cup {m}
  BY <1>3 DEF GetMessageFails
<1>5. PICK rest, f : rest = before \ {m} /\ f = Reconciled(rest) /\ f = Reconciled(before \ {m})
  OBVIOUS
<1>6. flush'[t] = f /\ \A u \in Tabs : u # t => flush'[u] = flush[u]
  BY <1>1, <1>4, <1>5, FlushMoved
<1>7. QueueInv'
  BY <1>1, FlushKeeps
<1>8. run'[t] = Idle
  BY <1>1, <1>2 DEF FlushSound, vars
<1>9. FlushSound(t)'
  BY <1>5, <1>6, <1>8, ReconciledReconciles DEF FlushSound, Flushing
<1>10. \A n \in Messages : Reconciles(t, n) => n \in unreconciled' \/ Reconciles(t, n)'
  BY <1>2, <1>3, <1>4, <1>5, <1>6, ReconciledReconciles DEF Reconciles
<1> QED
  BY <1>2, <1>4, <1>6, <1>7, <1>9, <1>10, FlushGoesOn

\* The tab is closed: so is all that it had still to reconcile.
LEMMA CloseKeepsClicks ==
  ASSUME ClickInv, OneBusy, NEW t \in Tabs, CloseTab(t)
  PROVE  ClickInv'
<1>1. QueueInv /\ QueueTyped
  BY DEF ClickInv, QueueInv
<1>2. /\ Flushing(t) /\ Flushes(t, Idle) /\ UNCHANGED <<vars, sync_queue>>
      /\ unreconciled' = unreconciled \cup flush[t].rejected
           \cup (IF flush[t].stage = "overwrite" THEN {flush[t].message_id} ELSE {})
  BY DEF CloseTab, Flushing
<1>3. flush'[t] = Idle /\ \A u \in Tabs : u # t => flush'[u] = flush[u]
  BY <1>1, <1>2, FlushMoved
<1>4. QueueInv'
  BY <1>1, FlushKeeps
<1>5. FlushSound(t)'
  BY <1>3 DEF FlushSound, Flushing
<1>6. \A m \in Messages : Reconciles(t, m) => m \in unreconciled'
  BY <1>2 DEF Reconciles
<1> QED
  BY <1>2, <1>3, <1>4, <1>5, <1>6, FlushGoesOn

\* The fetched row takes the place of the local one, in both tables.
LEMMA OverwriteKeepsClicks ==
  ASSUME ClickInv, OneBusy, NEW t \in Tabs, OverwriteLocal(t)
  PROVE  ClickInv'
<1>1. PICK L : EngineInv(L) /\ ButForClicks(L)
  BY DEF ClickInv
<1>2. /\ QueueInv /\ QueueTyped /\ FlushSound(t) /\ ProgressInv /\ local \in Table /\ L \in Table
  BY <1>1 DEF ClickInv, QueueInv, EngineInv, TableInv
<1>3. /\ flush[t] # Idle /\ flush[t].stage = "overwrite" /\ Flushing(t)
      /\ UNCHANGED <<serverVars, last_sync_version, run, unsignalled, sync_queue, unreconciled>>
  BY DEF OverwriteLocal, Flushing
<1>4. PICK m, row, before, f :
        /\ m = flush[t].message_id /\ row = flush[t].row /\ before = flush[t].rejected
        /\ f = Reconciled(before)
  OBVIOUS
<1>5. local' = [local EXCEPT ![m] = row] /\ Flushes(t, Reconciled(before))
  BY <1>4 DEF OverwriteLocal
<1>6. ServerHad(m, row) /\ m \in Messages /\ row \in Row \cup {Absent}
  BY <1>2, <1>3, <1>4 DEF FlushSound, ServerHad
<1>7. flush'[t] = f /\ \A u \in Tabs : u # t => flush'[u] = flush[u]
  BY <1>2, <1>4, <1>5, FlushMoved
<1>8. /\ \A u \in Tabs : run[u] = Idle
      /\ \A u \in Tabs : u # t => flush[u] = Idle
  BY <1>3, FlushesAlone
<1>9. QueueInv'
  BY <1>2, FlushKeeps
<1>10. PICK L2, K : L2 = [L EXCEPT ![m] = row] /\ K = local' /\ K = [local EXCEPT ![m] = row]
  BY <1>5
<1>11. EngineInv(L2)
  BY <1>1, <1>6, <1>8, <1>10, RowWritten DEF ServerHad
<1>12. ServerMoves /\ folders' \subseteq Folders
  BY <1>2, <1>3 DEF ServerMoves, serverVars, ProgressInv, ServerInv, HistoryTyped
<1>13. EngineInv(L2)'
  BY <1>3, <1>11, <1>12, EngineStands
<1>14. K \in Table /\ K[m] = L2[m] /\ \A n \in Messages \ {m} : K[n] = local[n] /\ L2[n] = L[n]
  BY <1>2, <1>6, <1>10 DEF Table
<1>15. ASSUME NEW n \in Messages
       PROVE  /\ K[n] = Absent <=> L2[n] = Absent
              /\ K[n] # Absent =>
                   \A type \in Fields : \/ Field(K[n], type) = Field(L2[n], type)
                                        \/ n # m /\ (n \in unreconciled \/ ToBeReconciled(n))
                                        \/ Pending(n, type, Field(K[n], type))'
  <2>1. CASE n = m
    BY <1>14, <2>1
  <2>2. CASE n # m
    <3>1. PICK shown : shown = local[n] /\ shown = K[n]
      BY <1>14, <2>2
    <3>2. /\ shown = Absent <=> L[n] = Absent
          /\ shown # Absent =>
               \A type \in Fields : \/ Field(shown, type) = Field(L[n], type)
                                    \/ Excused(n, type, Field(shown, type))
      BY <1>1, <3>1 DEF ButForClicks
    <3>3. ASSUME NEW type, Excused(n, type, Field(shown, type))
          PROVE  \/ n \in unreconciled \/ ToBeReconciled(n)
                 \/ Pending(n, type, Field(shown, type))'
      <4>1. PICK value : value = Field(shown, type)
        OBVIOUS
      <4> QED
        BY <1>3, <3>3, <4>1, PendingStays
    <3> QED
      BY <1>14, <2>2, <3>1, <3>2, <3>3
  <2> QED
    BY <2>1, <2>2
<1>16. ASSUME NEW n \in Messages, n # m, n \in unreconciled \/ ToBeReconciled(n)
       PROVE  n \in unreconciled' \/ ToBeReconciled(n)'
  <2>1. CASE n \in unreconciled
    BY <1>3, <2>1
  <2>2. CASE ToBeReconciled(n)
    <3>1. n \in before
      BY <1>3, <1>4, <1>8, <1>16, <2>2 DEF ToBeReconciled
    <3>2. f # Idle /\ f.stage = "reconcile" /\ n \in f.rejected
      BY <1>4, <3>1, ReconciledReconciles
    <3> QED
      BY <1>7, <3>2 DEF ToBeReconciled
  <2> QED
    BY <1>16, <2>1, <2>2
<1>17. ButForClicks(L2)'
  <2>1. \A n \in Messages :
          /\ K[n] = Absent <=> L2[n] = Absent
          /\ K[n] # Absent =>
               \A type \in Fields : \/ Field(K[n], type) = Field(L2[n], type)
                                    \/ Excused(n, type, Field(K[n], type))'
    BY <1>15, <1>16 DEF Excused
  <2> QED
    BY <1>10, <2>1 DEF ButForClicks
<1>18. ASSUME NEW u \in Tabs
       PROVE  FlushSound(u)'
  <2>1. run'[u] = Idle
    BY <1>3, <1>8
  <2>2. CASE u # t
    BY <1>7, <1>8, <2>2 DEF FlushSound, Flushing
  <2>3. CASE u = t
    BY <1>4, <1>7, <2>1, <2>3, ReconciledReconciles DEF FlushSound, Flushing
  <2> QED
    BY <2>2, <2>3
<1> QED
  BY <1>9, <1>10, <1>13, <1>14, <1>17, <1>18 DEF ClickInv

\* An answered row leaves the queue: its message is to be reconciled, or the server had its
\* value at or after the cursor and the other table takes it over if the row shows the click.
LEMMA DeleteKeepsClicks ==
  ASSUME ClickInv, OneBusy, NEW t \in Tabs, DeleteRow(t)
  PROVE  ClickInv'
<1>1. PICK L : EngineInv(L) /\ ButForClicks(L)
  BY DEF ClickInv
<1>2. /\ QueueInv /\ QueueTyped /\ FlushSound(t) /\ ProgressInv /\ local \in Table /\ L \in Table
  BY <1>1 DEF ClickInv, QueueInv, EngineInv, TableInv
<1>3. /\ flush[t] # Idle /\ flush[t].stage = "delete" /\ Flushing(t)
      /\ UNCHANGED <<vars, enqueued, unreconciled>>
  BY DEF DeleteRow, Flushing
<1>4. PICK rows, before : rows = flush[t].rows /\ before = flush[t].rejected
  OBVIOUS
<1>5. /\ flush[t] \in [stage : {"delete"}, rows : SUBSET DOMAIN enqueued,
                       more : BOOLEAN, rejected : SUBSET Messages]
      /\ rows \subseteq DOMAIN enqueued
  BY <1>2, <1>3, <1>4 DEF QueueTyped, Deletes
<1>6. /\ run[t] = Idle /\ run'[t] = Idle
      /\ \A id \in rows : Settled(id) \/ enqueued[id].message_id \in before
  BY <1>2, <1>3, <1>4 DEF FlushSound, vars
<1>7. QueueInv'
  BY <1>2, DeleteKeeps
<1>8. /\ ServerMoves /\ folders' \subseteq Folders
      /\ UNCHANGED <<run, local, last_sync_version, unsignalled>>
  BY <1>2, <1>3, ServerMovesAlone
<1>9. CASE rows = {}
  <2>1. \/ Flushes(t, [stage |-> "select", rejected |-> before]) /\ UNCHANGED sync_queue
        \/ Flushes(t, AfterLoop(before)) /\ UNCHANGED sync_queue
    BY <1>4, <1>9 DEF DeleteRow
  <2>2. ASSUME NEW f, flush'[t] = f, \A u \in Tabs : u # t => flush'[u] = flush[u],
               \/ f = Idle /\ before = {}
               \/ f # Idle /\ f.stage \in {"select", "reconcile"} /\ f.rejected = before,
               UNCHANGED sync_queue
        PROVE  ClickInv'
    <3>1. FlushSound(t)'
      BY <1>6, <2>2 DEF FlushSound, Flushing
    <3>2. \A m \in Messages : Reconciles(t, m) => Reconciles(t, m)'
      BY <1>3, <1>4, <2>2 DEF Reconciles
    <3> QED
      BY <1>3, <1>7, <2>2, <3>1, <3>2, FlushGoesOn
  <2>3. CASE Flushes(t, [stage |-> "select", rejected |-> before]) /\ UNCHANGED sync_queue
    <3>1. PICK f : f = [stage |-> "select", rejected |-> before]
      OBVIOUS
    <3>2. f # Idle /\ f.stage = "select" /\ f.rejected = before
      BY <3>1 DEF Idle
    <3>3. flush'[t] = f /\ \A u \in Tabs : u # t => flush'[u] = flush[u]
      BY <1>2, <2>3, <3>1, FlushMoved
    <3> QED
      BY <2>2, <2>3, <3>2, <3>3
  <2>4. CASE Flushes(t, AfterLoop(before)) /\ UNCHANGED sync_queue
    <3>1. PICK f : f = AfterLoop(before)
      OBVIOUS
    <3>2. flush'[t] = f /\ \A u \in Tabs : u # t => flush'[u] = flush[u]
      BY <1>2, <2>4, <3>1, FlushMoved
    <3> QED
      BY <2>2, <2>4, <3>1, <3>2, AfterLoopReconciles
  <2> QED
    BY <2>1, <2>3, <2>4
<1>10. CASE rows # {}
  <2>1. PICK id : id = Min(rows)
    OBVIOUS
  <2>2. id \in rows /\ id \in DOMAIN enqueued
    <3>1. rows \in SUBSET Nat
      BY <1>2, <1>5 DEF QueueTyped
    <3> QED
      BY <1>5, <1>10, <2>1, <3>1, LeastNumber
  <2>3. /\ sync_queue' = Restrict(sync_queue, DOMAIN sync_queue \ {id})
        /\ Flushes(t, [flush[t] EXCEPT !.rows = @ \ {id}])
    BY <1>4, <1>10, <2>1 DEF DeleteRow
  <2>4. PICK f : f = [flush[t] EXCEPT !.rows = @ \ {id}]
    OBVIOUS
  <2>5. f.stage = "delete" /\ f.rows = rows \ {id} /\ f.rejected = before /\ f # Idle
    BY <1>4, <1>5, <2>4 DEF Idle
  <2>6. flush'[t] = f /\ \A u \in Tabs : u # t => flush'[u] = flush[u]
    BY <1>2, <2>3, <2>4, FlushMoved
  <2>7. ReconcilingLasts
    <3>1. ASSUME NEW m \in Messages, ToBeReconciled(m)
          PROVE  ToBeReconciled(m)'
      <4>1. \A u \in Tabs : u # t => flush[u] = Idle
        BY <1>3, FlushesAlone
      <4>2. m \in before
        BY <1>3, <1>4, <3>1, <4>1 DEF ToBeReconciled
      <4> QED
        BY <2>5, <2>6, <4>2 DEF ToBeReconciled
    <3> QED
      BY <1>3, <3>1 DEF ReconcilingLasts
  <2>8. ASSUME NEW u \in Tabs
        PROVE  FlushSound(u)'
    <3>1. CASE u # t
      <4>1. flush'[u] = Idle
        BY <1>3, <2>6, <3>1, FlushesAlone
      <4> QED
        BY <4>1 DEF FlushSound, Flushing
    <3>2. CASE u = t
      <4>1. ASSUME NEW i \in rows \ {id}
            PROVE  Settled(i)' \/ enqueued'[i].message_id \in before
        <5>1. enqueued'[i] = enqueued[i]
          BY <1>3
        <5>2. Settled(i) => Settled(i)'
          BY <1>2, <1>8, <5>1, SettledStays
        <5> QED
          BY <1>6, <5>1, <5>2
      <4> QED
        BY <1>6, <2>5, <2>6, <3>2, <4>1 DEF FlushSound, Flushing
    <3> QED
      BY <3>1, <3>2
  <2>9. PICK mutation, c, type0, value0 :
          /\ mutation \in Mutation /\ mutation = enqueued[id] /\ c = mutation.message_id
          /\ type0 = mutation.mutation_type /\ value0 = mutation.mutation_value
    BY <1>2, <2>2, EnqueuedMutations
  <2>10. c \in Messages /\ type0 \in Fields
    BY <2>9, ClickEvent
  <2>11. ASSUME NEW m \in Messages, NEW type, NEW value, Pending(m, type, value)
         PROVE  Pending(m, type, value)' \/ (m = c /\ type = type0 /\ value = value0)
    <3>1. PICK i \in DOMAIN sync_queue :
            sync_queue[i] = [mutation_type |-> type, message_id |-> m, mutation_value |-> value]
      BY <2>11 DEF Pending
    <3>2. CASE i = id
      <4>1. sync_queue[i] = enqueued[i]
        BY <1>2 DEF QueueInv, NoMutationForgotten, Restrict
      <4> QED
        BY <2>9, <3>1, <3>2, <4>1
    <3>3. CASE i # id
      <4>1. i \in DOMAIN sync_queue' /\ sync_queue'[i] = sync_queue[i]
        BY <2>3, <3>3 DEF Restrict
      <4> QED
        BY <3>1, <4>1 DEF Pending
    <3> QED
      BY <3>2, <3>3
  <2>12. PICK K : K = local /\ K = local'
    BY <1>8
  <2>13. ASSUME NEW m \in Messages
         PROVE  /\ K[m] = Absent <=> L[m] = Absent
                /\ K[m] # Absent =>
                     \A type \in Fields :
                       \/ Field(K[m], type) = Field(L[m], type)
                       \/ m \in unreconciled \/ ToBeReconciled(m)
                       \/ Pending(m, type, Field(K[m], type))'
                       \/ m = c /\ type = type0 /\ Field(K[m], type) = value0
    <3>1. /\ K[m] = Absent <=> L[m] = Absent
          /\ K[m] # Absent =>
               \A type \in Fields : \/ Field(K[m], type) = Field(L[m], type)
                                    \/ Excused(m, type, Field(K[m], type))
      BY <1>1, <2>12 DEF ButForClicks
    <3>2. ASSUME NEW type, Pending(m, type, Field(K[m], type))
          PROVE  \/ Pending(m, type, Field(K[m], type))'
                 \/ m = c /\ type = type0 /\ Field(K[m], type) = value0
      <4>1. PICK value : value = Field(K[m], type)
        OBVIOUS
      <4>2. Pending(m, type, value)' \/ (m = c /\ type = type0 /\ value = value0)
        BY <2>11, <3>2, <4>1
      <4> QED
        BY <4>1, <4>2
    <3> QED
      BY <3>1, <3>2 DEF Excused
  <2>14. ASSUME NEW L2, EngineInv(L2),
                \A m \in Messages :
                  /\ K[m] = Absent <=> L2[m] = Absent
                  /\ K[m] # Absent =>
                       \A type \in Fields : \/ Field(K[m], type) = Field(L2[m], type)
                                            \/ m \in unreconciled \/ ToBeReconciled(m)
                                            \/ Pending(m, type, Field(K[m], type))'
         PROVE  ClickInv'
    <3>1. EngineInv(L2)'
      BY <1>8, <2>14, EngineStands
    <3>2. ButForClicks(L2)'
      BY <2>7, <2>12, <2>14, ExcusesLast
    <3>3. local' \in Table
      BY <1>2, <1>8
    <3> QED
      BY <1>7, <2>8, <3>1, <3>2, <3>3 DEF ClickInv
  <2>15. CASE c \in before \/ ~(K[c] # Absent /\ Field(K[c], type0) = value0)
    <3>1. c \in before => ToBeReconciled(c)
      BY <1>3, <1>4 DEF ToBeReconciled
    <3> QED
      BY <1>1, <2>13, <2>14, <2>15, <3>1
  <2>16. CASE c \notin before /\ K[c] # Absent /\ Field(K[c], type0) = value0
    <3>1. Settled(id)
      BY <1>6, <2>2, <2>9, <2>16
    <3>2. PICK row \in Row : ServerHad(c, row) /\ Field(row, type0) = value0
      BY <2>9, <3>1 DEF Settled
    <3>3. PICK old \in Row : old = L[c]
      BY <1>2, <2>10, <2>13, <2>16 DEF Table
    <3>4. PICK new, L2 : new = Merged(old, row, type0) /\ L2 = [L EXCEPT ![c] = new]
      OBVIOUS
    <3>5. EngineInv(L2)
      <4>1. \A u \in Tabs : run[u] = Idle
        BY <1>3, FlushesAlone
      <4>2. L[c] # Absent
        BY <3>3, AbsentAssumption
      <4> QED
        BY <1>1, <2>10, <3>2, <3>3, <3>4, <4>1, <4>2, FieldWritten
    <3>6. L2[c] = new /\ \A m \in Messages \ {c} : L2[m] = L[m]
      BY <1>2, <2>10, <3>4 DEF Table
    <3>7. /\ new \in Row
          /\ \A type \in Fields :
               Field(new, type) = IF type = type0 THEN value0 ELSE Field(old, type)
      <4>1. /\ new \in Row
            /\ \A flag \in Flags :
                 new.flags[flag] = IF flag = type0 THEN row.flags[flag] ELSE old.flags[flag]
        BY <2>10, <3>4, MergedFlags
      <4>2. /\ type0 = "move" => new.folder_id = row.folder_id
            /\ type0 # "move" => new.folder_id = old.folder_id
        BY <2>10, <3>4, MergedFolder
      <4> QED
        BY <2>10, <3>2, <4>1, <4>2, QueueAssumption DEF Fields, Field
    <3>8. ASSUME NEW m \in Messages
           PROVE  /\ K[m] = Absent <=> L2[m] = Absent
                  /\ K[m] # Absent =>
                       \A type \in Fields : \/ Field(K[m], type) = Field(L2[m], type)
                                            \/ m \in unreconciled \/ ToBeReconciled(m)
                                            \/ Pending(m, type, Field(K[m], type))'
      <4>1. CASE m # c
        BY <2>13, <3>6, <4>1
      <4>2. CASE m = c
        <5>1. L2[m] # Absent
          BY <3>6, <3>7, <4>2, AbsentAssumption
        <5>2. ASSUME NEW type \in Fields
              PROVE  \/ Field(K[m], type) = Field(L2[m], type)
                     \/ m \in unreconciled \/ ToBeReconciled(m)
                     \/ Pending(m, type, Field(K[m], type))'
          <6>1. CASE type = type0
            BY <2>16, <3>6, <3>7, <4>2, <6>1
          <6>2. CASE type # type0
            BY <2>13, <2>16, <3>3, <3>6, <3>7, <4>2, <6>2
          <6> QED
            BY <6>1, <6>2
        <5> QED
          BY <2>16, <4>2, <5>1, <5>2
      <4> QED
        BY <4>1, <4>2
    <3> QED
      BY <2>14, <3>5, <3>8
  <2> QED
    BY <2>15, <2>16
<1> QED
  BY <1>9, <1>10

-----------------------------------------------------------------------------
(* Theorems about the rows                                                 *)

LEMMA ClickInit == QInit => ClickInv
<1> SUFFICES ASSUME QInit PROVE ClickInv
  OBVIOUS
<1>1. PICK L : L = local
  OBVIOUS
<1>2. EngineInv(L)
  BY <1>1, EngineInit DEF QInit
<1>3. local \in Table
  BY <1>1, <1>2 DEF EngineInv, TableInv
<1>4. ButForClicks(L)
  BY <1>1 DEF ButForClicks
<1>5. \A t \in Tabs : FlushSound(t)
  BY DEF QInit, FlushSound, Flushing
<1>6. QueueInv
  BY QueueInit
<1> QED
  BY <1>2, <1>3, <1>4, <1>5, <1>6 DEF ClickInv

LEMMA ClickSteps == ClickInv /\ OneBusy /\ OneBusy' /\ [QNext]_qVars => ClickInv'
<1> SUFFICES ASSUME ClickInv, OneBusy, OneBusy', [QNext]_qVars PROVE ClickInv'
  OBVIOUS
<1>1. CASE UNCHANGED qVars
  BY <1>1, ServerKeepsClicks
<1>2. CASE (Server \/ Settle) /\ UNCHANGED queueVars
  BY <1>2, ServerKeepsClicks
<1>3. CASE EnqueueMutation
  BY <1>3, EnqueueKeepsClicks
<1>4. ASSUME NEW p \in Posts, ProcessMutation(p) PROVE ClickInv'
  BY <1>4, ProcessKeepsClicks
<1>5. ASSUME NEW t \in Tabs, Sync(t) PROVE ClickInv'
  BY <1>5, SyncKeepsClicks
<1>6. ASSUME NEW t \in Tabs, Flush(t) PROVE ClickInv'
  BY <1>6, PostKeepsClicks, AnswerKeepsClicks, DeleteKeepsClicks, GetKeepsClicks,
     OverwriteKeepsClicks DEF Flush
<1>7. ASSUME NEW t \in Tabs, Trouble(t) PROVE ClickInv'
  BY <1>7, SyncKeepsClicks, LoseKeepsClicks, GetFailsKeepsClicks, CloseKeepsClicks DEF Trouble
<1> QED
  BY <1>1, <1>2, <1>3, <1>4, <1>5, <1>6, <1>7 DEF QNext

LEMMA ClicksShown == ClickInv => ShowsServerOrPending
<1> SUFFICES ASSUME ClickInv, ~unsignalled, NEW m \in Messages, m \notin unreconciled,
                    local[m] # Absent, ~ToBeReconciled(m)
             PROVE
      LET seen == {v \in last_sync_version..last_version : history[v][m] # Absent}
          Waiting(type, value) ==
            \E id \in DOMAIN sync_queue :
              sync_queue[id] = [mutation_type |-> type, message_id |-> m,
                                mutation_value |-> value]
      IN /\ \A flag \in Flags : \/ Waiting(flag, local[m].flags[flag])
                               \/ \E s \in seen : history[s][m].flags[flag] = local[m].flags[flag]
         /\ \/ Waiting("move", local[m].folder_id)
            \/ \E s \in seen : history[s][m].folder_id = local[m].folder_id
  BY DEF ShowsServerOrPending
<1>1. PICK L : EngineInv(L) /\ ButForClicks(L)
  BY DEF ClickInv
<1>2. /\ L[m] # Absent
      /\ \A type \in Fields : \/ Field(local[m], type) = Field(L[m], type)
                              \/ Pending(m, type, Field(local[m], type))
  BY <1>1 DEF ButForClicks, Excused
<1>3. Shows(m, L[m], last_sync_version)
  BY <1>1, <1>2 DEF EngineInv, StaleInv, NotStale
<1>4. ASSUME NEW flag \in Flags
      PROVE  \/ Pending(m, flag, local[m].flags[flag])
             \/ \E s \in {v \in last_sync_version..last_version : history[v][m] # Absent} :
                  history[s][m].flags[flag] = local[m].flags[flag]
  <2>1. /\ flag \in Fields /\ Field(local[m], flag) = local[m].flags[flag]
        /\ Field(L[m], flag) = L[m].flags[flag]
    BY QueueAssumption DEF Fields, Field
  <2> QED
    BY <1>2, <1>3, <2>1 DEF Shows
<1>5. \/ Pending(m, "move", local[m].folder_id)
      \/ \E s \in {v \in last_sync_version..last_version : history[v][m] # Absent} :
           history[s][m].folder_id = local[m].folder_id
  <2>1. /\ "move" \in Fields /\ Field(local[m], "move") = local[m].folder_id
        /\ Field(L[m], "move") = L[m].folder_id
    BY DEF Fields, Field
  <2> QED
    BY <1>2, <1>3, <2>1 DEF Shows
<1> QED
  BY <1>4, <1>5 DEF Pending

\* OPTI-4, sync/queue.ts: what a row shows is a click that is still in the queue, or what the
\* server showed at or after the persisted cursor. However many clicks are made on however
\* many messages, whichever of them the worker commits, finds done already or refuses, whenever
\* answers are lost and tabs closed, and whatever other clients do: as long as tabs synchronise
\* one at a time.
THEOREM RowsShowServerOrClicks == QSpec /\ []OneBusy => []ShowsServerOrPending
BY ClickInit, ClickSteps, ClicksShown, PTL DEF QSpec

\* A profile with the mailbox open in one tab meets the condition: runSync starts nothing while
\* the store is syncing. (A mailbox that is left and opened again over its own flush counts as a
\* second tab, since openMailbox makes the store idle.)
THEOREM OneTabShowsServerOrClicks ==
  ASSUME \A t, u \in Tabs : t = u
  PROVE  QSpec => []ShowsServerOrPending
<1>1. OneBusy
  BY DEF OneBusy
<1> QED
  BY <1>1, RowsShowServerOrClicks, PTL

\* When a run ends, the rows are those of the server's table at the cursor it reports, field
\* by field but for clicks that are still in the queue.  The retention stamp is no field: what
\* the browser wrote for a move that the worker found done is left on the row.
SyncedButForClicks(t) ==
  \A m \in Messages :
    /\ local[m] = Absent <=> history[run[t].cursor][m] = Absent
    /\ local[m] # Absent =>
         \A type \in Fields : \/ Field(local[m], type) = Field(history[run[t].cursor][m], type)
                              \/ Excused(m, type, Field(local[m], type))

\* runSync and doRunDeltaSync together: after every delta run, the one that ends a flush
\* included, the profile shows the mailbox of the reported cursor. Nothing of a refused,
\* overtaken or lost click is left, but what is still in the queue, is still to be fetched
\* or could not be fetched.
THEOREM RunsLeaveTheServersRows ==
  QSpec /\ []OneBusy =>
    [][\A t \in Tabs : FinishSync(t) /\ ~unsignalled => SyncedButForClicks(t)]_qVars
<1>1. ClickInv /\ OneBusy =>
        [\A t \in Tabs : FinishSync(t) /\ ~unsignalled => SyncedButForClicks(t)]_qVars
  <2> SUFFICES ASSUME ClickInv, OneBusy, NEW t \in Tabs, FinishSync(t), ~unsignalled
               PROVE  SyncedButForClicks(t)
    OBVIOUS
  <2>1. Finish(t)
    BY DEF FinishSync
  <2>2. Alone(t)
    BY <2>1 DEF OneBusy, Busy, Alone, Finish, Idle
  <2>3. PICK L : EngineInv(L) /\ ButForClicks(L)
    BY DEF ClickInv
  <2>4. L = history[run[t].cursor]
    BY <2>1, <2>2, <2>3, FinishKeeps
  <2> QED
    BY <2>3, <2>4 DEF ButForClicks, SyncedButForClicks
<1> QED
  BY <1>1, ClickInit, ClickSteps, PTL DEF QSpec
=============================================================================
