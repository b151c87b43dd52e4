--------------------------- MODULE MailViewsProofs ---------------------------
(***************************************************************************)
(* The views a mailbox is read in, MailboxView and MessageView: what a     *)
(* step of each keeps.  ScreensProofs carries it over to Spec.             *)
(*                                                                         *)
(* Requests under way are sequences in the order in which they began, from *)
(* any place of which an answer may come: the first lemmas, which all      *)
(* views share, say what is left.                                          *)
(***************************************************************************)
EXTENDS Screens, UnderWay, FiniteSetTheorems, SequenceTheorems, TLAPS

-----------------------------------------------------------------------------
(* Sequences                                                               *)

\* A function on 1 .. n is a sequence.
LEMMA ListOf ==
  ASSUME NEW S, NEW n \in Nat, NEW f \in [1 .. n -> S]
  PROVE  f \in Seq(S) /\ Len(f) = n /\ DOMAIN f = 1 .. n
OBVIOUS

\* Its elements are where it says.
LEMMA ElementOf ==
  ASSUME NEW S, NEW s \in Seq(S), NEW i \in DOMAIN s
  PROVE  s[i] \in S
BY LenProperties, ElementOfSeq

\* What Without leaves, place by place.
LEMMA Removed ==
  ASSUME NEW S, NEW s \in Seq(S), NEW i \in DOMAIN s
  PROVE  /\ Without(s, i) \in Seq(S)
         /\ Len(Without(s, i)) = Len(s) - 1
         /\ DOMAIN Without(s, i) = 1 .. Len(s) - 1
         /\ \A j \in 1 .. Len(s) - 1 :
              Without(s, i)[j] = IF j < i THEN s[j] ELSE s[j + 1]
<1> DEFINE before == SubSeq(s, 1, i - 1)
           after == SubSeq(s, i + 1, Len(s))
<1>1. Len(s) \in Nat /\ DOMAIN s = 1 .. Len(s) /\ i \in 1 .. Len(s)
  BY LenProperties
<1>2. /\ before \in Seq(S)
      /\ Len(before) = i - 1
      /\ \A j \in 1 .. i - 1 : before[j] = s[j]
  <2>1. \A j \in 1 .. i - 1 : s[j] \in S
    BY <1>1, ElementOfSeq
  <2> QED
    BY <1>1, <2>1, SubSeqProperties
<1>3. /\ after \in Seq(S)
      /\ Len(after) = Len(s) - i
      /\ \A j \in 1 .. Len(s) - i : after[j] = s[i + j]
  <2>1. \A j \in i + 1 .. Len(s) : s[j] \in S
    BY <1>1, ElementOfSeq
  <2> QED
    BY <1>1, <2>1, SubSeqProperties
<1>4. Without(s, i) = before \o after
  BY DEF Without
<1> HIDE DEF before, after
<1>5. /\ Without(s, i) \in Seq(S)
      /\ Len(Without(s, i)) = Len(s) - 1
      /\ \A j \in 1 .. Len(s) - 1 : Without(s, i)[j] = IF j <= i - 1 THEN before[j] ELSE after[j - (i - 1)]
  <2>1. /\ before \o after \in Seq(S)
        /\ Len(before \o after) = Len(before) + Len(after)
        /\ \A j \in 1 .. Len(before) + Len(after) : (before \o after)[j] =
             IF j <= Len(before) THEN before[j] ELSE after[j - Len(before)]
    BY <1>2, <1>3, ConcatProperties
  <2>2. Len(before) + Len(after) = Len(s) - 1
    BY <1>1, <1>2, <1>3
  <2> QED
    BY <1>2, <1>4, <2>1, <2>2
<1>6. ASSUME NEW j \in 1 .. Len(s) - 1
      PROVE  Without(s, i)[j] = IF j < i THEN s[j] ELSE s[j + 1]
  <2>1. CASE j < i
    BY <1>1, <1>2, <1>5, <2>1
  <2>2. CASE ~(j < i)
    <3>1. j - (i - 1) \in 1 .. Len(s) - i /\ i + (j - (i - 1)) = j + 1
      BY <1>1, <2>2
    <3>2. after[j - (i - 1)] = s[j + 1]
      BY <1>3, <3>1
    <3> QED
      BY <1>1, <1>5, <2>2, <3>2
  <2> QED
    BY <2>1, <2>2
<1> QED
  BY <1>1, <1>5, <1>6, LenProperties

\* And as a collection: all but one.
LEMMA RemovedOne ==
  ASSUME NEW S, NEW s \in Seq(S), NEW i \in DOMAIN s
  PROVE  /\ Without(s, i) \in Seq(S)
         /\ \A j \in DOMAIN Without(s, i) : \E k \in DOMAIN s :
              k # i /\ Without(s, i)[j] = s[k]
         /\ \A k \in DOMAIN s : k # i =>
              \E j \in DOMAIN Without(s, i) : Without(s, i)[j] = s[k]
<1>1. Len(s) \in Nat /\ DOMAIN s = 1 .. Len(s) /\ i \in 1 .. Len(s)
  BY LenProperties
<1>2. ASSUME NEW j \in DOMAIN Without(s, i)
      PROVE  \E k \in DOMAIN s : k # i /\ Without(s, i)[j] = s[k]
  <2>1. CASE j < i
    <3>1. j \in 1 .. Len(s) - 1 /\ j \in DOMAIN s /\ j # i
      BY <1>1, <2>1, Removed
    <3> QED
      BY <3>1, <2>1, Removed
  <2>2. CASE ~(j < i)
    <3>1. j + 1 \in DOMAIN s /\ j + 1 # i
      BY <1>1, <2>2, Removed
    <3> QED
      BY <3>1, <2>2, Removed
  <2> QED
    BY <2>1, <2>2
<1>3. ASSUME NEW k \in DOMAIN s, k # i
      PROVE  \E j \in DOMAIN Without(s, i) : Without(s, i)[j] = s[k]
  <2>1. CASE k < i
    <3>1. k \in 1 .. Len(s) - 1
      BY <1>1, <2>1
    <3> QED
      BY <3>1, <2>1, Removed
  <2>2. CASE ~(k < i)
    <3>1. k - 1 \in 1 .. Len(s) - 1 /\ ~(k - 1 < i) /\ (k - 1) + 1 = k
      BY <1>1, <1>3, <2>2
    <3>2. Without(s, i)[k - 1] = s[(k - 1) + 1]
      BY <3>1, Removed
    <3> QED
      BY <3>1, <3>2, Removed
  <2> QED
    BY <2>1, <2>2
<1> QED
  BY <1>2, <1>3, Removed

\* Where each of them was: the places correspond one to one.
Place(i, j) == IF j < i THEN j ELSE j + 1

LEMMA RemovedPlaces ==
  ASSUME NEW S, NEW s \in Seq(S), NEW i \in DOMAIN s
  PROVE  /\ Without(s, i) \in Seq(S)
         /\ \A j \in DOMAIN Without(s, i) :
              /\ Place(i, j) \in DOMAIN s /\ Place(i, j) # i
              /\ Without(s, i)[j] = s[Place(i, j)]
         /\ \A j, k \in DOMAIN Without(s, i) : Place(i, j) = Place(i, k) => j = k
         /\ \A k \in DOMAIN s : k # i => \E j \in DOMAIN Without(s, i) : Place(i, j) = k
<1>1. Len(s) \in Nat /\ DOMAIN s = 1 .. Len(s) /\ i \in 1 .. Len(s)
  BY LenProperties
<1>2. ASSUME NEW j \in DOMAIN Without(s, i)
      PROVE  /\ j \in 1 .. Len(s) - 1
             /\ Place(i, j) \in DOMAIN s /\ Place(i, j) # i
             /\ Without(s, i)[j] = s[Place(i, j)]
  <2>1. j \in 1 .. Len(s) - 1 /\ Without(s, i)[j] = IF j < i THEN s[j] ELSE s[j + 1]
    BY Removed
  <2> QED
    BY <1>1, <2>1 DEF Place
<1>3. \A j, k \in DOMAIN Without(s, i) : Place(i, j) = Place(i, k) => j = k
  BY <1>1, <1>2 DEF Place
<1>4. ASSUME NEW k \in DOMAIN s, k # i
      PROVE  \E j \in DOMAIN Without(s, i) : Place(i, j) = k
  <2>1. CASE k < i
    <3>1. k \in DOMAIN Without(s, i) /\ Place(i, k) = k
      BY <1>1, <2>1, Removed DEF Place
    <3> QED
      BY <3>1
  <2>2. CASE ~(k < i)
    <3>1. k - 1 \in DOMAIN Without(s, i) /\ Place(i, k - 1) = k
      BY <1>1, <1>4, <2>2, Removed DEF Place
    <3> QED
      BY <3>1
  <2> QED
    BY <2>1, <2>2
<1> QED
  BY <1>2, <1>3, <1>4, Removed

\* What Append leaves, place by place.
LEMMA Appended ==
  ASSUME NEW S, NEW s \in Seq(S), NEW e \in S
  PROVE  /\ Append(s, e) \in Seq(S)
         /\ Len(Append(s, e)) = Len(s) + 1
         /\ DOMAIN Append(s, e) = 1 .. Len(s) + 1
         /\ \A i \in DOMAIN s : i \in DOMAIN Append(s, e) /\ Append(s, e)[i] = s[i]
         /\ Len(s) + 1 \in DOMAIN Append(s, e) /\ Append(s, e)[Len(s) + 1] = e
         /\ \A i \in DOMAIN Append(s, e) : i \in DOMAIN s \/ i = Len(s) + 1
BY AppendProperties, LenProperties

-----------------------------------------------------------------------------
(* The mailbox: its synchronisation                                        *)

SyncStates ==
  {Mailbox!Idle} \cup [stage : {"delta", "flush"}, of : Mailboxes]
  \cup [stage : {"count"}, of : Mailboxes, verdict : {"synced", "error"}]
Running(r, b) == syncs[r] # Mailbox!Idle /\ syncs[r].of = b

SyncTypes ==
  /\ mailboxId \in Mailboxes \cup {None}
  /\ syncs \in [Runs -> SyncStates]
  /\ inflightRuns \subseteq Mailboxes

\* Only a mailbox that was flushed counts its pending rows with "synced" as verdict.
CountedWasFlushed == \A r \in Runs : syncs[r].stage = "count" => syncs[r].of \in flushed

\* A delta run under way has a caller that waits for it.
DeltaHasCaller ==
  \A b \in inflightRuns : \E r \in Runs : Running(r, b) /\ syncs[r].stage = "delta"

\* Unless the mailbox was left and opened again over its runSync, that is the only one,
\* and turns the spinner.
OneRunSync ==
  ~doubled => /\ \A r, s \in Runs : Running(r, mailboxId) /\ Running(s, mailboxId) => r = s
              /\ \A r \in Runs : Running(r, mailboxId) => syncStatus = "syncing"

SyncInv ==
  /\ SyncTypes /\ CountedWasFlushed /\ DeltaHasCaller /\ OneRunSync
  /\ Mailbox!SyncingMeansRunning /\ Mailbox!SyncedWasFlushed

syncState == <<mailboxId, syncStatus, syncs, inflightRuns, flushed, doubled, broken>>

\* A run is idle or has a mailbox.
LEMMA RunTyped ==
  ASSUME SyncInv, NEW r \in Runs
  PROVE  /\ syncs[r] \in SyncStates
         /\ syncs[r] # Mailbox!Idle =>
              syncs[r].of \in Mailboxes /\ syncs[r].of # None
              /\ syncs[r].stage \in {"delta", "flush", "count"}
         /\ syncs[r] = Mailbox!Idle => syncs[r].stage = "idle"
<1>1. syncs[r] \in SyncStates
  BY DEF SyncInv, SyncTypes
<1>2. None \notin Mailboxes
  BY ScreensAssumption DEF ScreensAssumption
<1> QED
  BY <1>1, <1>2 DEF SyncStates, Mailbox!Idle

LEMMA SyncStarts == Mailbox!Init => SyncInv
<1> SUFFICES ASSUME Mailbox!Init PROVE SyncInv
  OBVIOUS
<1>1. /\ mailboxId = None /\ syncStatus = "idle" /\ syncs = [r \in Runs |-> Mailbox!Idle]
      /\ inflightRuns = {}
  BY DEF Mailbox!Init
<1>2. \A r \in Runs : syncs[r] = Mailbox!Idle /\ syncs[r].stage = "idle"
  BY <1>1 DEF Mailbox!Idle
<1>3. SyncTypes
  BY <1>1 DEF SyncTypes, SyncStates
<1> QED
  BY <1>1, <1>2, <1>3 DEF SyncInv, CountedWasFlushed, DeltaHasCaller, OneRunSync, Running,
     Mailbox!SyncingMeansRunning, Mailbox!SyncedWasFlushed

LEMMA SyncStays == SyncInv /\ UNCHANGED syncState => SyncInv'
BY DEF syncState, SyncInv, SyncTypes, CountedWasFlushed, DeltaHasCaller, OneRunSync, Running,
   Mailbox!SyncingMeansRunning, Mailbox!SyncedWasFlushed, Mailbox!RunOf

\* runSync begins, for the mailbox that is open from now on.
LEMMA SyncBegins ==
  ASSUME SyncInv, NEW b \in Mailboxes, Mailbox!Sync(b), mailboxId' = b, UNCHANGED flushed
  PROVE  SyncInv'
<1>1. PICK n \in Runs :
        /\ syncs[n] = Mailbox!Idle
        /\ syncs' = [syncs EXCEPT ![n] = [stage |-> "delta", of |-> b]]
  BY DEF Mailbox!Sync, Mailbox!First
<1>2. /\ inflightRuns' = inflightRuns \cup {b} /\ syncStatus' = "syncing"
      /\ doubled' = Mailbox!RunOf(b)
  BY DEF Mailbox!Sync
<1>3. /\ syncs \in [Runs -> SyncStates] /\ inflightRuns \subseteq Mailboxes
      /\ CountedWasFlushed /\ DeltaHasCaller
  BY DEF SyncInv, SyncTypes
<1>4. [stage |-> "delta", of |-> b] \in SyncStates /\ [stage |-> "delta", of |-> b] # Mailbox!Idle
  BY DEF SyncStates, Mailbox!Idle
<1>5. /\ syncs' \in [Runs -> SyncStates]
      /\ syncs'[n] = [stage |-> "delta", of |-> b]
      /\ \A r \in Runs : r # n => syncs'[r] = syncs[r]
  BY <1>1, <1>3, <1>4
<1>6. SyncTypes'
  BY <1>2, <1>3, <1>5 DEF SyncTypes
<1>7. CountedWasFlushed'
  BY <1>3, <1>5 DEF CountedWasFlushed
<1>8. /\ \A r \in Runs : \A q : Running(r, q)' <=> (Running(r, q) \/ (r = n /\ q = b))
      /\ \A r \in Runs : \A q : Running(r, q) => r # n
  BY <1>1, <1>4, <1>5 DEF Running
<1>9. DeltaHasCaller'
  <2> SUFFICES ASSUME NEW q \in inflightRuns'
               PROVE  \E r \in Runs : Running(r, q)' /\ syncs'[r].stage = "delta"
    BY DEF DeltaHasCaller
  <2>1. CASE q = b
    BY <1>5, <1>8, <2>1
  <2>2. CASE q \in inflightRuns
    <3>1. PICK r \in Runs : Running(r, q) /\ syncs[r].stage = "delta"
      BY <1>3, <2>2 DEF DeltaHasCaller
    <3> QED
      BY <1>5, <1>8, <3>1
  <2> QED
    BY <1>2, <2>1, <2>2
<1>10. OneRunSync'
  <2> SUFFICES ASSUME ~doubled'
               PROVE  /\ \A r, s \in Runs : Running(r, b)' /\ Running(s, b)' => r = s
                      /\ \A r \in Runs : Running(r, b)' => syncStatus' = "syncing"
    BY DEF OneRunSync, Running
  <2>1. ~Mailbox!RunOf(b)
    BY <1>2
  <2>2. \A r \in Runs : ~Running(r, b)
    BY <2>1 DEF Running, Mailbox!RunOf
  <2> QED
    BY <1>2, <1>8, <2>2
<1>11. Mailbox!SyncingMeansRunning' /\ Mailbox!SyncedWasFlushed'
  BY <1>2, <1>4, <1>5 DEF Mailbox!SyncingMeansRunning, Mailbox!SyncedWasFlushed, Mailbox!RunOf
<1> QED
  BY <1>6, <1>7, <1>9, <1>10, <1>11 DEF SyncInv

\* The delta run of b ends.
LEMMA SyncDeltaEnds == SyncInv /\ Mailbox!DeltaEnds => SyncInv'
<1> SUFFICES ASSUME SyncInv, Mailbox!DeltaEnds PROVE SyncInv'
  OBVIOUS
<1>1. PICK b \in inflightRuns, result \in {"ok", "offline", "error"} :
       /\ inflightRuns' = inflightRuns \ {b}
       /\ syncs' = [r \in Runs |->
                     IF syncs[r] # Mailbox!Idle /\ syncs[r].stage = "delta" /\ syncs[r].of = b
                     THEN IF mailboxId = b /\ result = "ok"
                          THEN [syncs[r] EXCEPT !.stage = "flush"] ELSE Mailbox!Idle
                     ELSE syncs[r]]
       /\ syncStatus' = IF mailboxId = b /\ result # "ok" THEN result ELSE syncStatus
  BY DEF Mailbox!DeltaEnds
<1>2. UNCHANGED <<mailboxId, flushed, doubled, broken>>
  BY DEF Mailbox!DeltaEnds
<1>3. /\ SyncTypes /\ CountedWasFlushed /\ DeltaHasCaller /\ OneRunSync
      /\ Mailbox!SyncingMeansRunning /\ Mailbox!SyncedWasFlushed
  BY DEF SyncInv
<1> DEFINE Ends(r) == syncs[r] # Mailbox!Idle /\ syncs[r].stage = "delta" /\ syncs[r].of = b
           goesOn == mailboxId = b /\ result = "ok"
<1>4. \A r \in Runs : syncs'[r] = IF Ends(r) THEN IF goesOn THEN [stage |-> "flush", of |-> b]
                                                  ELSE Mailbox!Idle
                                  ELSE syncs[r]
  <2> SUFFICES ASSUME NEW r \in Runs, Ends(r), goesOn
               PROVE  [syncs[r] EXCEPT !.stage = "flush"] = [stage |-> "flush", of |-> b]
    BY <1>1
  <2>1. syncs[r] \in SyncStates
    BY RunTyped
  <2> QED
    BY <2>1 DEF SyncStates, Mailbox!Idle
<1>5. b \in Mailboxes
  BY <1>3 DEF SyncTypes
<1>6. [stage |-> "flush", of |-> b] \in SyncStates /\ [stage |-> "flush", of |-> b] # Mailbox!Idle
      /\ Mailbox!Idle \in SyncStates /\ Mailbox!Idle.stage = "idle"
  BY <1>5 DEF SyncStates, Mailbox!Idle
<1>7. \A r \in Runs : \A q : Running(r, q)' <=> Running(r, q) /\ (Ends(r) => goesOn)
  BY <1>4, <1>6 DEF Running
<1>8. SyncTypes'
  <2>1. \A r \in Runs : syncs'[r] \in SyncStates
    BY <1>4, <1>6, RunTyped
  <2>2. syncs' \in [Runs -> SyncStates]
    <3>1. syncs' = [r \in Runs |-> syncs'[r]]
      BY <1>1
    <3> QED
      BY <2>1, <3>1
  <2> QED
    BY <1>1, <1>2, <1>3, <2>2 DEF SyncTypes
<1>9. CountedWasFlushed'
  BY <1>2, <1>3, <1>4, <1>6 DEF CountedWasFlushed
<1>10. DeltaHasCaller'
  <2> SUFFICES ASSUME NEW q \in inflightRuns, q # b
               PROVE  \E r \in Runs : Running(r, q)' /\ syncs'[r].stage = "delta"
    BY <1>1 DEF DeltaHasCaller
  <2>1. PICK r \in Runs : Running(r, q) /\ syncs[r].stage = "delta"
    BY <1>3 DEF DeltaHasCaller
  <2> QED
    BY <1>4, <1>7, <2>1 DEF Running
<1>11. \A r \in Runs : mailboxId = b /\ ~doubled /\ Running(r, b) => Ends(r)
  <2>1. PICK s \in Runs : Running(s, b) /\ syncs[s].stage = "delta"
    BY <1>3 DEF DeltaHasCaller
  <2> QED
    BY <1>3, <2>1 DEF OneRunSync, Running
<1>12. OneRunSync'
  <2> SUFFICES ASSUME ~doubled
               PROVE  /\ \A r, s \in Runs : Running(r, mailboxId)' /\ Running(s, mailboxId)' => r = s
                      /\ \A r \in Runs : Running(r, mailboxId)' => syncStatus' = "syncing"
    BY <1>2 DEF OneRunSync, Running
  <2>1. \A r, s \in Runs : Running(r, mailboxId)' /\ Running(s, mailboxId)' => r = s
    BY <1>2, <1>3, <1>7 DEF OneRunSync
  <2>2. ASSUME NEW r \in Runs, Running(r, mailboxId)'
        PROVE  syncStatus' = "syncing"
    <3>1. Running(r, mailboxId) /\ (Ends(r) => goesOn)
      BY <1>2, <1>7, <2>2
    <3>2. syncStatus = "syncing"
      BY <1>3, <3>1 DEF OneRunSync
    <3>3. ~(mailboxId = b /\ result # "ok")
      BY <1>11, <3>1
    <3> QED
      BY <1>1, <3>2, <3>3
  <2> QED
    BY <2>1, <2>2
<1>13. Mailbox!SyncingMeansRunning'
  <2> SUFFICES ASSUME syncStatus' = "syncing", ~broken
               PROVE  \E r \in Runs : Running(r, mailboxId)'
    BY <1>2 DEF Mailbox!SyncingMeansRunning, Mailbox!RunOf, Running
  <2>1. syncStatus = "syncing" /\ ~(mailboxId = b /\ result # "ok")
    BY <1>1
  <2>2. PICK r \in Runs : Running(r, mailboxId)
    BY <1>3, <2>1 DEF Mailbox!SyncingMeansRunning, Mailbox!RunOf, Running
  <2>3. Ends(r) => goesOn
    BY <2>1, <2>2 DEF Running
  <2> QED
    BY <1>2, <1>7, <2>2, <2>3
<1>14. Mailbox!SyncedWasFlushed'
  BY <1>1, <1>2, <1>3 DEF Mailbox!SyncedWasFlushed
<1> QED
  BY <1>8, <1>9, <1>10, <1>12, <1>13, <1>14 DEF SyncInv

\* Runs end, or go on to the next stage, and nothing else happens but what is said.
LEMMA SyncDeltaThrows == SyncInv /\ Mailbox!DeltaThrows => SyncInv'
<1> SUFFICES ASSUME SyncInv, Mailbox!DeltaThrows PROVE SyncInv'
  OBVIOUS
<1>1. PICK b \in inflightRuns :
       /\ inflightRuns' = inflightRuns \ {b}
       /\ syncs' = [r \in Runs |->
                     IF syncs[r] # Mailbox!Idle /\ syncs[r].stage = "delta" /\ syncs[r].of = b
                     THEN Mailbox!Idle ELSE syncs[r]]
       /\ broken' = TRUE
  BY DEF Mailbox!DeltaThrows
<1>2. UNCHANGED <<mailboxId, syncStatus, flushed, doubled>>
  BY DEF Mailbox!DeltaThrows, Mailbox!storeVars
<1>3. /\ SyncTypes /\ CountedWasFlushed /\ DeltaHasCaller /\ OneRunSync
      /\ Mailbox!SyncedWasFlushed
  BY DEF SyncInv
<1> DEFINE Ends(r) == syncs[r] # Mailbox!Idle /\ syncs[r].stage = "delta" /\ syncs[r].of = b
<1>4. /\ \A r \in Runs : syncs'[r] = IF Ends(r) THEN Mailbox!Idle ELSE syncs[r]
      /\ Mailbox!Idle \in SyncStates /\ Mailbox!Idle.stage = "idle"
  BY <1>1 DEF SyncStates, Mailbox!Idle
<1>5. \A r \in Runs : \A q : Running(r, q)' <=> Running(r, q) /\ ~Ends(r)
  BY <1>4 DEF Running
<1>6. SyncTypes'
  <2>1. \A r \in Runs : syncs'[r] \in SyncStates
    BY <1>4, RunTyped
  <2>2. syncs' \in [Runs -> SyncStates]
    <3>1. syncs' = [r \in Runs |-> syncs'[r]]
      BY <1>1
    <3> QED
      BY <2>1, <3>1
  <2> QED
    BY <1>1, <1>2, <1>3, <2>2 DEF SyncTypes
<1>7. CountedWasFlushed'
  BY <1>2, <1>3, <1>4 DEF CountedWasFlushed
<1>8. DeltaHasCaller'
  <2> SUFFICES ASSUME NEW q \in inflightRuns, q # b
               PROVE  \E r \in Runs : Running(r, q)' /\ syncs'[r].stage = "delta"
    BY <1>1 DEF DeltaHasCaller
  <2>1. PICK r \in Runs : Running(r, q) /\ syncs[r].stage = "delta"
    BY <1>3 DEF DeltaHasCaller
  <2> QED
    BY <1>4, <1>5, <2>1 DEF Running
<1>9. OneRunSync'
  <2> SUFFICES ASSUME ~doubled
               PROVE  /\ \A r, s \in Runs : Running(r, mailboxId)' /\ Running(s, mailboxId)' => r = s
                      /\ \A r \in Runs : Running(r, mailboxId)' => syncStatus' = "syncing"
    BY <1>2 DEF OneRunSync, Running
  <2> QED
    BY <1>2, <1>3, <1>5 DEF OneRunSync
<1>10. Mailbox!SyncingMeansRunning'
  BY <1>1 DEF Mailbox!SyncingMeansRunning
<1>11. Mailbox!SyncedWasFlushed'
  BY <1>2, <1>3 DEF Mailbox!SyncedWasFlushed
<1> QED
  BY <1>6, <1>7, <1>8, <1>9, <1>10, <1>11 DEF SyncInv

LEMMA SyncFlushEnds == SyncInv /\ Mailbox!FlushEnds => SyncInv'
<1> SUFFICES ASSUME SyncInv, Mailbox!FlushEnds PROVE SyncInv'
  OBVIOUS
<1>1. PICK n \in Runs, blocked \in BOOLEAN :
       /\ syncs[n].stage = "flush"
       /\ syncs' = [syncs EXCEPT ![n] = IF mailboxId = syncs[n].of
                        THEN [stage |-> "count", of |-> syncs[n].of,
                              verdict |-> IF blocked THEN "error" ELSE "synced"]
                        ELSE Mailbox!Idle]
       /\ flushed' = IF mailboxId = syncs[n].of THEN flushed \cup {mailboxId} ELSE flushed
  BY DEF Mailbox!FlushEnds
<1>2. UNCHANGED <<mailboxId, syncStatus, inflightRuns, doubled, broken>>
  BY DEF Mailbox!FlushEnds, Mailbox!storeVars
<1>3. /\ SyncTypes /\ CountedWasFlushed /\ DeltaHasCaller /\ OneRunSync
      /\ Mailbox!SyncingMeansRunning /\ Mailbox!SyncedWasFlushed
  BY DEF SyncInv
<1> DEFINE of == syncs[n].of
           new == IF mailboxId = of THEN [stage |-> "count", of |-> of,
                                          verdict |-> IF blocked THEN "error" ELSE "synced"]
                  ELSE Mailbox!Idle
<1>4. of \in Mailboxes /\ syncs[n] # Mailbox!Idle
  BY <1>1, RunTyped
<1>5. /\ new \in SyncStates /\ (new # Mailbox!Idle <=> mailboxId = of)
      /\ mailboxId = of => new.of = of /\ new.stage = "count"
      /\ mailboxId # of => new.stage = "idle"
  BY <1>4 DEF SyncStates, Mailbox!Idle
<1>6. /\ syncs' \in [Runs -> SyncStates] /\ syncs'[n] = new
      /\ \A r \in Runs : r # n => syncs'[r] = syncs[r]
  BY <1>1, <1>3, <1>5 DEF SyncTypes
<1>7. Running(n, of)
  BY <1>4 DEF Running
<1> HIDE DEF new
<1>8. \A r \in Runs : \A q : Running(r, q)' <=> Running(r, q) /\ (r = n => mailboxId = of)
  BY <1>5, <1>6, <1>7 DEF Running
<1>9. SyncTypes'
  BY <1>2, <1>3, <1>6 DEF SyncTypes
<1>10. CountedWasFlushed'
  <2> SUFFICES ASSUME NEW r \in Runs, syncs'[r].stage = "count"
               PROVE  syncs'[r].of \in flushed'
    BY DEF CountedWasFlushed
  <2>1. CASE r = n
    BY <1>1, <1>5, <1>6, <2>1
  <2>2. CASE r # n
    BY <1>1, <1>3, <1>6, <2>2 DEF CountedWasFlushed
  <2> QED
    BY <2>1, <2>2
<1>11. DeltaHasCaller'
  <2> SUFFICES ASSUME NEW q \in inflightRuns
               PROVE  \E r \in Runs : Running(r, q)' /\ syncs'[r].stage = "delta"
    BY <1>2 DEF DeltaHasCaller
  <2>1. PICK r \in Runs : Running(r, q) /\ syncs[r].stage = "delta"
    BY <1>3 DEF DeltaHasCaller
  <2>2. r # n
    BY <1>1, <2>1
  <2> QED
    BY <1>6, <1>8, <2>1, <2>2
<1>12. OneRunSync'
  <2> SUFFICES ASSUME ~doubled
               PROVE  /\ \A r, s \in Runs : Running(r, mailboxId)' /\ Running(s, mailboxId)' => r = s
                      /\ \A r \in Runs : Running(r, mailboxId)' => syncStatus' = "syncing"
    BY <1>2 DEF OneRunSync, Running
  <2> QED
    BY <1>2, <1>3, <1>8 DEF OneRunSync
<1>13. Mailbox!SyncingMeansRunning'
  <2> SUFFICES ASSUME syncStatus = "syncing", ~broken
               PROVE  \E r \in Runs : Running(r, mailboxId)'
    BY <1>2 DEF Mailbox!SyncingMeansRunning, Mailbox!RunOf, Running
  <2>1. PICK r \in Runs : Running(r, mailboxId)
    BY <1>3 DEF Mailbox!SyncingMeansRunning, Mailbox!RunOf, Running
  <2>2. r = n => mailboxId = of
    BY <2>1 DEF Running
  <2> QED
    BY <1>2, <1>8, <2>1, <2>2
<1>14. Mailbox!SyncedWasFlushed'
  BY <1>1, <1>2, <1>3 DEF Mailbox!SyncedWasFlushed
<1> QED
  BY <1>9, <1>10, <1>11, <1>12, <1>13, <1>14 DEF SyncInv

LEMMA SyncRunCounted == SyncInv /\ Mailbox!RunCounted => SyncInv'
<1> SUFFICES ASSUME SyncInv, Mailbox!RunCounted PROVE SyncInv'
  OBVIOUS
<1>1. PICK n \in Runs :
       /\ syncs[n].stage = "count"
       /\ syncs' = [syncs EXCEPT ![n] = Mailbox!Idle]
       /\ syncStatus' = IF mailboxId = syncs[n].of THEN syncs[n].verdict ELSE syncStatus
  BY DEF Mailbox!RunCounted, Mailbox!Report
<1>2. UNCHANGED <<mailboxId, inflightRuns, flushed, doubled, broken>>
  BY DEF Mailbox!RunCounted
<1>3. /\ SyncTypes /\ CountedWasFlushed /\ DeltaHasCaller /\ OneRunSync
      /\ Mailbox!SyncingMeansRunning /\ Mailbox!SyncedWasFlushed
  BY DEF SyncInv
<1> DEFINE of == syncs[n].of
<1>4. /\ of \in Mailboxes /\ syncs[n] # Mailbox!Idle /\ syncs[n].verdict \in {"synced", "error"}
      /\ Mailbox!Idle \in SyncStates /\ Mailbox!Idle.stage = "idle" /\ of \in flushed
  <2>1. syncs[n] \in SyncStates
    BY RunTyped
  <2> QED
    BY <1>1, <1>3, <2>1 DEF SyncStates, Mailbox!Idle, CountedWasFlushed
<1>5. /\ syncs' \in [Runs -> SyncStates] /\ syncs'[n] = Mailbox!Idle
      /\ \A r \in Runs : r # n => syncs'[r] = syncs[r]
  BY <1>1, <1>3, <1>4 DEF SyncTypes
<1>6. \A r \in Runs : \A q : Running(r, q)' <=> Running(r, q) /\ r # n
  BY <1>5 DEF Running
<1>7. Running(n, of)
  BY <1>4 DEF Running
<1>8. SyncTypes'
  BY <1>2, <1>3, <1>5 DEF SyncTypes
<1>9. CountedWasFlushed'
  BY <1>2, <1>3, <1>4, <1>5 DEF CountedWasFlushed
<1>10. DeltaHasCaller'
  <2> SUFFICES ASSUME NEW q \in inflightRuns
               PROVE  \E r \in Runs : Running(r, q)' /\ syncs'[r].stage = "delta"
    BY <1>2 DEF DeltaHasCaller
  <2>1. PICK r \in Runs : Running(r, q) /\ syncs[r].stage = "delta"
    BY <1>3 DEF DeltaHasCaller
  <2> QED
    BY <1>1, <1>5, <1>6, <2>1
<1>11. OneRunSync'
  <2> SUFFICES ASSUME ~doubled
               PROVE  /\ \A r, s \in Runs : Running(r, mailboxId)' /\ Running(s, mailboxId)' => r = s
                      /\ \A r \in Runs : Running(r, mailboxId)' => syncStatus' = "syncing"
    BY <1>2 DEF OneRunSync, Running
  <2>1. \A r, s \in Runs : Running(r, mailboxId) /\ Running(s, mailboxId) => r = s
    BY <1>3 DEF OneRunSync
  <2>2. ASSUME NEW r \in Runs, Running(r, mailboxId)'
        PROVE  syncStatus' = "syncing"
    <3>1. Running(r, mailboxId) /\ r # n
      BY <1>2, <1>6, <2>2
    <3>2. mailboxId # of
      BY <1>7, <2>1, <3>1
    <3> QED
      BY <1>1, <1>3, <3>1, <3>2 DEF OneRunSync
  <2> QED
    BY <1>2, <1>6, <2>1, <2>2
<1>12. Mailbox!SyncingMeansRunning'
  <2> SUFFICES ASSUME syncStatus' = "syncing", ~broken
               PROVE  \E r \in Runs : Running(r, mailboxId)'
    BY <1>2 DEF Mailbox!SyncingMeansRunning, Mailbox!RunOf, Running
  <2>1. mailboxId # of /\ syncStatus = "syncing"
    BY <1>1, <1>4
  <2>2. PICK r \in Runs : Running(r, mailboxId)
    BY <1>3, <2>1 DEF Mailbox!SyncingMeansRunning, Mailbox!RunOf, Running
  <2>3. r # n
    BY <2>1, <2>2 DEF Running
  <2> QED
    BY <1>2, <1>6, <2>2, <2>3
<1>13. Mailbox!SyncedWasFlushed'
  BY <1>1, <1>2, <1>3, <1>4 DEF Mailbox!SyncedWasFlushed
<1> QED
  BY <1>8, <1>9, <1>10, <1>11, <1>12, <1>13 DEF SyncInv

\* The count of a run throws: it goes on as synced, or ends.
LEMMA SyncRunCountThrows == SyncInv /\ Mailbox!RunCountThrows => SyncInv'
<1> SUFFICES ASSUME SyncInv, Mailbox!RunCountThrows PROVE SyncInv'
  OBVIOUS
<1>1. PICK n \in Runs :
       /\ syncs[n].stage = "count"
       /\ \/ /\ mailboxId = syncs[n].of
             /\ syncs' = [syncs EXCEPT ![n].verdict = "synced"]
             /\ UNCHANGED broken
          \/ /\ syncs' = [syncs EXCEPT ![n] = Mailbox!Idle]
             /\ broken' = (broken \/ mailboxId = syncs[n].of)
  BY DEF Mailbox!RunCountThrows
<1>2. UNCHANGED <<mailboxId, syncStatus, inflightRuns, flushed, doubled>>
  BY DEF Mailbox!RunCountThrows, Mailbox!storeVars
<1>3. /\ SyncTypes /\ CountedWasFlushed /\ DeltaHasCaller /\ OneRunSync
      /\ Mailbox!SyncingMeansRunning /\ Mailbox!SyncedWasFlushed
  BY DEF SyncInv
<1> DEFINE of == syncs[n].of
           new == [stage |-> "count", of |-> of, verdict |-> "synced"]
<1>4. /\ of \in Mailboxes /\ syncs[n] # Mailbox!Idle /\ of \in flushed
      /\ [syncs[n] EXCEPT !.verdict = "synced"] = new
      /\ new \in SyncStates /\ new # Mailbox!Idle /\ new.of = of /\ new.stage = "count"
      /\ Mailbox!Idle \in SyncStates /\ Mailbox!Idle.stage = "idle"
  <2>1. syncs[n] \in SyncStates
    BY RunTyped
  <2> QED
    BY <1>1, <1>3, <2>1 DEF SyncStates, Mailbox!Idle, CountedWasFlushed
<1>5. Running(n, of)
  BY <1>4 DEF Running
<1> HIDE DEF new
<1>6. \/ syncs'[n] = new /\ mailboxId = of /\ UNCHANGED broken
      \/ syncs'[n] = Mailbox!Idle /\ broken' = (broken \/ mailboxId = of)
  BY <1>1, <1>3, <1>4 DEF SyncTypes
<1>7. /\ syncs' \in [Runs -> SyncStates]
      /\ \A r \in Runs : r # n => syncs'[r] = syncs[r]
  BY <1>1, <1>3, <1>4 DEF SyncTypes
<1>8. \A r \in Runs : \A q : Running(r, q)' => Running(r, q)
  BY <1>4, <1>5, <1>6, <1>7 DEF Running
<1>9. \A r \in Runs : \A q : Running(r, q) /\ r # n => Running(r, q)'
  BY <1>7 DEF Running
<1>10. broken => broken'
  BY <1>6
<1>11. SyncTypes'
  BY <1>2, <1>3, <1>7, <1>10 DEF SyncTypes
<1>12. CountedWasFlushed'
  BY <1>2, <1>3, <1>4, <1>6, <1>7 DEF CountedWasFlushed
<1>13. DeltaHasCaller'
  <2> SUFFICES ASSUME NEW q \in inflightRuns
               PROVE  \E r \in Runs : Running(r, q)' /\ syncs'[r].stage = "delta"
    BY <1>2 DEF DeltaHasCaller
  <2>1. PICK r \in Runs : Running(r, q) /\ syncs[r].stage = "delta"
    BY <1>3 DEF DeltaHasCaller
  <2> QED
    BY <1>1, <1>7, <1>9, <2>1
<1>14. OneRunSync'
  BY <1>2, <1>3, <1>8 DEF OneRunSync, Running
<1>15. Mailbox!SyncingMeansRunning'
  <2> SUFFICES ASSUME syncStatus = "syncing", ~broken'
               PROVE  \E r \in Runs : Running(r, mailboxId)'
    BY <1>2 DEF Mailbox!SyncingMeansRunning, Mailbox!RunOf, Running
  <2>1. PICK r \in Runs : Running(r, mailboxId)
    BY <1>3, <1>10 DEF Mailbox!SyncingMeansRunning, Mailbox!RunOf, Running
  <2>2. CASE r # n
    BY <1>2, <1>9, <2>1, <2>2
  <2>3. CASE r = n
    <3>1. mailboxId = of
      BY <2>1, <2>3 DEF Running
    <3>2. syncs'[n] = new
      BY <1>6, <3>1
    <3> QED
      BY <1>2, <1>4, <3>1, <3>2 DEF Running
  <2> QED
    BY <2>2, <2>3
<1>16. Mailbox!SyncedWasFlushed'
  BY <1>2, <1>3 DEF Mailbox!SyncedWasFlushed
<1> QED
  BY <1>11, <1>12, <1>13, <1>14, <1>15, <1>16 DEF SyncInv

LEMMA SyncCloses == SyncInv /\ Mailbox!CloseMailbox => SyncInv'
<1> SUFFICES ASSUME SyncInv, Mailbox!CloseMailbox PROVE SyncInv'
  OBVIOUS
<1>1. /\ mailboxId' = None /\ syncStatus' = "idle" /\ doubled' = FALSE
      /\ UNCHANGED <<syncs, inflightRuns, flushed>>
  BY DEF Mailbox!CloseMailbox
<1>2. /\ SyncTypes /\ CountedWasFlushed /\ DeltaHasCaller
  BY DEF SyncInv
<1>3. \A r \in Runs : \A q : Running(r, q)' <=> Running(r, q)
  BY <1>1 DEF Running
<1>4. \A r \in Runs : ~Running(r, None)
  BY RunTyped DEF Running
<1>5. SyncTypes' /\ CountedWasFlushed'
  BY <1>1, <1>2 DEF SyncTypes, CountedWasFlushed
<1>6. DeltaHasCaller'
  BY <1>1, <1>2, <1>3 DEF DeltaHasCaller
<1>7. OneRunSync'
  BY <1>1, <1>3, <1>4 DEF OneRunSync
<1>8. Mailbox!SyncingMeansRunning' /\ Mailbox!SyncedWasFlushed'
  BY <1>1 DEF Mailbox!SyncingMeansRunning, Mailbox!SyncedWasFlushed
<1> QED
  BY <1>5, <1>6, <1>7, <1>8 DEF SyncInv

LEMMA SyncSteps == SyncInv /\ Mailbox!Next => SyncInv'
<1> SUFFICES ASSUME SyncInv, Mailbox!Next PROVE SyncInv'
  OBVIOUS
<1>1. CASE \/ Mailbox!LoadPending \/ Mailbox!LoadRows \/ Mailbox!LoadTotal \/ Mailbox!LoadFails
           \/ Mailbox!SelectFolder \/ Mailbox!Search \/ Mailbox!GoNext \/ Mailbox!GoPrev
           \/ Mailbox!Retry \/ Mailbox!LoadReady \/ Mailbox!ReadEnds \/ Mailbox!Enqueue
           \/ Mailbox!EnqueueCommits \/ Mailbox!EnqueueCounted \/ Mailbox!DeltaApplies
           \/ Mailbox!Unmount
  <2>1. UNCHANGED syncState
    BY <1>1 DEF syncState, Mailbox!storeVars, Mailbox!LoadPending, Mailbox!LoadRows,
       Mailbox!LoadTotal, Mailbox!LoadFails, Mailbox!SelectFolder, Mailbox!Search, Mailbox!GoNext,
       Mailbox!GoPrev, Mailbox!Retry, Mailbox!LoadReady, Mailbox!ReadEnds, Mailbox!Enqueue,
       Mailbox!EnqueueCommits, Mailbox!EnqueueCounted, Mailbox!DeltaApplies, Mailbox!Unmount
  <2> QED
    BY <2>1, SyncStays
<1>2. CASE Mailbox!RunSync
  <2>1. mailboxId \in Mailboxes
    BY <1>2 DEF Mailbox!RunSync, SyncInv, SyncTypes
  <2>2. PICK b \in Mailboxes : b = mailboxId
    BY <2>1
  <2>3. Mailbox!Sync(b) /\ mailboxId' = b /\ UNCHANGED flushed
    BY <1>2, <2>2 DEF Mailbox!RunSync
  <2> QED
    BY <2>3, SyncBegins
<1>3. CASE Mailbox!Mount
  <2>1. PICK b \in Mailboxes :
          \/ UNCHANGED <<mailboxId, syncStatus, pendingCount, syncs, inflightRuns, doubled, broken>>
          \/ Mailbox!OpenMailbox(b)
    BY <1>3 DEF Mailbox!Mount
  <2>2. UNCHANGED flushed
    BY <1>3 DEF Mailbox!Mount
  <2>3. CASE UNCHANGED <<mailboxId, syncStatus, pendingCount, syncs, inflightRuns, doubled, broken>>
    BY <2>2, <2>3, SyncStays DEF syncState
  <2>4. CASE Mailbox!OpenMailbox(b)
    BY <2>2, <2>4, SyncBegins DEF Mailbox!OpenMailbox
  <2> QED
    BY <2>1, <2>3, <2>4
<1> QED
  BY <1>1, <1>2, <1>3, SyncDeltaEnds, SyncDeltaThrows, SyncFlushEnds, SyncRunCounted,
     SyncRunCountThrows, SyncCloses DEF Mailbox!Next

-----------------------------------------------------------------------------
(* The mailbox: the folder cache                                           *)

Projections == [of : Mailboxes, from : Nat, missed : BOOLEAN]
Caches ==
  [of : Mailboxes \cup {None}, status : {"idle", "loading", "ready", "stale", "error"},
   rows : Projections \cup {None}]
CallStates ==
  {Mailbox!Idle} \cup [stage : {"ready", "wait", "read"}, of : Mailboxes, force : BOOLEAN,
                       from : Nat, on : Calls \cup {None}, live : BOOLEAN, missed : BOOLEAN]
ClickStates ==
  {Mailbox!Idle} \cup [stage : {"write", "count"}, of : Mailboxes, rev : Nat, live : BOOLEAN]

CacheTypes ==
  /\ rev \in [Mailboxes -> Nat] /\ acked \in [Mailboxes -> Nat]
  /\ click \in ClickStates /\ cache \in Caches
  /\ calls \in [Calls -> CallStates] /\ inflight \in Calls \cup {None}

\* What was acknowledged is in the local database.
AckedIsThere ==
  /\ \A b \in Mailboxes : acked[b] <= rev[b]
  /\ click.stage = "count" => click.rev <= rev[click.of]

\* A read under way will find what was acknowledged, unless it was told that it may not.
ReadsAreFresh ==
  \A c \in Calls : calls[c].stage = "read" /\ ~calls[c].missed => calls[c].from >= acked[calls[c].of]

\* Who waits, waits for a read of the same mailbox.
WaitsForRead ==
  /\ inflight # None => inflight \in Calls /\ calls[inflight].stage = "read"
  /\ \A c \in Calls : calls[c].stage = "wait" =>
       /\ calls[c].on \in Calls /\ calls[calls[c].on].stage = "read"
       /\ calls[calls[c].on].of = calls[c].of

CacheInv ==
  /\ CacheTypes /\ AckedIsThere /\ ReadsAreFresh /\ WaitsForRead
  /\ Mailbox!CacheBelongs /\ Mailbox!ReadyIsFresh

cacheState == <<rev, click, cache, calls, inflight, acked>>

LEMMA CallTyped ==
  ASSUME CacheInv, NEW c \in Calls
  PROVE  /\ calls[c] \in CallStates
         /\ calls[c].stage \in {"ready", "wait", "read"} =>
              /\ calls[c] # Mailbox!Idle /\ calls[c].of \in Mailboxes /\ calls[c].from \in Nat
              /\ calls[c].missed \in BOOLEAN
         /\ calls[c].stage \in {"idle", "ready", "wait", "read"}
         /\ calls[c] = Mailbox!Idle => calls[c].stage = "idle"
<1>1. calls[c] \in CallStates
  BY DEF CacheInv, CacheTypes
<1> QED
  BY <1>1 DEF CallStates, Mailbox!Idle

LEMMA CacheStarts == Mailbox!Init => CacheInv
<1> SUFFICES ASSUME Mailbox!Init PROVE CacheInv
  OBVIOUS
<1>1. /\ rev = [b \in Mailboxes |-> 0] /\ acked = [b \in Mailboxes |-> 0]
      /\ click = Mailbox!Idle /\ cache = [of |-> None, status |-> "idle", rows |-> None]
      /\ calls = [c \in Calls |-> Mailbox!Idle] /\ inflight = None
  BY DEF Mailbox!Init, Mailbox!Empty
<1>2. CacheTypes
  BY <1>1 DEF CacheTypes, ClickStates, Caches, CallStates
<1>3. AckedIsThere /\ ReadsAreFresh /\ WaitsForRead
  BY <1>1 DEF AckedIsThere, ReadsAreFresh, WaitsForRead, Mailbox!Idle
<1>4. Mailbox!CacheBelongs /\ Mailbox!ReadyIsFresh
  BY <1>1 DEF Mailbox!CacheBelongs, Mailbox!ReadyIsFresh
<1> QED
  BY <1>2, <1>3, <1>4 DEF CacheInv

LEMMA CacheStays == CacheInv /\ UNCHANGED cacheState => CacheInv'
BY DEF cacheState, CacheInv, CacheTypes, AckedIsThere, ReadsAreFresh, WaitsForRead,
   Mailbox!CacheBelongs, Mailbox!ReadyIsFresh

\* load begins.
LEMMA LoadKeeps ==
  ASSUME CacheInv, NEW b \in Mailboxes, NEW force \in BOOLEAN, Mailbox!Load(b, force),
         UNCHANGED <<rev, click, acked>>
  PROVE  CacheInv'
<1> DEFINE call == [stage |-> "ready", of |-> b, force |-> force, from |-> rev[b],
                    on |-> inflight, live |-> TRUE, missed |-> FALSE]
<1>1. PICK n \in Calls :
        /\ calls[n] = Mailbox!Idle
        /\ \/ /\ calls' = [calls EXCEPT ![n] = call] /\ UNCHANGED <<cache, inflight>>
           \/ /\ inflight # None /\ calls[inflight].of = b
              /\ calls' = [calls EXCEPT ![n] = [call EXCEPT !.stage = "wait"]]
              /\ UNCHANGED <<cache, inflight>>
           \/ /\ calls' = [calls EXCEPT ![n] = [call EXCEPT !.stage = "read"]]
              /\ cache' = Mailbox!Loading(b) /\ inflight' = n
  BY DEF Mailbox!Load, Mailbox!First
<1>2. /\ rev \in [Mailboxes -> Nat] /\ acked \in [Mailboxes -> Nat]
      /\ calls \in [Calls -> CallStates] /\ inflight \in Calls \cup {None} /\ cache \in Caches
      /\ click \in ClickStates
      /\ AckedIsThere /\ ReadsAreFresh /\ WaitsForRead
      /\ Mailbox!CacheBelongs /\ Mailbox!ReadyIsFresh
  BY DEF CacheInv, CacheTypes
<1>3. \E new \in CallStates :
        /\ new.of = b /\ new.from = rev[b] /\ new.on = inflight /\ new.missed = FALSE
        /\ new.stage \in {"ready", "wait", "read"}
        /\ calls' = [calls EXCEPT ![n] = new]
        /\ new.stage = "wait" => inflight # None /\ calls[inflight].of = b
        /\ IF new.stage = "read" THEN cache' = Mailbox!Loading(b) /\ inflight' = n
           ELSE UNCHANGED <<cache, inflight>>
  <2> DEFINE wait == [call EXCEPT !.stage = "wait"]
             read == [call EXCEPT !.stage = "read"]
  <2>1. /\ call \in CallStates /\ wait \in CallStates /\ read \in CallStates
        /\ call.stage = "ready" /\ wait.stage = "wait" /\ read.stage = "read"
        /\ call.of = b /\ wait.of = b /\ read.of = b
        /\ call.from = rev[b] /\ wait.from = rev[b] /\ read.from = rev[b]
        /\ call.on = inflight /\ wait.on = inflight /\ read.on = inflight
        /\ call.missed = FALSE /\ wait.missed = FALSE /\ read.missed = FALSE
    BY <1>2 DEF CallStates
  <2>2. \/ calls' = [calls EXCEPT ![n] = call] /\ UNCHANGED <<cache, inflight>>
        \/ /\ inflight # None /\ calls[inflight].of = b
           /\ calls' = [calls EXCEPT ![n] = wait]
           /\ UNCHANGED <<cache, inflight>>
        \/ /\ calls' = [calls EXCEPT ![n] = read]
           /\ cache' = Mailbox!Loading(b) /\ inflight' = n
    BY <1>1
  <2> HIDE DEF call, wait, read
  <2> QED
    BY <2>1, <2>2
<1>4. PICK new \in CallStates :
        /\ new.of = b /\ new.from = rev[b] /\ new.on = inflight /\ new.missed = FALSE
        /\ new.stage \in {"ready", "wait", "read"}
        /\ calls' = [calls EXCEPT ![n] = new]
        /\ new.stage = "wait" => inflight # None /\ calls[inflight].of = b
        /\ IF new.stage = "read" THEN cache' = Mailbox!Loading(b) /\ inflight' = n
           ELSE UNCHANGED <<cache, inflight>>
  BY <1>3
<1>6. /\ calls' \in [Calls -> CallStates] /\ calls'[n] = new
      /\ \A c \in Calls : c # n => calls'[c] = calls[c]
      /\ calls[n].stage = "idle"
  BY <1>1, <1>2, <1>4 DEF Mailbox!Idle
<1>7. cache' \in Caches /\ Mailbox!CacheBelongs' /\ Mailbox!ReadyIsFresh'
  <2>1. CASE new.stage = "read"
    <3>1. cache' = [of |-> b, status |-> "loading", rows |-> IF cache.of = b THEN cache.rows ELSE None]
      BY <1>4, <2>1 DEF Mailbox!Loading
    <3>2. cache.rows \in Projections \cup {None} /\ (cache.rows # None => cache.rows.of = cache.of)
      BY <1>2 DEF Caches, Mailbox!CacheBelongs
    <3> QED
      BY <3>1, <3>2 DEF Caches, Mailbox!CacheBelongs, Mailbox!ReadyIsFresh
  <2>2. CASE new.stage # "read"
    BY <1>2, <1>4, <2>2 DEF Mailbox!CacheBelongs, Mailbox!ReadyIsFresh
  <2> QED
    BY <2>1, <2>2
<1>8. inflight' \in Calls \cup {None}
  BY <1>2, <1>4
<1>9. CacheTypes'
  BY <1>2, <1>6, <1>7, <1>8 DEF CacheTypes
<1>10. AckedIsThere'
  BY <1>2 DEF AckedIsThere
<1>11. ReadsAreFresh'
  <2> SUFFICES ASSUME NEW c \in Calls, calls'[c].stage = "read", ~calls'[c].missed
               PROVE  calls'[c].from >= acked[calls'[c].of]
    BY DEF ReadsAreFresh
  <2>1. CASE c = n
    BY <1>2, <1>4, <1>6, <2>1 DEF AckedIsThere
  <2>2. CASE c # n
    BY <1>2, <1>6, <2>2 DEF ReadsAreFresh
  <2> QED
    BY <2>1, <2>2
<1>12. WaitsForRead'
  <2>1. inflight' # None => inflight' \in Calls /\ calls'[inflight'].stage = "read"
    <3>1. CASE new.stage = "read"
      BY <1>4, <1>6, <3>1
    <3>2. CASE new.stage # "read"
      BY <1>2, <1>4, <1>6, <3>2 DEF WaitsForRead
    <3> QED
      BY <3>1, <3>2
  <2>2. ASSUME NEW c \in Calls, calls'[c].stage = "wait"
        PROVE  /\ calls'[c].on \in Calls /\ calls'[calls'[c].on].stage = "read"
               /\ calls'[calls'[c].on].of = calls'[c].of
    <3>1. CASE c = n
      BY <1>2, <1>4, <1>6, <2>2, <3>1 DEF WaitsForRead
    <3>2. CASE c # n
      BY <1>2, <1>6, <2>2, <3>2 DEF WaitsForRead
    <3> QED
      BY <3>1, <3>2
  <2> QED
    BY <2>1, <2>2 DEF WaitsForRead
<1> QED
  BY <1>7, <1>9, <1>10, <1>11, <1>12 DEF CacheInv

\* A read ends, and those that waited for it end or read themselves.
LEMMA CacheReadEnds == CacheInv /\ Mailbox!ReadEnds => CacheInv'
<1> SUFFICES ASSUME CacheInv, Mailbox!ReadEnds PROVE CacheInv'
  OBVIOUS
<1> DEFINE Waiting(c) == {w \in Calls : calls[w].stage = "wait" /\ calls[w].on = c}
           Again(c) == {w \in Waiting(c) : calls[w].force}
           Done(c) == {c} \cup (Waiting(c) \ Again(c))
           Pub(c, ok) == Mailbox!Published(calls[c].of, calls[c].from, calls[c].missed, ok)
           RowsLeft(c, ok) == IF Again(c) = {} \/ Pub(c, ok).of = calls[c].of THEN Pub(c, ok).rows ELSE None
<1>1. PICK n \in Calls, ok \in BOOLEAN :
       /\ calls[n].stage = "read"
       /\ calls' = [w \in Calls |-> IF w \in Done(n) THEN Mailbox!Idle
                                    ELSE IF w \in Again(n)
                                    THEN [calls[w] EXCEPT !.stage = "read", !.from = rev[calls[n].of],
                                                          !.missed = FALSE]
                                    ELSE calls[w]]
       /\ cache' = IF Again(n) = {} THEN Pub(n, ok)
                   ELSE [of |-> calls[n].of, status |-> "loading", rows |-> RowsLeft(n, ok)]
       /\ IF Again(n) # {} THEN inflight' \in Again(n)
          ELSE inflight' = IF inflight = n THEN None ELSE inflight
  BY DEF Mailbox!ReadEnds
<1>2. UNCHANGED <<rev, click, acked>>
  BY DEF Mailbox!ReadEnds
<1> DEFINE b == calls[n].of
           waiting == Waiting(n)
           again == Again(n)
           done == Done(n)
           published == Pub(n, ok)
           rows1 == RowsLeft(n, ok)
<1>3. /\ \A w \in Calls : w \in waiting <=> calls[w].stage = "wait" /\ calls[w].on = n
      /\ again \subseteq waiting /\ waiting \subseteq Calls
      /\ \A w \in Calls : w \in done <=> w = n \/ (w \in waiting /\ w \notin again)
  OBVIOUS
<1>4. /\ calls' = [w \in Calls |-> IF w \in done THEN Mailbox!Idle
                                    ELSE IF w \in again
                                    THEN [calls[w] EXCEPT !.stage = "read", !.from = rev[b],
                                                          !.missed = FALSE]
                                    ELSE calls[w]]
      /\ cache' = IF again = {} THEN published
                  ELSE [of |-> b, status |-> "loading", rows |-> rows1]
      /\ IF again # {} THEN inflight' \in again
         ELSE inflight' = IF inflight = n THEN None ELSE inflight
  BY <1>1
<1>5. published = Mailbox!Published(b, calls[n].from, calls[n].missed, ok)
      /\ rows1 = IF again = {} \/ published.of = b THEN published.rows ELSE None
  OBVIOUS
<1>6. /\ rev \in [Mailboxes -> Nat] /\ acked \in [Mailboxes -> Nat]
      /\ calls \in [Calls -> CallStates] /\ inflight \in Calls \cup {None} /\ cache \in Caches
      /\ click \in ClickStates
      /\ AckedIsThere /\ ReadsAreFresh /\ WaitsForRead
      /\ Mailbox!CacheBelongs /\ Mailbox!ReadyIsFresh
  BY DEF CacheInv, CacheTypes
<1>7. b \in Mailboxes /\ calls[n].from \in Nat /\ calls[n].missed \in BOOLEAN
  BY <1>1, CallTyped
<1> HIDE DEF b, waiting, again, done, published, rows1, Waiting, Again, Done, Pub, RowsLeft
<1>8. /\ published \in Caches
      /\ published.rows # None => published.rows.of = published.of
      /\ published.status = "ready" /\ ~published.rows.missed => published.rows.from >= acked[published.of]
  <2>1. CASE cache.of # b
    <3>1. published = cache
      BY <1>5, <2>1 DEF Mailbox!Published
    <3> QED
      BY <1>6, <3>1 DEF Mailbox!CacheBelongs, Mailbox!ReadyIsFresh
  <2>2. CASE cache.of = b /\ ok
    <3>1. published = [of |-> b, status |-> "ready",
                       rows |-> [of |-> b, from |-> calls[n].from, missed |-> calls[n].missed]]
      BY <1>5, <2>2 DEF Mailbox!Published
    <3>2. ~calls[n].missed => calls[n].from >= acked[b]
      BY <1>1, <1>6 DEF ReadsAreFresh, b
    <3> QED
      BY <1>7, <3>1, <3>2 DEF Caches, Projections
  <2>3. CASE cache.of = b /\ ~ok
    <3>1. published = [of |-> b, status |-> "error", rows |-> None]
      BY <1>5, <2>3 DEF Mailbox!Published
    <3> QED
      BY <1>7, <3>1 DEF Caches
  <2> QED
    BY <2>1, <2>2, <2>3
<1>9. cache' \in Caches /\ Mailbox!CacheBelongs' /\ Mailbox!ReadyIsFresh'
  <2>1. CASE again = {}
    BY <1>2, <1>4, <1>8, <2>1 DEF Mailbox!CacheBelongs, Mailbox!ReadyIsFresh
  <2>2. CASE again # {}
    <3>1. rows1 \in Projections \cup {None} /\ (rows1 # None => rows1.of = b)
      BY <1>5, <1>8, <2>2 DEF Caches
    <3>2. cache' = [of |-> b, status |-> "loading", rows |-> rows1]
      BY <1>4, <2>2
    <3> QED
      BY <1>7, <3>1, <3>2 DEF Caches, Mailbox!CacheBelongs, Mailbox!ReadyIsFresh
  <2> QED
    BY <2>1, <2>2
<1>10. ASSUME NEW w \in again
       PROVE  /\ w \in Calls /\ w \notin done /\ calls[w].of = b /\ calls'[w] \in CallStates
              /\ calls'[w].stage = "read" /\ calls'[w].of = b /\ calls'[w].from = rev[b]
              /\ calls'[w].missed = FALSE
  <2>1. w \in Calls /\ calls[w].stage = "wait" /\ calls[w].on = n
    BY <1>3, <1>10
  <2>2. calls[w].of = b /\ w # n
    BY <1>1, <1>6, <2>1 DEF WaitsForRead, b
  <2>3. w \notin done
    BY <1>3, <1>10, <2>1, <2>2
  <2>4. calls'[w] = [calls[w] EXCEPT !.stage = "read", !.from = rev[b], !.missed = FALSE]
    BY <1>4, <1>10, <2>1, <2>3
  <2>5. calls[w] \in CallStates \ {Mailbox!Idle} /\ rev[b] \in Nat
    BY <1>6, <1>7, <2>1 DEF Mailbox!Idle
  <2> QED
    BY <2>1, <2>2, <2>3, <2>4, <2>5 DEF CallStates
<1>11. /\ \A w \in Calls : w \in done => calls'[w] = Mailbox!Idle /\ calls'[w].stage = "idle"
       /\ \A w \in Calls : w \notin done /\ w \notin again => calls'[w] = calls[w]
       /\ Mailbox!Idle \in CallStates
  BY <1>4 DEF Mailbox!Idle, CallStates
<1>12. calls' \in [Calls -> CallStates]
  <2>1. \A w \in Calls : calls'[w] \in CallStates
    BY <1>6, <1>10, <1>11
  <2>2. calls' = [w \in Calls |-> calls'[w]]
    BY <1>4
  <2> QED
    BY <2>1, <2>2
<1>13. inflight' \in Calls \cup {None}
  BY <1>3, <1>4, <1>6
<1>14. CacheTypes'
  BY <1>2, <1>6, <1>9, <1>12, <1>13 DEF CacheTypes
<1>15. AckedIsThere'
  BY <1>2, <1>6 DEF AckedIsThere
<1>16. ReadsAreFresh'
  <2> SUFFICES ASSUME NEW c \in Calls, calls'[c].stage = "read", ~calls'[c].missed
               PROVE  calls'[c].from >= acked[calls'[c].of]
    BY <1>2 DEF ReadsAreFresh
  <2>1. CASE c \in again
    BY <1>6, <1>7, <1>10, <2>1 DEF AckedIsThere
  <2>2. CASE c \notin again
    BY <1>6, <1>11, <2>2 DEF ReadsAreFresh
  <2> QED
    BY <2>1, <2>2
<1>17. \A c \in Calls : calls[c].stage = "read" /\ c # n =>
                          calls'[c] = calls[c] /\ calls'[c].stage = "read"
  BY <1>3, <1>11
<1>18. WaitsForRead'
  <2>1. inflight' # None => inflight' \in Calls /\ calls'[inflight'].stage = "read"
    <3>1. CASE again # {}
      BY <1>4, <1>10, <3>1
    <3>2. CASE again = {}
      BY <1>4, <1>6, <1>17, <3>2 DEF WaitsForRead
    <3> QED
      BY <3>1, <3>2
  <2>2. ASSUME NEW c \in Calls, calls'[c].stage = "wait"
        PROVE  /\ calls'[c].on \in Calls /\ calls'[calls'[c].on].stage = "read"
               /\ calls'[calls'[c].on].of = calls'[c].of
    <3>1. c \notin done /\ c \notin again /\ calls'[c] = calls[c]
      BY <1>10, <1>11, <2>2
    <3>2. calls[c].stage = "wait" /\ calls[c].on # n
      BY <1>3, <2>2, <3>1
    <3>3. calls[c].on \in Calls /\ calls[calls[c].on].stage = "read"
          /\ calls[calls[c].on].of = calls[c].of
      BY <1>6, <3>2 DEF WaitsForRead
    <3> QED
      BY <1>17, <3>1, <3>2, <3>3
  <2> QED
    BY <2>1, <2>2 DEF WaitsForRead
<1> QED
  BY <1>9, <1>14, <1>15, <1>16, <1>18 DEF CacheInv

\* Databases grow, and calls that nobody listens to any more are the same calls.
LEMMA CacheDelta == CacheInv /\ Mailbox!DeltaApplies => CacheInv'
<1> SUFFICES ASSUME CacheInv, Mailbox!DeltaApplies PROVE CacheInv'
  OBVIOUS
<1>1. PICK b \in Mailboxes : rev' = [rev EXCEPT ![b] = @ + 1]
  BY DEF Mailbox!DeltaApplies
<1>2. UNCHANGED <<click, cache, calls, inflight, acked>>
  BY DEF Mailbox!DeltaApplies, Mailbox!cacheVars
<1>3. rev \in [Mailboxes -> Nat] /\ acked \in [Mailboxes -> Nat] /\ click \in ClickStates
      /\ AckedIsThere
  BY DEF CacheInv, CacheTypes
<1>4. /\ rev' \in [Mailboxes -> Nat] /\ \A q \in Mailboxes : rev'[q] >= rev[q] /\ rev[q] \in Nat
      /\ \A q \in Mailboxes : acked[q] \in Nat /\ rev'[q] \in Nat
  BY <1>1, <1>3
<1>5. AckedIsThere'
  <2>1. \A q \in Mailboxes : acked[q] <= rev'[q]
    BY <1>3, <1>4 DEF AckedIsThere
  <2>2. click.stage = "count" => click.of \in Mailboxes /\ click.rev \in Nat /\ click.rev <= rev[click.of]
    BY <1>3 DEF AckedIsThere, ClickStates, Mailbox!Idle
  <2>3. click.stage = "count" => click.rev <= rev'[click.of]
    BY <1>4, <2>2
  <2> QED
    BY <1>2, <2>1, <2>3 DEF AckedIsThere
<1> QED
  BY <1>2, <1>4, <1>5 DEF CacheInv, CacheTypes, ReadsAreFresh, WaitsForRead,
     Mailbox!CacheBelongs, Mailbox!ReadyIsFresh

LEMMA CacheUnheard ==
  ASSUME CacheInv, calls' = Mailbox!Unheard, cache' = cache \/ cache' = Mailbox!Empty,
         click' = IF click = Mailbox!Idle THEN Mailbox!Idle ELSE [click EXCEPT !.live = FALSE],
         UNCHANGED <<rev, inflight, acked>>
  PROVE  CacheInv'
<1>1. /\ rev \in [Mailboxes -> Nat] /\ acked \in [Mailboxes -> Nat]
      /\ calls \in [Calls -> CallStates] /\ inflight \in Calls \cup {None} /\ cache \in Caches
      /\ click \in ClickStates
      /\ AckedIsThere /\ ReadsAreFresh /\ WaitsForRead
      /\ Mailbox!CacheBelongs /\ Mailbox!ReadyIsFresh
  BY DEF CacheInv, CacheTypes
<1>2. calls' = [c \in Calls |-> IF calls[c] = Mailbox!Idle THEN Mailbox!Idle
                                ELSE [calls[c] EXCEPT !.live = FALSE]]
  BY DEF Mailbox!Unheard
<1>3. ASSUME NEW c \in Calls
      PROVE  /\ calls'[c] \in CallStates /\ calls'[c].stage = calls[c].stage
             /\ calls[c].stage # "idle" =>
                  /\ calls'[c].of = calls[c].of /\ calls'[c].from = calls[c].from
                  /\ calls'[c].missed = calls[c].missed /\ calls'[c].on = calls[c].on
  <2>1. calls[c] \in CallStates
    BY <1>1
  <2>2. CASE calls[c] = Mailbox!Idle
    BY <1>2, <2>2 DEF CallStates, Mailbox!Idle
  <2>3. CASE calls[c] # Mailbox!Idle
    <3>1. calls'[c] = [calls[c] EXCEPT !.live = FALSE]
      BY <1>2, <2>3
    <3> QED
      BY <2>1, <2>3, <3>1 DEF CallStates
  <2> QED
    BY <2>2, <2>3
<1>4. calls' \in [Calls -> CallStates]
  <2>1. calls' = [c \in Calls |-> calls'[c]]
    BY <1>2
  <2> QED
    BY <1>3, <2>1
<1>5. /\ click' \in ClickStates
      /\ click'.stage = "count" => click.stage = "count" /\ click'.rev = click.rev /\ click'.of = click.of
  BY <1>1 DEF ClickStates, Mailbox!Idle
<1>6. cache' \in Caches /\ Mailbox!CacheBelongs' /\ Mailbox!ReadyIsFresh'
  <2>1. CASE cache' = cache
    BY <1>1, <2>1 DEF Mailbox!CacheBelongs, Mailbox!ReadyIsFresh
  <2>2. CASE cache' = Mailbox!Empty
    BY <2>2 DEF Mailbox!Empty, Caches, Mailbox!CacheBelongs, Mailbox!ReadyIsFresh
  <2> QED
    BY <2>1, <2>2
<1>7. CacheTypes'
  BY <1>1, <1>4, <1>5, <1>6 DEF CacheTypes
<1>8. AckedIsThere'
  BY <1>1, <1>5 DEF AckedIsThere
<1>9. ReadsAreFresh'
  BY <1>1, <1>3 DEF ReadsAreFresh
<1>10. WaitsForRead'
  <2>1. inflight' # None => inflight' \in Calls /\ calls'[inflight'].stage = "read"
    BY <1>1, <1>3 DEF WaitsForRead
  <2>2. ASSUME NEW c \in Calls, calls'[c].stage = "wait"
        PROVE  /\ calls'[c].on \in Calls /\ calls'[calls'[c].on].stage = "read"
               /\ calls'[calls'[c].on].of = calls'[c].of
    <3>1. calls[c].stage = "wait" /\ calls'[c].on = calls[c].on /\ calls'[c].of = calls[c].of
      BY <1>3, <2>2
    <3>2. calls[c].on \in Calls /\ calls[calls[c].on].stage = "read"
          /\ calls[calls[c].on].of = calls[c].of
      BY <1>1, <3>1 DEF WaitsForRead
    <3> QED
      BY <1>3, <3>1, <3>2
  <2> QED
    BY <2>1, <2>2 DEF WaitsForRead
<1> QED
  BY <1>6, <1>7, <1>8, <1>9, <1>10 DEF CacheInv

\* A click is in the local database: the cache is no longer ready, and reads under way
\* of that mailbox are told.
LEMMA CacheEnqueued ==
  ASSUME CacheInv, NEW written \in Nat, Mailbox!Enqueued(written), click # Mailbox!Idle,
         NEW b, b = click.of, rev' \in [Mailboxes -> Nat],
         \A q \in Mailboxes : rev'[q] >= rev[q], written <= rev'[b], UNCHANGED inflight
  PROVE  CacheInv'
<1>1. /\ rev \in [Mailboxes -> Nat] /\ acked \in [Mailboxes -> Nat]
      /\ calls \in [Calls -> CallStates] /\ inflight \in Calls \cup {None} /\ cache \in Caches
      /\ click \in ClickStates
      /\ AckedIsThere /\ ReadsAreFresh /\ WaitsForRead
      /\ Mailbox!CacheBelongs /\ Mailbox!ReadyIsFresh
  BY DEF CacheInv, CacheTypes
<1>2. b \in Mailboxes
  BY <1>1 DEF ClickStates
<1>3. /\ click' = Mailbox!Idle
      /\ acked' = [acked EXCEPT ![b] = written]
      /\ cache' = [cache EXCEPT !.status = IF cache.status = "ready" THEN "stale" ELSE cache.status]
      /\ calls' = [c \in Calls |-> IF calls[c].stage = "read" /\ calls[c].of = b
                                   THEN [calls[c] EXCEPT !.missed = TRUE] ELSE calls[c]]
  BY DEF Mailbox!Enqueued, Mailbox!Invalidated
<1>4. acked' \in [Mailboxes -> Nat] /\ acked'[b] = written
      /\ \A q \in Mailboxes : q # b => acked'[q] = acked[q]
  BY <1>1, <1>2, <1>3
<1>5. /\ cache' \in Caches /\ cache'.status # "ready"
      /\ cache'.of = cache.of /\ cache'.rows = cache.rows
  BY <1>1, <1>3 DEF Caches
<1>6. ASSUME NEW c \in Calls
      PROVE  /\ calls'[c] \in CallStates /\ calls'[c].stage = calls[c].stage
             /\ calls[c].stage # "idle" =>
                  /\ calls'[c].of = calls[c].of /\ calls'[c].from = calls[c].from
                  /\ calls'[c].on = calls[c].on
             /\ calls[c].stage = "read" /\ calls[c].of = b => calls'[c].missed = TRUE
             /\ calls[c].stage = "read" /\ calls[c].of # b => calls'[c] = calls[c]
  <2>1. calls[c] \in CallStates
    BY <1>1
  <2>2. CASE calls[c].stage = "read" /\ calls[c].of = b
    <3>1. calls'[c] = [calls[c] EXCEPT !.missed = TRUE]
      BY <1>3, <2>2
    <3>2. calls[c] # Mailbox!Idle
      BY <2>2 DEF Mailbox!Idle
    <3> QED
      BY <2>1, <2>2, <3>1, <3>2 DEF CallStates
  <2>3. CASE ~(calls[c].stage = "read" /\ calls[c].of = b)
    BY <1>3, <2>1, <2>3
  <2> QED
    BY <2>2, <2>3
<1>7. calls' \in [Calls -> CallStates]
  <2>1. calls' = [c \in Calls |-> calls'[c]]
    BY <1>3
  <2> QED
    BY <1>6, <2>1
<1>8. CacheTypes'
  BY <1>1, <1>3, <1>4, <1>5, <1>7 DEF CacheTypes, ClickStates
<1>9. AckedIsThere'
  <2>1. \A q \in Mailboxes : acked'[q] <= rev'[q]
    <3> SUFFICES ASSUME NEW q \in Mailboxes PROVE acked'[q] <= rev'[q]
      OBVIOUS
    <3>1. acked[q] \in Nat /\ rev[q] \in Nat /\ rev'[q] \in Nat /\ acked[q] <= rev[q] /\ rev'[q] >= rev[q]
      BY <1>1 DEF AckedIsThere
    <3> QED
      BY <1>4, <3>1
  <2>2. click'.stage # "count"
    BY <1>3 DEF Mailbox!Idle
  <2> QED
    BY <2>1, <2>2 DEF AckedIsThere
<1>10. ReadsAreFresh'
  <2> SUFFICES ASSUME NEW c \in Calls, calls'[c].stage = "read", ~calls'[c].missed
               PROVE  calls'[c].from >= acked'[calls'[c].of]
    BY DEF ReadsAreFresh
  <2>1. calls[c].stage = "read" /\ calls[c].of # b /\ calls'[c] = calls[c] /\ calls[c].of \in Mailboxes
    BY <1>6, CallTyped
  <2> QED
    BY <1>1, <1>4, <2>1 DEF ReadsAreFresh
<1>11. WaitsForRead'
  <2>1. inflight' # None => inflight' \in Calls /\ calls'[inflight'].stage = "read"
    BY <1>1, <1>6 DEF WaitsForRead
  <2>2. ASSUME NEW c \in Calls, calls'[c].stage = "wait"
        PROVE  /\ calls'[c].on \in Calls /\ calls'[calls'[c].on].stage = "read"
               /\ calls'[calls'[c].on].of = calls'[c].of
    <3>1. calls[c].stage = "wait" /\ calls'[c].on = calls[c].on /\ calls'[c].of = calls[c].of
      BY <1>6, <2>2
    <3>2. calls[c].on \in Calls /\ calls[calls[c].on].stage = "read"
          /\ calls[calls[c].on].of = calls[c].of
      BY <1>1, <3>1 DEF WaitsForRead
    <3> QED
      BY <1>6, <3>1, <3>2
  <2> QED
    BY <2>1, <2>2 DEF WaitsForRead
<1>12. Mailbox!CacheBelongs' /\ Mailbox!ReadyIsFresh'
  BY <1>1, <1>5 DEF Mailbox!CacheBelongs, Mailbox!ReadyIsFresh
<1> QED
  BY <1>8, <1>9, <1>10, <1>11, <1>12 DEF CacheInv

LEMMA CacheCommits == CacheInv /\ Mailbox!EnqueueCommits => CacheInv'
<1> SUFFICES ASSUME CacheInv, Mailbox!EnqueueCommits PROVE CacheInv'
  OBVIOUS
<1> DEFINE b == click.of
<1>1. /\ click.stage = "write" /\ rev' = [rev EXCEPT ![b] = @ + 1] /\ UNCHANGED inflight
      /\ \/ /\ click' = [click EXCEPT !.stage = "count", !.rev = rev'[click.of]]
            /\ UNCHANGED <<cache, calls, acked>>
         \/ Mailbox!Enqueued(rev'[b])
  BY DEF Mailbox!EnqueueCommits
<1>2. /\ rev \in [Mailboxes -> Nat] /\ acked \in [Mailboxes -> Nat]
      /\ click \in ClickStates /\ AckedIsThere
  BY DEF CacheInv, CacheTypes
<1>3. b \in Mailboxes /\ click # Mailbox!Idle
  BY <1>1, <1>2 DEF ClickStates, Mailbox!Idle
<1>4. /\ rev' \in [Mailboxes -> Nat] /\ \A q \in Mailboxes : rev'[q] >= rev[q] /\ rev[q] \in Nat
      /\ \A q \in Mailboxes : acked[q] \in Nat /\ rev'[q] \in Nat
  BY <1>1, <1>2, <1>3
<1>5. CASE Mailbox!Enqueued(rev'[b])
  <2>1. PICK written \in Nat : written = rev'[b]
    BY <1>3, <1>4
  <2>2. Mailbox!Enqueued(written)
    BY <1>5, <2>1
  <2>3. written <= rev'[b]
    BY <2>1
  <2> QED
    BY <1>1, <1>3, <1>4, <2>2, <2>3, CacheEnqueued
<1>6. CASE /\ click' = [click EXCEPT !.stage = "count", !.rev = rev'[click.of]]
           /\ UNCHANGED <<cache, calls, acked>>
  <2>1. click' \in ClickStates /\ click'.rev = rev'[b] /\ click'.of = b
    BY <1>2, <1>3, <1>4, <1>6 DEF ClickStates
  <2>2. \A q \in Mailboxes : acked[q] <= rev'[q]
    BY <1>2, <1>4 DEF AckedIsThere
  <2>3. AckedIsThere'
    BY <1>3, <1>4, <1>6, <2>1, <2>2 DEF AckedIsThere
  <2> QED
    BY <1>1, <1>4, <1>6, <2>1, <2>3 DEF CacheInv, CacheTypes, ReadsAreFresh, WaitsForRead,
       Mailbox!CacheBelongs, Mailbox!ReadyIsFresh
<1> QED
  BY <1>1, <1>5, <1>6

LEMMA CacheCounted == CacheInv /\ Mailbox!EnqueueCounted => CacheInv'
<1> SUFFICES ASSUME CacheInv, Mailbox!EnqueueCounted PROVE CacheInv'
  OBVIOUS
<1>1. click.stage = "count" /\ Mailbox!Enqueued(click.rev) /\ UNCHANGED <<rev, inflight>>
  BY DEF Mailbox!EnqueueCounted
<1>2. rev \in [Mailboxes -> Nat] /\ click \in ClickStates /\ AckedIsThere
  BY DEF CacheInv, CacheTypes
<1>3. /\ click # Mailbox!Idle /\ click.rev \in Nat /\ click.of \in Mailboxes
      /\ click.rev <= rev[click.of]
  BY <1>1, <1>2 DEF ClickStates, Mailbox!Idle, AckedIsThere
<1>4. PICK written \in Nat : written = click.rev
  BY <1>3
<1>5. /\ Mailbox!Enqueued(written) /\ rev' \in [Mailboxes -> Nat] /\ written <= rev'[click.of]
      /\ \A q \in Mailboxes : rev'[q] >= rev[q]
  BY <1>1, <1>2, <1>3, <1>4
<1> QED
  BY <1>1, <1>3, <1>5, CacheEnqueued

LEMMA CacheLoadReady == CacheInv /\ Mailbox!LoadReady => CacheInv'
<1> SUFFICES ASSUME CacheInv, Mailbox!LoadReady PROVE CacheInv'
  OBVIOUS
<1>1. PICK n \in Calls : calls[n].stage = "ready" /\ calls' = [calls EXCEPT ![n] = Mailbox!Idle]
  BY DEF Mailbox!LoadReady
<1>2. UNCHANGED <<rev, click, cache, inflight, acked>>
  BY DEF Mailbox!LoadReady
<1>3. /\ calls \in [Calls -> CallStates] /\ WaitsForRead /\ ReadsAreFresh
  BY DEF CacheInv, CacheTypes
<1>4. /\ calls' \in [Calls -> CallStates] /\ calls'[n].stage = "idle"
      /\ \A c \in Calls : c # n => calls'[c] = calls[c]
  BY <1>1, <1>3 DEF CallStates, Mailbox!Idle
<1>5. ReadsAreFresh'
  BY <1>2, <1>3, <1>4 DEF ReadsAreFresh
<1>6. WaitsForRead'
  BY <1>1, <1>2, <1>3, <1>4 DEF WaitsForRead
<1> QED
  BY <1>2, <1>4, <1>5, <1>6 DEF CacheInv, CacheTypes, AckedIsThere,
     Mailbox!CacheBelongs, Mailbox!ReadyIsFresh

LEMMA CacheEnqueue == CacheInv /\ SyncInv /\ Mailbox!Enqueue => CacheInv'
<1> SUFFICES ASSUME CacheInv, SyncInv, Mailbox!Enqueue PROVE CacheInv'
  OBVIOUS
<1>1. /\ mailboxId \in Mailboxes
      /\ click' = [stage |-> "write", of |-> mailboxId, rev |-> 0, live |-> TRUE]
      /\ UNCHANGED <<rev, cache, calls, inflight, acked>>
  BY DEF Mailbox!Enqueue, Mailbox!cacheVars, SyncInv, SyncTypes
<1>2. click' \in ClickStates /\ click'.stage # "count"
  BY <1>1 DEF ClickStates
<1> QED
  BY <1>1, <1>2 DEF CacheInv, CacheTypes, AckedIsThere, ReadsAreFresh, WaitsForRead,
     Mailbox!CacheBelongs, Mailbox!ReadyIsFresh

LEMMA CacheSteps ==
  CacheInv /\ SyncInv /\ inbox.route \in Mailboxes \cup {None} /\ Mailbox!Next => CacheInv'
<1> SUFFICES ASSUME CacheInv, SyncInv, inbox.route \in Mailboxes \cup {None}, Mailbox!Next
             PROVE CacheInv'
  OBVIOUS
<1>1. CASE \/ Mailbox!LoadPending \/ Mailbox!LoadRows \/ Mailbox!LoadTotal \/ Mailbox!LoadFails
           \/ Mailbox!SelectFolder \/ Mailbox!Search \/ Mailbox!GoNext \/ Mailbox!GoPrev
           \/ Mailbox!Retry \/ Mailbox!RunSync \/ Mailbox!DeltaEnds \/ Mailbox!DeltaThrows
           \/ Mailbox!FlushEnds \/ Mailbox!RunCountThrows
  <2>1. UNCHANGED cacheState
    BY <1>1 DEF cacheState, Mailbox!cacheVars, Mailbox!LoadPending, Mailbox!LoadRows,
       Mailbox!LoadTotal, Mailbox!LoadFails, Mailbox!SelectFolder, Mailbox!Search, Mailbox!GoNext,
       Mailbox!GoPrev, Mailbox!Retry, Mailbox!RunSync, Mailbox!DeltaEnds, Mailbox!DeltaThrows,
       Mailbox!FlushEnds, Mailbox!RunCountThrows
  <2> QED
    BY <2>1, CacheStays
<1>2. CASE Mailbox!RunCounted
  <2>1. UNCHANGED <<rev, click, acked>>
    BY <1>2 DEF Mailbox!RunCounted
  <2>2. \/ UNCHANGED <<cache, calls, inflight>>
        \/ inbox.route # None /\ Mailbox!Load(inbox.route, TRUE)
    BY <1>2 DEF Mailbox!RunCounted, Mailbox!Report, Mailbox!cacheVars
  <2>3. CASE UNCHANGED <<cache, calls, inflight>>
    BY <2>1, <2>3, CacheStays DEF cacheState
  <2>4. CASE inbox.route # None /\ Mailbox!Load(inbox.route, TRUE)
    <3>1. PICK b \in Mailboxes : b = inbox.route
      BY <2>4
    <3> QED
      BY <2>1, <2>4, <3>1, LoadKeeps
  <2> QED
    BY <2>2, <2>3, <2>4
<1>3. CASE Mailbox!Mount
  <2>1. UNCHANGED <<rev, click, acked>>
    BY <1>3 DEF Mailbox!Mount
  <2>2. PICK b \in Mailboxes : Mailbox!Load(b, FALSE) \/ UNCHANGED <<cache, calls, inflight>>
    BY <1>3 DEF Mailbox!Mount, Mailbox!cacheVars
  <2>3. CASE UNCHANGED <<cache, calls, inflight>>
    BY <2>1, <2>3, CacheStays DEF cacheState
  <2>4. CASE Mailbox!Load(b, FALSE)
    BY <2>1, <2>4, LoadKeeps
  <2> QED
    BY <2>2, <2>3, <2>4
<1>4. CASE Mailbox!Unmount \/ Mailbox!CloseMailbox
  <2>1. /\ calls' = Mailbox!Unheard /\ (cache' = cache \/ cache' = Mailbox!Empty)
        /\ click' = IF click = Mailbox!Idle THEN Mailbox!Idle ELSE [click EXCEPT !.live = FALSE]
        /\ UNCHANGED <<rev, inflight, acked>>
    BY <1>4 DEF Mailbox!Unmount, Mailbox!CloseMailbox, Mailbox!Abandon
  <2> QED
    BY <2>1, CacheUnheard
<1> QED
  BY <1>1, <1>2, <1>3, <1>4, CacheDelta, CacheReadEnds, CacheCommits, CacheCounted, CacheLoadReady,
     CacheEnqueue DEF Mailbox!Next

-----------------------------------------------------------------------------
(* The mailbox: its list                                                   *)

Folders == [of : Mailboxes, name : {"inbox", "other"}]
Lists == [folder : Folders, page : Nat, query : BOOLEAN, rev : Nat]
Listings ==
  [stage : {"queue"}, overtaken : BOOLEAN]
  \cup [stage : {"rows"}, overtaken : BOOLEAN, list : Lists]
  \cup [stage : {"total"}, overtaken : BOOLEAN, folder : Folders]
Inboxes ==
  [route : Mailboxes \cup {None}, folder : Folders \cup {None}, page : Nat, query : BOOLEAN,
   loading : BOOLEAN, error : BOOLEAN, list : Lists \cup {None}, total : Nat, behind : BOOLEAN]
ListTypes == inbox \in Inboxes /\ listings \in Seq(Listings)

\* A load that has only begun, as the last of ls.
Begun(ls) == ls # <<>> /\ ls[Len(ls)].stage = "queue" /\ ls[Len(ls)].overtaken = FALSE

\* The rows shown are of good, or will be: all loads that are not overtaken have shown
\* theirs, or the last, which nothing overtakes, has yet to; its rows will be good.
Shown(ls, list, overtaken, good) ==
  \/ /\ \A i \in DOMAIN ls : ls[i].overtaken = TRUE \/ ls[i].stage = "total"
     /\ overtaken = TRUE \/ list \in good
  \/ /\ ls # <<>> /\ ls[Len(ls)].overtaken = FALSE
     /\ \/ ls[Len(ls)].stage = "queue"
        \/ ls[Len(ls)].stage = "rows" /\ ls[Len(ls)].list \in good

LEMMA ListingTyped ==
  ASSUME NEW ls \in Seq(Listings), NEW i \in DOMAIN ls
  PROVE  /\ ls[i] \in Listings /\ ls[i].overtaken \in BOOLEAN
         /\ ls[i].stage \in {"queue", "rows", "total"}
         /\ ls[i].stage = "rows" => ls[i].list \in Lists
         /\ ls[i].stage = "total" => ls[i].folder \in Folders
         /\ [ls[i] EXCEPT !.overtaken = TRUE] \in Listings
         /\ [ls[i] EXCEPT !.overtaken = TRUE].overtaken = TRUE
<1>1. ls[i] \in Listings
  BY ElementOf
<1> QED
  BY <1>1 DEF Listings

LEMMA BegunShown ==
  ASSUME NEW ls, Begun(ls), NEW list, NEW overtaken, NEW good
  PROVE  Shown(ls, list, overtaken, good)
BY DEF Begun, Shown

\* Load i has read which list it is for.
LEMMA ShownPending ==
  ASSUME NEW ls \in Seq(Listings), NEW i \in DOMAIN ls, ls[i].stage = "queue",
         NEW new \in Listings, new.stage = "rows", new.overtaken = ls[i].overtaken,
         NEW list, NEW overtaken, NEW good, new.list \in good,
         Shown(ls, list, overtaken, good)
  PROVE  Shown([ls EXCEPT ![i] = new], list, overtaken, good)
<1>1. /\ DOMAIN ls = 1 .. Len(ls) /\ Len(ls) \in Nat
      /\ Len([ls EXCEPT ![i] = new]) = Len(ls) /\ DOMAIN [ls EXCEPT ![i] = new] = DOMAIN ls
      /\ [ls EXCEPT ![i] = new][i] = new
      /\ \A j \in DOMAIN ls : j # i => [ls EXCEPT ![i] = new][j] = ls[j]
  BY ExceptSeq, LenProperties
<1> DEFINE after == [ls EXCEPT ![i] = new]
<1> HIDE DEF after
<1>2. /\ Len(after) = Len(ls) /\ DOMAIN after = DOMAIN ls /\ after[i] = new
      /\ \A j \in DOMAIN ls : j # i => after[j] = ls[j]
  BY <1>1 DEF after
<1>3. after # <<>> /\ ls # <<>> /\ Len(ls) \in DOMAIN ls
  <2>1. Len(ls) >= 1
    BY <1>1
  <2> QED
    BY <1>1, <1>2, <2>1
<1>4. CASE /\ \A j \in DOMAIN ls : ls[j].overtaken = TRUE \/ ls[j].stage = "total"
           /\ overtaken = TRUE \/ list \in good
  <2>1. \A j \in DOMAIN after : after[j].overtaken = TRUE \/ after[j].stage = "total"
    BY <1>2, <1>4
  <2>2. Shown(after, list, overtaken, good)
    BY <1>4, <2>1 DEF Shown
  <2> QED
    BY <2>2 DEF after
<1>5. CASE /\ ls[Len(ls)].overtaken = FALSE
           /\ \/ ls[Len(ls)].stage = "queue"
              \/ ls[Len(ls)].stage = "rows" /\ ls[Len(ls)].list \in good
  <2>1. after[Len(after)].overtaken = FALSE /\
        (after[Len(after)].stage = "queue"
         \/ (after[Len(after)].stage = "rows" /\ after[Len(after)].list \in good))
    <3>1. CASE i = Len(ls)
      BY <1>2, <1>3, <1>5, <3>1
    <3>2. CASE i # Len(ls)
      <4>1. after[Len(after)] = ls[Len(ls)]
        BY <1>2, <1>3, <3>2
      <4> QED
        BY <1>5, <4>1
    <3> QED
      BY <3>1, <3>2
  <2>2. Shown(after, list, overtaken, good)
    BY <1>3, <2>1 DEF Shown
  <2> QED
    BY <2>2 DEF after
<1> QED
  BY <1>4, <1>5 DEF Shown

\* A load that is no longer the last word ends.
LEMMA ShownRemoved ==
  ASSUME NEW ls \in Seq(Listings), NEW i \in DOMAIN ls,
         NEW list, NEW overtaken, NEW good,
         \/ /\ \A j \in DOMAIN ls : j # i => ls[j].overtaken = TRUE \/ ls[j].stage = "total"
            /\ overtaken = TRUE \/ list \in good
         \/ /\ i # Len(ls) /\ ls[Len(ls)].overtaken = FALSE
            /\ \/ ls[Len(ls)].stage = "queue"
               \/ ls[Len(ls)].stage = "rows" /\ ls[Len(ls)].list \in good
  PROVE  Shown(Without(ls, i), list, overtaken, good)
<1> DEFINE after == Without(ls, i)
<1>1. /\ DOMAIN ls = 1 .. Len(ls) /\ Len(ls) \in Nat
      /\ Len(after) = Len(ls) - 1 /\ DOMAIN after = 1 .. Len(ls) - 1
      /\ \A j \in 1 .. Len(ls) - 1 : after[j] = IF j < i THEN ls[j] ELSE ls[j + 1]
  BY Removed, LenProperties
<1> HIDE DEF after
<1>2. CASE /\ \A j \in DOMAIN ls : j # i => ls[j].overtaken = TRUE \/ ls[j].stage = "total"
           /\ overtaken = TRUE \/ list \in good
  <2>1. ASSUME NEW j \in DOMAIN after
        PROVE  after[j].overtaken = TRUE \/ after[j].stage = "total"
    <3>1. PICK k \in DOMAIN ls : k # i /\ after[j] = ls[k]
      <4>1. CASE j < i
        BY <1>1, <4>1
      <4>2. CASE ~(j < i)
        <5>1. j + 1 \in DOMAIN ls /\ j + 1 # i /\ after[j] = ls[j + 1]
          BY <1>1, <4>2
        <5> QED
          BY <5>1
      <4> QED
        BY <4>1, <4>2
    <3> QED
      BY <1>2, <3>1
  <2>2. Shown(after, list, overtaken, good)
    BY <1>2, <2>1 DEF Shown
  <2> QED
    BY <2>2 DEF after
<1>3. CASE /\ i # Len(ls) /\ ls[Len(ls)].overtaken = FALSE
           /\ \/ ls[Len(ls)].stage = "queue"
              \/ ls[Len(ls)].stage = "rows" /\ ls[Len(ls)].list \in good
  <2>1. Len(after) \in 1 .. Len(ls) - 1 /\ ~(Len(after) < i) /\ Len(after) + 1 = Len(ls)
    BY <1>1, <1>3
  <2>2. after[Len(after)] = ls[Len(ls)] /\ after # <<>>
    BY <1>1, <2>1
  <2>3. Shown(after, list, overtaken, good)
    BY <1>3, <2>2 DEF Shown
  <2> QED
    BY <2>3 DEF after
<1> QED
  BY <1>2, <1>3

Overtaking(ls, i) == [j \in DOMAIN ls |-> IF j < i THEN [ls[j] EXCEPT !.overtaken = TRUE] ELSE ls[j]]

LEMMA OvertakingTyped ==
  ASSUME NEW ls \in Seq(Listings), NEW i \in DOMAIN ls
  PROVE  /\ Overtaking(ls, i) \in Seq(Listings) /\ Len(Overtaking(ls, i)) = Len(ls)
         /\ DOMAIN Overtaking(ls, i) = DOMAIN ls
         /\ \A j \in DOMAIN ls : /\ j < i => Overtaking(ls, i)[j].overtaken = TRUE
                                 /\ ~(j < i) => Overtaking(ls, i)[j] = ls[j]
<1>1. DOMAIN ls = 1 .. Len(ls) /\ Len(ls) \in Nat
  BY LenProperties
<1>2. \A j \in DOMAIN ls : /\ j < i => Overtaking(ls, i)[j] = [ls[j] EXCEPT !.overtaken = TRUE]
                           /\ ~(j < i) => Overtaking(ls, i)[j] = ls[j]
  BY DEF Overtaking
<1>3. \A j \in DOMAIN ls : /\ j < i => Overtaking(ls, i)[j].overtaken = TRUE
                           /\ Overtaking(ls, i)[j] \in Listings
  <2> SUFFICES ASSUME NEW j \in DOMAIN ls
               PROVE  /\ j < i => Overtaking(ls, i)[j].overtaken = TRUE
                      /\ Overtaking(ls, i)[j] \in Listings
    OBVIOUS
  <2> DEFINE new == [ls[j] EXCEPT !.overtaken = TRUE]
  <2>1. new \in Listings /\ new.overtaken = TRUE /\ ls[j] \in Listings
    BY ListingTyped
  <2>2. Overtaking(ls, i)[j] = IF j < i THEN new ELSE ls[j]
    BY <1>2
  <2> HIDE DEF new
  <2> QED
    BY <2>1, <2>2
<1>4. Overtaking(ls, i) \in [1 .. Len(ls) -> Listings]
  <2>1. Overtaking(ls, i) = [j \in 1 .. Len(ls) |-> Overtaking(ls, i)[j]]
    BY <1>1 DEF Overtaking
  <2> QED
    BY <1>1, <1>3, <2>1
<1>5. Overtaking(ls, i) \in Seq(Listings) /\ Len(Overtaking(ls, i)) = Len(ls)
      /\ DOMAIN Overtaking(ls, i) = DOMAIN ls
  BY <1>1, <1>4, ListOf
<1> QED
  BY <1>2, <1>3, <1>5

\* Load i shows its rows.
LEMMA ShownRows ==
  ASSUME NEW ls \in Seq(Listings), NEW i \in DOMAIN ls, ls[i].stage = "rows",
         NEW list, NEW overtaken, NEW good, Shown(ls, list, overtaken, good),
         NEW total \in Listings, total.stage = "total"
  PROVE  /\ Shown(Without(Overtaking(ls, i), i), ls[i].list, ls[i].overtaken, good)
         /\ Shown([Overtaking(ls, i) EXCEPT ![i] = total], ls[i].list, ls[i].overtaken, good)
<1> DEFINE rest == Overtaking(ls, i)
<1>1. /\ rest \in Seq(Listings) /\ Len(rest) = Len(ls) /\ DOMAIN rest = DOMAIN ls
      /\ \A j \in DOMAIN ls : /\ j < i => rest[j].overtaken = TRUE
                              /\ ~(j < i) => rest[j] = ls[j]
      /\ DOMAIN ls = 1 .. Len(ls) /\ Len(ls) \in Nat /\ i \in DOMAIN rest
  BY OvertakingTyped, LenProperties
<1> HIDE DEF rest
<1>2. \/ /\ \A j \in DOMAIN rest : j # i => rest[j].overtaken = TRUE \/ rest[j].stage = "total"
         /\ ls[i].overtaken = TRUE \/ ls[i].list \in good
      \/ /\ i # Len(rest) /\ rest[Len(rest)].overtaken = FALSE
         /\ \/ rest[Len(rest)].stage = "queue"
            \/ rest[Len(rest)].stage = "rows" /\ rest[Len(rest)].list \in good
  <2>1. CASE \A j \in DOMAIN ls : ls[j].overtaken = TRUE \/ ls[j].stage = "total"
    BY <1>1, <2>1
  <2>2. CASE /\ ls[Len(ls)].overtaken = FALSE
             /\ \/ ls[Len(ls)].stage = "queue"
                \/ ls[Len(ls)].stage = "rows" /\ ls[Len(ls)].list \in good
    <3>1. CASE i = Len(ls)
      <4>1. \A j \in DOMAIN rest : j # i => rest[j].overtaken = TRUE
        BY <1>1, <3>1
      <4> QED
        BY <2>2, <3>1, <4>1
    <3>2. CASE i # Len(ls)
      <4>1. Len(ls) \in DOMAIN ls /\ ~(Len(ls) < i)
        BY <1>1
      <4> QED
        BY <1>1, <2>2, <3>2, <4>1
    <3> QED
      BY <3>1, <3>2
  <2> QED
    BY <2>1, <2>2 DEF Shown
<1>3. Shown(Without(rest, i), ls[i].list, ls[i].overtaken, good)
  BY <1>1, <1>2, ShownRemoved
<1>4. Shown([rest EXCEPT ![i] = total], ls[i].list, ls[i].overtaken, good)
  <2> DEFINE after == [rest EXCEPT ![i] = total]
  <2>1. /\ Len(after) = Len(rest) /\ DOMAIN after = DOMAIN rest /\ after[i] = total
        /\ \A j \in DOMAIN rest : j # i => after[j] = rest[j]
    BY <1>1, ExceptSeq, LenProperties
  <2> HIDE DEF after
  <2>2. Shown(after, ls[i].list, ls[i].overtaken, good)
    <3>1. CASE /\ \A j \in DOMAIN rest : j # i => rest[j].overtaken = TRUE \/ rest[j].stage = "total"
               /\ ls[i].overtaken = TRUE \/ ls[i].list \in good
      <4>1. \A j \in DOMAIN after : after[j].overtaken = TRUE \/ after[j].stage = "total"
        BY <2>1, <3>1
      <4>2. Shown(after, ls[i].list, ls[i].overtaken, good)
        BY <3>1, <4>1 DEF Shown
      <4> QED
        BY <4>2
    <3>2. CASE /\ i # Len(rest) /\ rest[Len(rest)].overtaken = FALSE
               /\ \/ rest[Len(rest)].stage = "queue"
                  \/ rest[Len(rest)].stage = "rows" /\ rest[Len(rest)].list \in good
      <4>1. Len(after) \in DOMAIN rest /\ after[Len(after)] = rest[Len(rest)] /\ after # <<>>
        <5>1. Len(rest) \in DOMAIN rest
          BY <1>1
        <5> QED
          BY <1>1, <2>1, <3>2, <5>1
      <4> QED
        BY <3>2, <4>1 DEF Shown
    <3> QED
      BY <1>2, <3>1, <3>2
  <2> QED
    BY <2>2 DEF after
<1> QED
  BY <1>3, <1>4 DEF rest

\* Load i, which had shown its rows, ends.
LEMMA ShownTotal ==
  ASSUME NEW ls \in Seq(Listings), NEW i \in DOMAIN ls, ls[i].stage = "total",
         NEW list, NEW overtaken, NEW good, Shown(ls, list, overtaken, good)
  PROVE  Shown(Without(ls, i), list, overtaken, good)
<1>1. CASE /\ \A j \in DOMAIN ls : ls[j].overtaken = TRUE \/ ls[j].stage = "total"
           /\ overtaken = TRUE \/ list \in good
  BY <1>1, ShownRemoved
<1>2. CASE /\ ls[Len(ls)].overtaken = FALSE
           /\ \/ ls[Len(ls)].stage = "queue"
              \/ ls[Len(ls)].stage = "rows" /\ ls[Len(ls)].list \in good
  <2>1. i # Len(ls)
    BY <1>2
  <2> QED
    BY <1>2, <2>1, ShownRemoved
<1> QED
  BY <1>1, <1>2 DEF Shown

\* What the list must be of, and how new, for the view to be settled.
Selected ==
  {l \in Lists : l.folder = inbox.folder /\ l.page = inbox.page /\ l.query = inbox.query}
Fresh == {l \in Lists : l.rev = rev[inbox.route]}

Showing == inbox.folder # None /\ inbox.route = mailboxId /\ inbox.error = FALSE
Synced ==
  syncStatus = "synced" /\ (\A r \in Runs : ~Running(r, mailboxId)) /\ ~doubled
  /\ inbox.behind = FALSE
LiveCall(c) == calls[c].stage # "idle" /\ calls[c].live = TRUE
ClickLive == click # Mailbox!Idle /\ click.live = TRUE

UnmountedIsEmpty == inbox.route = None => inbox.folder = None
LiveHeard == \A c \in Calls : LiveCall(c) => inbox.route # None
SelectionShown == Showing => Shown(listings, inbox.list, outrun, Selected)
\* After a sync the view is told, by the call that reads the folders again.
FreshShown ==
  Showing /\ Synced => \/ \E c \in Calls : LiveCall(c)
                       \/ ClickLive
                       \/ Shown(listings, inbox.list, outrun, Fresh)
ListInv == ListTypes /\ UnmountedIsEmpty /\ LiveHeard /\ SelectionShown /\ FreshShown

\* loadMessages up to its first await changes no more than this.
LEMMA BeginFacts ==
  ASSUME NEW v \in Inboxes, NEW ls \in Seq(Listings), NEW after, after = Mailbox!Begin(v, ls)
  PROVE  /\ after.view \in Inboxes /\ after.loads \in Seq(Listings)
         /\ after.view.route = v.route /\ after.view.folder = v.folder /\ after.view.page = v.page
         /\ after.view.query = v.query /\ after.view.list = v.list /\ after.view.behind = v.behind
         /\ Begun(after.loads) \/ v.folder = None \/ mailboxId # v.route
<1>1. CASE v.folder = None \/ mailboxId # v.route
  BY <1>1 DEF Mailbox!Begin
<1>2. CASE ~(v.folder = None \/ mailboxId # v.route)
  <2> DEFINE e == [stage |-> "queue", overtaken |-> FALSE]
             w == [v EXCEPT !.loading = TRUE, !.error = FALSE]
  <2>1. after.view = w /\ after.loads = Append(ls, e)
    BY <1>2 DEF Mailbox!Begin
  <2>2. e \in Listings /\ e.stage = "queue" /\ e.overtaken = FALSE
    BY DEF Listings
  <2>3. /\ w \in Inboxes /\ w.route = v.route /\ w.folder = v.folder /\ w.page = v.page
        /\ w.query = v.query /\ w.list = v.list /\ w.behind = v.behind
    BY DEF Inboxes
  <2> HIDE DEF e, w
  <2>4. /\ after.loads \in Seq(Listings) /\ Len(after.loads) = Len(ls) + 1
        /\ after.loads[Len(ls) + 1] = e /\ Len(ls) \in Nat
    BY <2>1, <2>2, Appended, LenProperties
  <2>5. after.loads # <<>>
    BY <2>4
  <2>6. Begun(after.loads)
    BY <2>2, <2>4, <2>5 DEF Begun
  <2> QED
    BY <2>1, <2>3, <2>4, <2>6
<1> QED
  BY <1>1, <1>2

\* The watchers: another selection is loaded, if there is something to load.
LEMMA ShowsFacts ==
  ASSUME ListTypes, NEW v \in Inboxes, NEW after, after = Mailbox!Shows(v)
  PROVE  /\ after.view \in Inboxes /\ after.loads \in Seq(Listings)
         /\ after.view.route = v.route /\ after.view.folder = v.folder
         /\ after.view.query = v.query /\ after.view.list = v.list /\ after.view.behind = v.behind
         /\ \/ Begun(after.loads) \/ v.folder = None \/ mailboxId # v.route
            \/ /\ after.loads = listings /\ after.view.error = v.error
               /\ v.folder = inbox.folder /\ v.query = inbox.query /\ after.view.page = inbox.page
<1>1. inbox \in Inboxes /\ listings \in Seq(Listings)
  BY DEF ListTypes
<1> DEFINE moved1 == v.folder # inbox.folder \/ v.query # inbox.query
           selected == [v EXCEPT !.page = IF moved1 THEN 1 ELSE v.page]
           first == IF moved1 THEN Mailbox!Begin(selected, listings)
                    ELSE [view |-> selected, loads |-> listings]
<1>2. after = IF selected.page # inbox.page THEN Mailbox!Begin(first.view, first.loads) ELSE first
  BY DEF Mailbox!Shows
<1>3. /\ selected \in Inboxes /\ selected.route = v.route /\ selected.folder = v.folder
      /\ selected.query = v.query /\ selected.list = v.list /\ selected.behind = v.behind
      /\ selected.error = v.error
  BY DEF Inboxes
<1>4. first = IF moved1 THEN Mailbox!Begin(selected, listings)
              ELSE [view |-> selected, loads |-> listings]
  OBVIOUS
<1> HIDE DEF selected, first
<1>5. /\ first.view \in Inboxes /\ first.loads \in Seq(Listings)
      /\ first.view.route = v.route /\ first.view.folder = v.folder /\ first.view.page = selected.page
      /\ first.view.query = v.query /\ first.view.list = v.list /\ first.view.behind = v.behind
      /\ \/ Begun(first.loads) \/ v.folder = None \/ mailboxId # v.route
         \/ ~moved1 /\ first.loads = listings /\ first.view.error = v.error
  <2>1. CASE moved1
    <3>1. first = Mailbox!Begin(selected, listings)
      BY <1>4, <2>1
    <3> QED
      BY <1>1, <1>3, <3>1, BeginFacts
  <2>2. CASE ~moved1
    <3>1. first = [view |-> selected, loads |-> listings]
      BY <1>4, <2>2
    <3>2. first.view = selected /\ first.loads = listings
      BY <3>1
    <3> QED
      BY <1>1, <1>3, <2>2, <3>2
  <2> QED
    BY <2>1, <2>2
<1>6. CASE selected.page # inbox.page
  <2>1. after = Mailbox!Begin(first.view, first.loads)
    BY <1>2, <1>6
  <2> QED
    BY <1>5, <2>1, BeginFacts
<1>7. CASE selected.page = inbox.page
  <2>1. after = first
    BY <1>2, <1>7
  <2> QED
    BY <1>5, <1>7, <2>1
<1> QED
  BY <1>6, <1>7

\* A step that leaves what is shown, but may begin to load.
LEMMA WatchKeeps ==
  ASSUME ListInv, UNCHANGED <<mailboxId, syncStatus, syncs, doubled, outrun>>,
         mailboxId \in Mailboxes => rev'[mailboxId] = rev[mailboxId],
         inbox'.route = inbox.route, inbox'.list = inbox.list, inbox'.behind = inbox.behind,
         \/ Begun(listings') \/ inbox'.folder = None \/ mailboxId # inbox.route
         \/ /\ listings' = listings /\ inbox'.folder = inbox.folder /\ inbox'.page = inbox.page
            /\ inbox'.query = inbox.query /\ inbox'.error = inbox.error
            /\ (\E c \in Calls : LiveCall(c)) \/ ClickLive =>
                 (\E c \in Calls : LiveCall(c)') \/ ClickLive'
  PROVE  SelectionShown' /\ FreshShown'
<1>1. CASE inbox'.folder = None \/ mailboxId # inbox.route
  BY <1>1 DEF SelectionShown, FreshShown, Showing
<1>2. CASE Begun(listings')
  BY <1>2, BegunShown DEF SelectionShown, FreshShown
<1>3. CASE /\ listings' = listings /\ inbox'.folder = inbox.folder /\ inbox'.page = inbox.page
           /\ inbox'.query = inbox.query /\ inbox'.error = inbox.error
           /\ (\E c \in Calls : LiveCall(c)) \/ ClickLive =>
                (\E c \in Calls : LiveCall(c)') \/ ClickLive'
  <2>1. Selected' = Selected
    BY <1>3 DEF Selected
  <2>2. Showing' => Showing /\ Fresh' = Fresh
    <3>1. inbox.folder # None => inbox.route \in Mailboxes
      BY DEF ListInv, ListTypes, Inboxes, UnmountedIsEmpty
    <3> QED
      BY <1>3, <3>1 DEF Showing, Fresh
  <2>3. Synced' => Synced
    BY DEF Synced, Running
  <2>4. SelectionShown'
    <3>1. Showing => Shown(listings, inbox.list, outrun, Selected)
      BY DEF ListInv, SelectionShown
    <3>2. Showing' => Shown(listings', inbox'.list, outrun', Selected')
      BY <1>3, <2>1, <2>2, <3>1
    <3> QED
      BY <3>2 DEF SelectionShown
  <2>5. FreshShown'
    <3>1. Showing /\ Synced => \/ \E c \in Calls : LiveCall(c)
                               \/ ClickLive
                               \/ Shown(listings, inbox.list, outrun, Fresh)
      BY DEF ListInv, FreshShown
    <3>2. Showing' /\ Synced' => \/ \E c \in Calls : LiveCall(c)'
                                 \/ ClickLive'
                                 \/ Shown(listings', inbox'.list, outrun', Fresh')
      BY <1>3, <2>2, <2>3, <3>1
    <3> QED
      BY <3>2 DEF FreshShown
  <2> QED
    BY <2>4, <2>5
<1> QED
  BY <1>1, <1>2, <1>3

LEMMA ListStarts == Mailbox!Init => ListInv
<1> SUFFICES ASSUME Mailbox!Init PROVE ListInv
  OBVIOUS
<1>1. inbox = Mailbox!NoView /\ listings = <<>> /\ calls = [c \in Calls |-> Mailbox!Idle]
  BY DEF Mailbox!Init
<1>2. inbox \in Inboxes /\ inbox.folder = None
  BY <1>1 DEF Inboxes, Mailbox!NoView
<1>3. listings \in Seq(Listings)
  BY <1>1, EmptySeq
<1>4. \A c \in Calls : ~LiveCall(c)
  BY <1>1 DEF LiveCall, Mailbox!Idle
<1> QED
  BY <1>2, <1>3, <1>4 DEF ListInv, ListTypes, UnmountedIsEmpty, LiveHeard, SelectionShown,
     FreshShown, Showing

\* The user selects something else.
LEMMA ListWatches ==
  ASSUME ListInv, NEW v \in Inboxes, Mailbox!Watched(Mailbox!Shows(v)),
         v.route = inbox.route, v.list = inbox.list, v.behind = inbox.behind,
         v.error = inbox.error, v.route = None => v.folder = None,
         UNCHANGED <<mailboxId, syncStatus, syncs, doubled, outrun, rev, calls, click>>
  PROVE  ListInv'
<1>1. ListTypes /\ LiveHeard
  BY DEF ListInv
<1> DEFINE after == Mailbox!Shows(v)
<1>2. inbox' = after.view /\ listings' = after.loads
  BY DEF Mailbox!Watched
<1> HIDE DEF after
<1>3. /\ after.view \in Inboxes /\ after.loads \in Seq(Listings)
      /\ after.view.route = v.route /\ after.view.folder = v.folder
      /\ after.view.query = v.query /\ after.view.list = v.list /\ after.view.behind = v.behind
      /\ \/ Begun(after.loads) \/ v.folder = None \/ mailboxId # v.route
         \/ /\ after.loads = listings /\ after.view.error = v.error
            /\ v.folder = inbox.folder /\ v.query = inbox.query /\ after.view.page = inbox.page
  BY <1>1, ShowsFacts DEF after
<1>4. ListTypes' /\ UnmountedIsEmpty' /\ LiveHeard'
  BY <1>1, <1>2, <1>3 DEF ListTypes, UnmountedIsEmpty, LiveHeard, LiveCall
<1>5. (\E c \in Calls : LiveCall(c)) \/ ClickLive => (\E c \in Calls : LiveCall(c)') \/ ClickLive'
  BY DEF LiveCall, ClickLive
<1>6. SelectionShown' /\ FreshShown'
  BY <1>2, <1>3, <1>5, WatchKeeps
<1> QED
  BY <1>4, <1>6 DEF ListInv

LEMMA ListClicked ==
  ListInv /\ (\/ Mailbox!SelectFolder \/ Mailbox!Search \/ Mailbox!GoNext \/ Mailbox!GoPrev)
    /\ CacheInv => ListInv'
<1> SUFFICES ASSUME ListInv, CacheInv,
                    \/ Mailbox!SelectFolder \/ Mailbox!Search \/ Mailbox!GoNext \/ Mailbox!GoPrev
             PROVE  ListInv'
  OBVIOUS
<1>1. /\ inbox \in Inboxes /\ UnmountedIsEmpty
      /\ None \notin Mailboxes
  BY ScreensAssumption DEF ListInv, ListTypes, ScreensAssumption
<1>2. UNCHANGED <<mailboxId, syncStatus, syncs, doubled, outrun, rev, calls, click>>
  BY DEF Mailbox!SelectFolder, Mailbox!Search, Mailbox!GoNext, Mailbox!GoPrev,
     Mailbox!storeVars, Mailbox!cacheVars
<1>3. CASE Mailbox!SelectFolder
  <2>1. PICK name \in Mailbox!Names :
          Mailbox!Watched(Mailbox!Shows([inbox EXCEPT !.folder = Mailbox!Folder(cache.rows.of, name)]))
    BY <1>3 DEF Mailbox!SelectFolder
  <2>2. inbox.route # None /\ cache.rows.of \in Mailboxes
    BY <1>3 DEF Mailbox!SelectFolder, CacheInv, CacheTypes, Caches, Projections
  <2>3. Mailbox!Folder(cache.rows.of, name) \in Folders
    BY <2>2 DEF Mailbox!Folder, Folders, Mailbox!Names
  <2>4. PICK f \in Folders : f = Mailbox!Folder(cache.rows.of, name)
    BY <2>3
  <2>5. Mailbox!Watched(Mailbox!Shows([inbox EXCEPT !.folder = f]))
    BY <2>1, <2>4
  <2>6. /\ [inbox EXCEPT !.folder = f] \in Inboxes
        /\ [inbox EXCEPT !.folder = f].route = inbox.route
        /\ [inbox EXCEPT !.folder = f].list = inbox.list
        /\ [inbox EXCEPT !.folder = f].behind = inbox.behind
        /\ [inbox EXCEPT !.folder = f].error = inbox.error
    BY <1>1 DEF Inboxes
  <2> QED
    BY <1>2, <2>2, <2>5, <2>6, ListWatches
<1>4. CASE Mailbox!Search
  <2>1. inbox.route # None /\ Mailbox!Watched(Mailbox!Shows([inbox EXCEPT !.query = ~@]))
    BY <1>4 DEF Mailbox!Search
  <2>2. /\ [inbox EXCEPT !.query = ~@] \in Inboxes
        /\ [inbox EXCEPT !.query = ~@].route = inbox.route
        /\ [inbox EXCEPT !.query = ~@].list = inbox.list
        /\ [inbox EXCEPT !.query = ~@].behind = inbox.behind
        /\ [inbox EXCEPT !.query = ~@].error = inbox.error
    BY <1>1 DEF Inboxes
  <2> QED
    BY <1>2, <2>1, <2>2, ListWatches
<1>5. CASE Mailbox!GoNext \/ Mailbox!GoPrev
  <2>1. PICK p \in Nat : Mailbox!Watched(Mailbox!Shows([inbox EXCEPT !.page = p]))
    <3>1. inbox.page \in Nat
      BY <1>1 DEF Inboxes
    <3>2. CASE Mailbox!GoNext
      <4>1. Mailbox!Watched(Mailbox!Shows([inbox EXCEPT !.page = inbox.page + 1]))
        BY <3>2 DEF Mailbox!GoNext
      <4> QED
        BY <3>1, <4>1
    <3>3. CASE Mailbox!GoPrev
      <4>1. inbox.page > 1 /\ Mailbox!Watched(Mailbox!Shows([inbox EXCEPT !.page = inbox.page - 1]))
        BY <3>3 DEF Mailbox!GoPrev
      <4>2. inbox.page - 1 \in Nat
        BY <3>1, <4>1
      <4> QED
        BY <4>1, <4>2
    <3> QED
      BY <1>5, <3>2, <3>3
  <2>2. /\ [inbox EXCEPT !.page = p] \in Inboxes
        /\ [inbox EXCEPT !.page = p].route = inbox.route
        /\ [inbox EXCEPT !.page = p].list = inbox.list
        /\ [inbox EXCEPT !.page = p].behind = inbox.behind
        /\ [inbox EXCEPT !.page = p].error = inbox.error
    BY <1>1 DEF Inboxes
  <2>3. inbox.route = None => [inbox EXCEPT !.page = p].folder = None
    BY <1>1 DEF UnmountedIsEmpty, Inboxes
  <2> QED
    BY <1>2, <2>1, <2>2, <2>3, ListWatches
<1> QED
  BY <1>3, <1>4, <1>5

\* The folders are there, or are not wanted any more.
LEMMA ListFolders ==
  ASSUME ListInv, NEW live \in BOOLEAN, NEW found \in Projections \cup {None},
         Mailbox!FoldersLoaded(live, found),
         UNCHANGED <<mailboxId, syncStatus, syncs, doubled, outrun, rev, click>>,
         \A c \in Calls : LiveCall(c)' => LiveCall(c),
         ~live => \A c \in Calls : LiveCall(c) => LiveCall(c)',
         live => inbox.route # None
  PROVE  ListInv'
<1>1. ListTypes /\ UnmountedIsEmpty /\ LiveHeard
  BY DEF ListInv
<1>2. CASE live
  <2>1. PICK name \in Mailbox!Names :
          Mailbox!Watched(
            Mailbox!Begin(Mailbox!Shows([inbox EXCEPT !.folder = Mailbox!Chosen(found, name)]).view,
                          Mailbox!Shows([inbox EXCEPT !.folder = Mailbox!Chosen(found, name)]).loads))
    BY <1>2 DEF Mailbox!FoldersLoaded
  <2>2. Mailbox!Chosen(found, name) \in Folders \cup {None}
    <3>1. inbox.folder \in Folders \cup {None}
      BY <1>1 DEF ListTypes, Inboxes
    <3>2. found # None => Mailbox!Folder(found.of, name) \in Folders
      BY DEF Mailbox!Folder, Folders, Mailbox!Names, Projections
    <3> QED
      BY <3>1, <3>2 DEF Mailbox!Chosen
  <2>3. PICK f \in Folders \cup {None} : f = Mailbox!Chosen(found, name)
    BY <2>2
  <2> DEFINE v == [inbox EXCEPT !.folder = f]
             selected == Mailbox!Shows(v)
             after == Mailbox!Begin(selected.view, selected.loads)
  <2>4. Mailbox!Watched(after)
    BY <2>1, <2>3
  <2>5. /\ v \in Inboxes /\ v.route = inbox.route /\ v.list = inbox.list
        /\ v.behind = inbox.behind
    BY <1>1 DEF ListTypes, Inboxes
  <2> HIDE DEF v
  <2>6. /\ selected.view \in Inboxes /\ selected.loads \in Seq(Listings)
        /\ selected.view.route = v.route /\ selected.view.list = v.list
        /\ selected.view.behind = v.behind
    BY <1>1, <2>5, ShowsFacts
  <2> HIDE DEF selected
  <2>7. /\ after.view \in Inboxes /\ after.loads \in Seq(Listings)
        /\ after.view.route = v.route /\ after.view.folder = selected.view.folder
        /\ after.view.list = v.list /\ after.view.behind = v.behind
        /\ Begun(after.loads) \/ selected.view.folder = None \/ mailboxId # v.route
    BY <2>6, BeginFacts
  <2>8. inbox' = after.view /\ listings' = after.loads
    BY <2>4 DEF Mailbox!Watched
  <2> HIDE DEF after
  <2>9. ListTypes' /\ UnmountedIsEmpty'
    BY <1>2, <2>5, <2>7, <2>8 DEF ListTypes, UnmountedIsEmpty
  <2>10. LiveHeard'
    <3>1. \A c \in Calls : LiveCall(c)' => inbox'.route # None
      BY <1>2, <2>5, <2>7, <2>8
    <3> QED
      BY <3>1 DEF LiveHeard
  <2>11. SelectionShown' /\ FreshShown'
    <3>1. Begun(listings') \/ inbox'.folder = None \/ mailboxId # inbox.route
      BY <2>5, <2>7, <2>8
    <3> QED
      BY <2>5, <2>7, <2>8, <3>1, WatchKeeps
  <2> QED
    BY <2>9, <2>10, <2>11 DEF ListInv
<1>3. CASE ~live
  <2>1. inbox' = inbox /\ listings' = listings
    BY <1>3 DEF Mailbox!FoldersLoaded
  <2>2. ListTypes' /\ UnmountedIsEmpty'
    BY <1>1, <2>1 DEF ListTypes, UnmountedIsEmpty
  <2>3. LiveHeard'
    <3>1. \A c \in Calls : LiveCall(c)' => inbox'.route # None
      BY <1>1, <2>1 DEF LiveHeard
    <3> QED
      BY <3>1 DEF LiveHeard
  <2>4. ClickLive' = ClickLive
    BY DEF ClickLive
  <2>5. SelectionShown' /\ FreshShown'
    BY <1>3, <2>1, <2>4, WatchKeeps
  <2> QED
    BY <2>2, <2>3, <2>5 DEF ListInv
<1> QED
  BY <1>2, <1>3

LEMMA ListReady == ListInv /\ CacheInv /\ Mailbox!LoadReady => ListInv'
<1> SUFFICES ASSUME ListInv, CacheInv, Mailbox!LoadReady PROVE ListInv'
  OBVIOUS
<1>1. PICK n \in Calls :
        /\ calls[n].stage = "ready" /\ calls' = [calls EXCEPT ![n] = Mailbox!Idle]
        /\ Mailbox!FoldersLoaded(calls[n].live, cache.rows)
  BY DEF Mailbox!LoadReady
<1>2. UNCHANGED <<mailboxId, syncStatus, syncs, doubled, outrun, rev, click>>
  BY DEF Mailbox!LoadReady, Mailbox!storeVars
<1>3. calls \in [Calls -> CallStates] /\ cache.rows \in Projections \cup {None}
  BY DEF CacheInv, CacheTypes, Caches
<1>4. calls[n].live \in BOOLEAN
  <2>1. calls[n] \in CallStates
    BY <1>3
  <2> QED
    BY <1>1, <2>1 DEF CallStates, Mailbox!Idle
<1>5. /\ calls'[n].stage = "idle"
      /\ \A c \in Calls : c # n => calls'[c] = calls[c]
  BY <1>1, <1>3 DEF Mailbox!Idle
<1>6. \A c \in Calls : LiveCall(c)' => LiveCall(c)
  BY <1>5 DEF LiveCall
<1>7. ~calls[n].live => \A c \in Calls : LiveCall(c) => LiveCall(c)'
  BY <1>5 DEF LiveCall
<1>8. calls[n].live => inbox.route # None
  <2>1. calls[n].live => LiveCall(n)
    BY <1>1, <1>4 DEF LiveCall
  <2> QED
    BY <2>1 DEF ListInv, LiveHeard
<1> QED
  BY <1>1, <1>2, <1>3, <1>4, <1>6, <1>7, <1>8, ListFolders

LEMMA ListReadEnds == ListInv /\ CacheInv /\ CacheInv' /\ Mailbox!ReadEnds => ListInv'
<1> SUFFICES ASSUME ListInv, CacheInv, CacheInv', Mailbox!ReadEnds PROVE ListInv'
  OBVIOUS
<1> DEFINE Waiting(c) == {w \in Calls : calls[w].stage = "wait" /\ calls[w].on = c}
           Again(c) == {w \in Waiting(c) : calls[w].force}
           Done(c) == {c} \cup (Waiting(c) \ Again(c))
           Pub(c, ok) == Mailbox!Published(calls[c].of, calls[c].from, calls[c].missed, ok)
           RowsLeft(c, ok) == IF Again(c) = {} \/ Pub(c, ok).of = calls[c].of THEN Pub(c, ok).rows ELSE None
<1>1. PICK n \in Calls, ok \in BOOLEAN :
       /\ calls[n].stage = "read"
       /\ calls' = [w \in Calls |-> IF w \in Done(n) THEN Mailbox!Idle
                                    ELSE IF w \in Again(n)
                                    THEN [calls[w] EXCEPT !.stage = "read", !.from = rev[calls[n].of],
                                                          !.missed = FALSE]
                                    ELSE calls[w]]
       /\ cache' = IF Again(n) = {} THEN Pub(n, ok)
                   ELSE [of |-> calls[n].of, status |-> "loading", rows |-> RowsLeft(n, ok)]
       /\ Mailbox!FoldersLoaded(\E w \in Done(n) : calls[w].live, RowsLeft(n, ok))
  BY DEF Mailbox!ReadEnds
<1>2. UNCHANGED <<mailboxId, syncStatus, syncs, doubled, outrun, rev, click>>
  BY DEF Mailbox!ReadEnds, Mailbox!storeVars
<1> DEFINE done == Done(n)
           again == Again(n)
           rows1 == RowsLeft(n, ok)
           live1 == \E w \in Done(n) : calls[w].live
<1>3. /\ done \subseteq Calls /\ n \in done
      /\ \A w \in done : w = n \/ calls[w].stage = "wait"
      /\ \A w \in again : w \in Calls /\ calls[w].stage = "wait"
  OBVIOUS
<1>4. /\ calls' = [w \in Calls |-> IF w \in done THEN Mailbox!Idle
                                   ELSE IF w \in again
                                   THEN [calls[w] EXCEPT !.stage = "read", !.from = rev[calls[n].of],
                                                         !.missed = FALSE]
                                   ELSE calls[w]]
      /\ Mailbox!FoldersLoaded(live1, rows1)
      /\ live1 <=> \E w \in done : calls[w].live
  BY <1>1
<1>5. rows1 = cache'.rows
  BY <1>1
<1>6. rows1 \in Projections \cup {None}
  <2>1. cache' \in Caches
    BY DEF CacheInv, CacheTypes
  <2> QED
    BY <1>5, <2>1 DEF Caches
<1>7. live1 \in BOOLEAN
  OBVIOUS
<1> HIDE DEF done, again, rows1, live1, Waiting, Again, Done, Pub, RowsLeft
<1>8. calls \in [Calls -> CallStates]
  BY DEF CacheInv, CacheTypes
<1>9. /\ \A w \in done : calls[w].stage # "idle" /\ calls[w].live \in BOOLEAN
      /\ \A w \in done : calls'[w].stage = "idle"
      /\ \A w \in Calls \ done : calls'[w].stage = "idle" <=> calls[w].stage = "idle"
      /\ \A w \in Calls \ done : calls[w].stage # "idle" => calls'[w].live = calls[w].live
  <2>1. ASSUME NEW w \in done
        PROVE  /\ calls[w].stage # "idle" /\ calls[w].live \in BOOLEAN
               /\ calls'[w].stage = "idle"
    <3>1. w \in Calls /\ calls[w] \in CallStates
      BY <1>3, <1>8
    <3>2. calls'[w] = Mailbox!Idle
      BY <1>4, <3>1
    <3>3. calls[w].stage \in {"read", "wait"}
      BY <1>1, <1>3
    <3> QED
      BY <3>1, <3>2, <3>3 DEF CallStates, Mailbox!Idle
  <2>2. ASSUME NEW w \in Calls \ done
        PROVE  /\ calls'[w].stage = "idle" <=> calls[w].stage = "idle"
               /\ calls[w].stage # "idle" => calls'[w].live = calls[w].live
    <3>1. CASE w \notin again
      <4>1. calls'[w] = calls[w]
        BY <1>4, <3>1
      <4> QED
        BY <4>1
    <3>2. CASE w \in again
      <4>1. /\ calls'[w] = [calls[w] EXCEPT !.stage = "read", !.from = rev[calls[n].of],
                                            !.missed = FALSE]
            /\ calls[w].stage = "wait" /\ calls[w] \in CallStates
        BY <1>3, <1>4, <1>8, <3>2
      <4>2. calls[w] \in [stage : {"ready", "wait", "read"}, of : Mailboxes, force : BOOLEAN,
                          from : Nat, on : Calls \cup {None}, live : BOOLEAN, missed : BOOLEAN]
        BY <4>1 DEF CallStates, Mailbox!Idle
      <4> QED
        BY <4>1, <4>2
    <3> QED
      BY <3>1, <3>2
  <2> QED
    BY <2>1, <2>2
<1>10. \A c \in Calls : LiveCall(c)' => LiveCall(c)
  BY <1>9 DEF LiveCall
<1>11. ~live1 => \A c \in Calls : LiveCall(c) => LiveCall(c)'
  BY <1>4, <1>9 DEF LiveCall
<1>12. live1 => inbox.route # None
  <2> SUFFICES ASSUME live1 PROVE inbox.route # None
    OBVIOUS
  <2>1. PICK w \in done : calls[w].live
    BY <1>4
  <2>2. LiveCall(w) /\ w \in Calls
    BY <1>3, <1>9, <2>1 DEF LiveCall
  <2> QED
    BY <2>2 DEF ListInv, LiveHeard
<1> QED
  BY <1>2, <1>4, <1>6, <1>7, <1>10, <1>11, <1>12, ListFolders

\* A step of the stores, which the view does not see.
LEMMA ListStays ==
  ASSUME ListInv, UNCHANGED <<inbox, listings, outrun, mailboxId>>,
         \A c \in Calls : LiveCall(c)' => LiveCall(c) \/ inbox.route # None,
         Synced' =>
           \/ inbox.route = None
           \/ \E c \in Calls : LiveCall(c)'
           \/ ClickLive'
           \/ /\ Synced /\ (mailboxId \in Mailboxes => rev'[mailboxId] = rev[mailboxId])
              /\ (\E c \in Calls : LiveCall(c)) \/ ClickLive =>
                   (\E c \in Calls : LiveCall(c)') \/ ClickLive'
  PROVE  ListInv'
<1>1. ListTypes /\ UnmountedIsEmpty /\ LiveHeard /\ SelectionShown /\ FreshShown
  BY DEF ListInv
<1>2. ListTypes' /\ UnmountedIsEmpty'
  BY <1>1 DEF ListTypes, UnmountedIsEmpty
<1>3. LiveHeard'
  <2>1. \A c \in Calls : LiveCall(c)' => inbox'.route # None
    BY <1>1 DEF LiveHeard
  <2> QED
    BY <2>1 DEF LiveHeard
<1>4. SelectionShown'
  BY <1>1 DEF SelectionShown, Showing, Selected
<1>5. FreshShown'
  <2>1. Showing' <=> Showing
    BY DEF Showing
  <2>2. Showing => inbox.route = mailboxId /\ mailboxId \in Mailboxes /\ inbox.route # None
    BY <1>1 DEF Showing, ListTypes, Inboxes, UnmountedIsEmpty
  <2>3. Showing /\ rev'[mailboxId] = rev[mailboxId] => Fresh' = Fresh
    BY <2>2 DEF Fresh
  <2>4. Showing /\ Synced => \/ \E c \in Calls : LiveCall(c)
                             \/ ClickLive
                             \/ Shown(listings, inbox.list, outrun, Fresh)
    BY <1>1 DEF FreshShown
  <2>5. Showing' /\ Synced' => \/ \E c \in Calls : LiveCall(c)'
                               \/ ClickLive'
                               \/ Shown(listings', inbox'.list, outrun', Fresh')
    BY <2>1, <2>2, <2>3, <2>4
  <2> QED
    BY <2>5 DEF FreshShown
<1> QED
  BY <1>2, <1>3, <1>4, <1>5 DEF ListInv

\* After a sync of the open mailbox none of its runs is left.
LEMMA SyncedIsQuiet ==
  ASSUME SyncInv, syncStatus = "synced", ~doubled, inbox.behind = FALSE
  PROVE  Synced
BY DEF SyncInv, OneRunSync, Synced

LEMMA LoadIsLive ==
  ASSUME CacheInv, NEW b, NEW force \in BOOLEAN, Mailbox!Load(b, force)
  PROVE  /\ \E c \in Calls : LiveCall(c)'
<1> DEFINE call == [stage |-> "ready", of |-> b, force |-> force, from |-> rev[b],
                    on |-> inflight, live |-> TRUE, missed |-> FALSE]
<1>1. PICK n \in Calls :
        \/ calls' = [calls EXCEPT ![n] = call]
        \/ calls' = [calls EXCEPT ![n] = [call EXCEPT !.stage = "wait"]]
        \/ calls' = [calls EXCEPT ![n] = [call EXCEPT !.stage = "read"]]
  BY DEF Mailbox!Load
<1>2. calls \in [Calls -> CallStates]
  BY DEF CacheInv, CacheTypes
<1>3. calls'[n].live = TRUE /\ calls'[n].stage # "idle"
  <2>1. CASE calls' = [calls EXCEPT ![n] = call]
    BY <1>2, <2>1
  <2>2. CASE calls' = [calls EXCEPT ![n] = [call EXCEPT !.stage = "wait"]]
    BY <1>2, <2>2
  <2>3. CASE calls' = [calls EXCEPT ![n] = [call EXCEPT !.stage = "read"]]
    BY <1>2, <2>3
  <2> QED
    BY <1>1, <2>1, <2>2, <2>3
<1> QED
  BY <1>3 DEF LiveCall

LEMMA ListSyncs ==
  ASSUME ListInv, SyncInv, CacheInv,
         \/ Mailbox!RunSync \/ Mailbox!DeltaApplies \/ Mailbox!DeltaEnds \/ Mailbox!DeltaThrows
         \/ Mailbox!FlushEnds \/ Mailbox!RunCounted \/ Mailbox!RunCountThrows
  PROVE  ListInv'
<1>1. UNCHANGED <<inbox, listings, outrun, mailboxId, click>>
  BY DEF Mailbox!RunSync, Mailbox!DeltaApplies, Mailbox!DeltaEnds, Mailbox!DeltaThrows,
     Mailbox!FlushEnds, Mailbox!RunCounted, Mailbox!RunCountThrows, Mailbox!storeVars,
     Mailbox!viewVars
<1>2. ClickLive' <=> ClickLive
  BY <1>1 DEF ClickLive
<1>3. CASE Mailbox!RunSync
  <2>1. syncStatus' = "syncing" /\ calls' = calls
    BY <1>3 DEF Mailbox!RunSync, Mailbox!Sync, Mailbox!cacheVars
  <2>2. ~Synced'
    BY <2>1 DEF Synced
  <2>3. \A c \in Calls : LiveCall(c)' => LiveCall(c)
    BY <2>1 DEF LiveCall
  <2> QED
    BY <1>1, <2>2, <2>3, ListStays
<1>4. CASE Mailbox!DeltaApplies
  <2>1. PICK b \in Mailboxes :
          /\ b \in inflightRuns \/ \E r \in Runs : syncs[r] # Mailbox!Idle /\ syncs[r].of = b
          /\ rev' = [rev EXCEPT ![b] = @ + 1]
    BY <1>4 DEF Mailbox!DeltaApplies
  <2>2. calls' = calls /\ UNCHANGED <<syncStatus, syncs, doubled>>
    BY <1>4 DEF Mailbox!DeltaApplies, Mailbox!storeVars, Mailbox!cacheVars
  <2>3. \A c \in Calls : LiveCall(c)' <=> LiveCall(c)
    BY <2>2 DEF LiveCall
  <2>4. Synced' => Synced
    BY <1>1, <2>2 DEF Synced, Running
  <2>5. Synced => b # mailboxId
    <3>1. \E r \in Runs : Running(r, b)
      BY <2>1 DEF SyncInv, DeltaHasCaller, Running
    <3> QED
      BY <3>1 DEF Synced
  <2>6. Synced /\ mailboxId \in Mailboxes => rev'[mailboxId] = rev[mailboxId]
    <3>1. rev \in [Mailboxes -> Nat]
      BY DEF CacheInv, CacheTypes
    <3> QED
      BY <2>1, <2>5, <3>1
  <2> QED
    BY <1>1, <1>2, <2>3, <2>4, <2>6, ListStays
<1>5. CASE \/ Mailbox!DeltaEnds \/ Mailbox!DeltaThrows \/ Mailbox!FlushEnds
           \/ Mailbox!RunCountThrows
  <2>1. /\ UNCHANGED <<calls, rev, doubled>>
        /\ syncStatus' = "synced" => syncStatus = "synced"
    BY <1>5 DEF Mailbox!DeltaEnds, Mailbox!DeltaThrows, Mailbox!FlushEnds,
       Mailbox!RunCountThrows, Mailbox!storeVars, Mailbox!cacheVars
  <2>2. \A c \in Calls : LiveCall(c)' <=> LiveCall(c)
    BY <2>1 DEF LiveCall
  <2>3. Synced' => Synced
    <3>1. Synced' => syncStatus = "synced" /\ ~doubled /\ inbox.behind = FALSE
      BY <1>1, <2>1 DEF Synced
    <3> QED
      BY <3>1, SyncedIsQuiet
  <2> QED
    BY <1>1, <1>2, <2>1, <2>2, <2>3, ListStays
<1>6. CASE Mailbox!RunCounted
  <2>1. UNCHANGED <<rev, doubled>>
    BY <1>6 DEF Mailbox!RunCounted
  <2>2. PICK n \in Runs :
          IF mailboxId = syncs[n].of THEN Mailbox!Report(syncs[n].verdict)
          ELSE UNCHANGED <<syncStatus, cache, calls, inflight>>
    BY <1>6 DEF Mailbox!RunCounted, Mailbox!cacheVars
  <2>3. CASE /\ UNCHANGED calls
             /\ syncStatus' = "synced" => syncStatus = "synced" \/ inbox.route = None
    <3>1. \A c \in Calls : LiveCall(c)' <=> LiveCall(c)
      BY <2>3 DEF LiveCall
    <3>2. Synced' => Synced \/ inbox.route = None
      <4>1. Synced' => (syncStatus = "synced" \/ inbox.route = None) /\ ~doubled /\ inbox.behind = FALSE
        BY <1>1, <2>1, <2>3 DEF Synced
      <4> QED
        BY <4>1, SyncedIsQuiet
    <3> QED
      BY <1>1, <1>2, <2>1, <3>1, <3>2, ListStays
  <2>4. CASE inbox.route # None /\ Mailbox!Load(inbox.route, TRUE)
    <3>1. \E c \in Calls : LiveCall(c)'
      BY <2>4, LoadIsLive
    <3> QED
      BY <1>1, <2>4, <3>1, ListStays
  <2> QED
    BY <2>2, <2>3, <2>4 DEF Mailbox!Report, Mailbox!cacheVars
<1> QED
  BY <1>3, <1>4, <1>5, <1>6

\* A view is mounted, or unmounted.
LEMMA ListMounts ==
  ASSUME ListInv, SyncInv, CacheInv, Mailbox!Mount \/ Mailbox!Unmount \/ Mailbox!CloseMailbox
  PROVE  ListInv'
<1>1. ListTypes /\ LiveHeard
  BY DEF ListInv
<1>2. listings' \in Seq(Listings)
  <2>1. listings' = listings \/ listings' = <<>>
    BY DEF Mailbox!Mount, Mailbox!Unmount, Mailbox!CloseMailbox, Mailbox!Abandon
  <2> QED
    BY <1>1, <2>1, EmptySeq DEF ListTypes
<1>3. inbox' \in Inboxes /\ inbox'.folder = None
  <2>1. CASE Mailbox!Mount
    <3>1. PICK b \in Mailboxes :
            inbox' = [Mailbox!NoView EXCEPT !.route = b,
                                            !.error = mailboxId # b /\ b \notin accessible']
      BY <2>1 DEF Mailbox!Mount
    <3> QED
      BY <3>1 DEF Inboxes, Mailbox!NoView
  <2>2. CASE Mailbox!Unmount \/ Mailbox!CloseMailbox
    <3>1. inbox' = Mailbox!NoView
      BY <2>2 DEF Mailbox!Unmount, Mailbox!CloseMailbox, Mailbox!Abandon
    <3> QED
      BY <3>1 DEF Inboxes, Mailbox!NoView
  <2> QED
    BY <2>1, <2>2
<1>4. LiveHeard'
  <2>1. CASE Mailbox!Mount
    <3>1. PICK b \in Mailboxes :
            inbox' = [Mailbox!NoView EXCEPT !.route = b,
                                            !.error = mailboxId # b /\ b \notin accessible']
      BY <2>1 DEF Mailbox!Mount
    <3>2. inbox'.route # None
      BY <3>1, ScreensAssumption DEF ScreensAssumption, Mailbox!NoView
    <3> QED
      BY <3>2 DEF LiveHeard
  <2>2. CASE Mailbox!Unmount \/ Mailbox!CloseMailbox
    <3>1. calls' = Mailbox!Unheard
      BY <2>2 DEF Mailbox!Unmount, Mailbox!CloseMailbox
    <3>2. ASSUME NEW c \in Calls PROVE ~LiveCall(c)'
      <4>1. calls'[c] = IF calls[c] = Mailbox!Idle THEN Mailbox!Idle
                        ELSE [calls[c] EXCEPT !.live = FALSE]
        BY <3>1 DEF Mailbox!Unheard
      <4>2. calls[c] \in CallStates
        BY DEF CacheInv, CacheTypes
      <4>3. calls'[c].stage = "idle" \/ calls'[c].live = FALSE
        BY <4>1, <4>2 DEF CallStates, Mailbox!Idle
      <4> QED
        BY <4>3 DEF LiveCall
    <3> QED
      BY <3>2 DEF LiveHeard
  <2> QED
    BY <2>1, <2>2
<1>5. SelectionShown' /\ FreshShown' /\ UnmountedIsEmpty'
  BY <1>3 DEF SelectionShown, FreshShown, UnmountedIsEmpty, Showing
<1> QED
  BY <1>2, <1>3, <1>4, <1>5 DEF ListInv, ListTypes

LEMMA ListRetry == ListInv /\ Mailbox!Retry => ListInv'
<1> SUFFICES ASSUME ListInv, Mailbox!Retry PROVE ListInv'
  OBVIOUS
<1>1. inbox \in Inboxes /\ listings \in Seq(Listings) /\ UnmountedIsEmpty /\ LiveHeard
  BY DEF ListInv, ListTypes
<1> DEFINE after == Mailbox!Begin(inbox, listings)
<1>2. inbox' = after.view /\ listings' = after.loads
  BY DEF Mailbox!Retry, Mailbox!Watched
<1>3. UNCHANGED <<mailboxId, syncStatus, syncs, doubled, outrun, rev, calls>>
  BY DEF Mailbox!Retry, Mailbox!storeVars, Mailbox!cacheVars
<1>4. /\ after.view \in Inboxes /\ after.loads \in Seq(Listings)
      /\ after.view.route = inbox.route /\ after.view.folder = inbox.folder
      /\ after.view.list = inbox.list /\ after.view.behind = inbox.behind
      /\ Begun(after.loads) \/ inbox.folder = None \/ mailboxId # inbox.route
  BY <1>1, BeginFacts
<1> HIDE DEF after
<1>5. ListTypes' /\ UnmountedIsEmpty' /\ LiveHeard'
  BY <1>1, <1>2, <1>3, <1>4 DEF ListTypes, UnmountedIsEmpty, LiveHeard, LiveCall
<1>6. SelectionShown' /\ FreshShown'
  <2>1. Begun(listings') \/ inbox'.folder = None \/ mailboxId # inbox.route
    BY <1>2, <1>4
  <2> QED
    BY <1>2, <1>3, <1>4, <2>1, WatchKeeps
<1> QED
  BY <1>5, <1>6 DEF ListInv

\* A click is in the local database, and its view, if it is still there, is told.
LEMMA ListEnqueued ==
  ASSUME ListInv, CacheInv, NEW written, Mailbox!Enqueued(written),
         UNCHANGED <<mailboxId, syncStatus, syncs, doubled, outrun>>,
         mailboxId \in Mailboxes => rev'[mailboxId] = rev[mailboxId]
  PROVE  ListInv'
<1>1. inbox \in Inboxes /\ listings \in Seq(Listings) /\ UnmountedIsEmpty /\ LiveHeard
  BY DEF ListInv, ListTypes
<1>2. \A c \in Calls : LiveCall(c)' <=> LiveCall(c)
  <2> SUFFICES ASSUME NEW c \in Calls PROVE LiveCall(c)' <=> LiveCall(c)
    OBVIOUS
  <2>1. calls'[c] = calls[c] \/
        (calls'[c] = [calls[c] EXCEPT !.missed = TRUE] /\ calls[c].stage = "read")
    BY DEF Mailbox!Enqueued, Mailbox!Invalidated
  <2>2. calls[c] \in CallStates
    BY DEF CacheInv, CacheTypes
  <2>3. calls[c].stage = "read" =>
          calls[c] \in [stage : {"ready", "wait", "read"}, of : Mailboxes, force : BOOLEAN,
                        from : Nat, on : Calls \cup {None}, live : BOOLEAN, missed : BOOLEAN]
    BY <2>2 DEF CallStates, Mailbox!Idle
  <2>4. calls'[c].stage = calls[c].stage /\ calls'[c].live = calls[c].live
    BY <2>1, <2>3
  <2> QED
    BY <2>4 DEF LiveCall
<1>3. CASE click.live
  <2> DEFINE after == Mailbox!Begin(inbox, listings)
  <2>1. inbox' = after.view /\ listings' = after.loads
    BY <1>3 DEF Mailbox!Enqueued, Mailbox!Watched
  <2>2. /\ after.view \in Inboxes /\ after.loads \in Seq(Listings)
        /\ after.view.route = inbox.route /\ after.view.folder = inbox.folder
        /\ after.view.list = inbox.list /\ after.view.behind = inbox.behind
        /\ Begun(after.loads) \/ inbox.folder = None \/ mailboxId # inbox.route
    BY <1>1, BeginFacts
  <2> HIDE DEF after
  <2>3. ListTypes' /\ UnmountedIsEmpty'
    BY <1>1, <2>1, <2>2 DEF ListTypes, UnmountedIsEmpty
  <2>4. LiveHeard'
    <3>1. \A c \in Calls : LiveCall(c)' => inbox'.route # None
      BY <1>1, <1>2, <2>1, <2>2 DEF LiveHeard
    <3> QED
      BY <3>1 DEF LiveHeard
  <2>5. SelectionShown' /\ FreshShown'
    <3>1. Begun(listings') \/ inbox'.folder = None \/ mailboxId # inbox.route
      BY <2>1, <2>2
    <3> QED
      BY <2>1, <2>2, <3>1, WatchKeeps
  <2> QED
    BY <2>3, <2>4, <2>5 DEF ListInv
<1>4. CASE ~click.live
  <2>1. UNCHANGED <<inbox, listings>>
    BY <1>4 DEF Mailbox!Enqueued
  <2>2. ~ClickLive
    BY <1>4 DEF ClickLive
  <2>3. Synced' => Synced
    BY <2>1 DEF Synced, Running
  <2>4. (\E c \in Calls : LiveCall(c)) \/ ClickLive => (\E c \in Calls : LiveCall(c)') \/ ClickLive'
    BY <1>2, <2>2
  <2> QED
    BY <1>2, <2>1, <2>3, <2>4, ListStays
<1> QED
  BY <1>3, <1>4

LEMMA ListEnqueues ==
  ASSUME ListInv, CacheInv,
         Mailbox!Enqueue \/ Mailbox!EnqueueCommits \/ Mailbox!EnqueueCounted
  PROVE  ListInv'
<1>1. UNCHANGED <<mailboxId, syncStatus, syncs, doubled, outrun>>
  BY DEF Mailbox!Enqueue, Mailbox!EnqueueCommits, Mailbox!EnqueueCounted, Mailbox!storeVars,
     Mailbox!viewVars
<1>2. CASE Mailbox!Enqueue
  <2>1. /\ click' = [stage |-> "write", of |-> mailboxId, rev |-> 0, live |-> TRUE]
        /\ UNCHANGED <<inbox, listings, calls>>
    BY <1>2 DEF Mailbox!Enqueue, Mailbox!viewVars, Mailbox!cacheVars
  <2>2. ClickLive'
    <3>1. click' # Mailbox!Idle
      BY <2>1 DEF Mailbox!Idle
    <3> QED
      BY <2>1, <3>1 DEF ClickLive
  <2>3. \A c \in Calls : LiveCall(c)' => LiveCall(c)
    BY <2>1 DEF LiveCall
  <2> QED
    BY <1>1, <2>1, <2>2, <2>3, ListStays
<1>3. CASE Mailbox!EnqueueCounted
  <2>1. /\ Mailbox!Enqueued(click.rev) /\ rev' = rev
    BY <1>3 DEF Mailbox!EnqueueCounted
  <2> QED
    BY <1>1, <2>1, ListEnqueued
<1>4. CASE Mailbox!EnqueueCommits
  <2>1. /\ click.stage = "write" /\ rev' = [rev EXCEPT ![click.of] = @ + 1]
    BY <1>4 DEF Mailbox!EnqueueCommits
  <2>2. click \in [stage : {"write", "count"}, of : Mailboxes, rev : Nat, live : BOOLEAN]
        /\ rev \in [Mailboxes -> Nat]
    BY <2>1 DEF CacheInv, CacheTypes, ClickStates, Mailbox!Idle
  <2>3. CASE mailboxId # click.of
    <3>1. Mailbox!Enqueued(rev'[click.of])
      BY <1>4, <2>3 DEF Mailbox!EnqueueCommits
    <3>2. mailboxId \in Mailboxes => rev'[mailboxId] = rev[mailboxId]
      BY <2>1, <2>2, <2>3
    <3>3. PICK written : written = rev'[click.of]
      OBVIOUS
    <3>4. Mailbox!Enqueued(written)
      BY <3>1, <3>3
    <3> QED
      BY <1>1, <3>2, <3>4, ListEnqueued
  <2>4. CASE mailboxId = click.of
    <3>1. /\ click' = [click EXCEPT !.stage = "count", !.rev = rev'[click.of]]
          /\ inbox' = [inbox EXCEPT !.behind = @ \/ (inbox.route # None /\ ~click.live)]
          /\ UNCHANGED <<calls, listings>>
      BY <1>4, <2>4 DEF Mailbox!EnqueueCommits
    <3>2. /\ inbox \in Inboxes /\ listings \in Seq(Listings) /\ UnmountedIsEmpty /\ LiveHeard
          /\ SelectionShown /\ FreshShown
      BY DEF ListInv, ListTypes
    <3>3. /\ inbox' \in Inboxes /\ inbox'.route = inbox.route /\ inbox'.folder = inbox.folder
          /\ inbox'.page = inbox.page /\ inbox'.query = inbox.query /\ inbox'.list = inbox.list
          /\ inbox'.error = inbox.error
          /\ inbox.route # None /\ ~click.live => inbox'.behind = TRUE
      BY <3>1, <3>2 DEF Inboxes
    <3>4. ListTypes' /\ UnmountedIsEmpty' /\ LiveHeard'
      BY <3>1, <3>2, <3>3 DEF ListTypes, UnmountedIsEmpty, LiveHeard, LiveCall
    <3>5. SelectionShown'
      <4>1. Selected' = Selected /\ (Showing' <=> Showing)
        BY <1>1, <3>3 DEF Selected, Showing
      <4>2. Showing => Shown(listings, inbox.list, outrun, Selected)
        BY <3>2 DEF SelectionShown
      <4>3. Showing' => Shown(listings', inbox'.list, outrun', Selected')
        BY <1>1, <3>1, <3>3, <4>1, <4>2
      <4> QED
        BY <4>3 DEF SelectionShown
    <3>6. FreshShown'
      <4>1. CASE click.live
        <5>1. click' # Mailbox!Idle /\ click'.live = TRUE
          BY <2>2, <3>1, <4>1 DEF Mailbox!Idle
        <5>2. ClickLive'
          BY <5>1 DEF ClickLive
        <5> QED
          BY <5>2 DEF FreshShown
      <4>2. CASE ~click.live
        <5>1. Showing' => inbox.route # None
          BY <3>2, <3>3 DEF Showing, UnmountedIsEmpty
        <5>2. Showing' => ~Synced'
          BY <3>3, <4>2, <5>1 DEF Synced
        <5> QED
          BY <5>2 DEF FreshShown
      <4> QED
        BY <4>1, <4>2
    <3> QED
      BY <3>4, <3>5, <3>6 DEF ListInv
  <2> QED
    BY <2>3, <2>4
<1> QED
  BY <1>2, <1>3, <1>4

\* A load goes on.
LEMMA ListLoads ==
  ASSUME ListInv, CacheInv,
         UNCHANGED <<mailboxId, syncStatus, syncs, doubled, rev, calls, click>>,
         inbox' \in Inboxes, listings' \in Seq(Listings),
         inbox'.route = inbox.route, inbox'.folder = inbox.folder, inbox'.page = inbox.page,
         inbox'.query = inbox.query, inbox'.behind = inbox.behind,
         inbox'.error = FALSE =>
           /\ inbox.error = FALSE
           /\ Showing /\ Shown(listings, inbox.list, outrun, Selected) =>
                Shown(listings', inbox'.list, outrun', Selected)
           /\ Showing /\ Shown(listings, inbox.list, outrun, Fresh) =>
                Shown(listings', inbox'.list, outrun', Fresh)
  PROVE  ListInv'
<1>1. ListTypes /\ UnmountedIsEmpty /\ LiveHeard /\ SelectionShown /\ FreshShown
  BY DEF ListInv
<1>2. ListTypes' /\ UnmountedIsEmpty' /\ LiveHeard'
  BY <1>1 DEF ListTypes, UnmountedIsEmpty, LiveHeard, LiveCall
<1>3. /\ Selected' = Selected /\ Fresh' = Fresh
      /\ Showing' => Showing /\ inbox'.error = FALSE
      /\ Synced' => Synced
  BY DEF Selected, Fresh, Showing, Synced, Running
<1>4. SelectionShown'
  <2>1. Showing' => Shown(listings', inbox'.list, outrun', Selected')
    BY <1>1, <1>3 DEF SelectionShown
  <2> QED
    BY <2>1 DEF SelectionShown
<1>5. FreshShown'
  <2>1. /\ \A c \in Calls : LiveCall(c)' <=> LiveCall(c)
        /\ ClickLive' <=> ClickLive
    BY DEF LiveCall, ClickLive
  <2>2. Showing' /\ Synced' => \/ \E c \in Calls : LiveCall(c)'
                               \/ ClickLive'
                               \/ Shown(listings', inbox'.list, outrun', Fresh')
    BY <1>1, <1>3, <2>1 DEF FreshShown
  <2> QED
    BY <2>2 DEF FreshShown
<1> QED
  BY <1>2, <1>4, <1>5 DEF ListInv

LEMMA ListPending == ListInv /\ CacheInv /\ Mailbox!LoadPending => ListInv'
<1> SUFFICES ASSUME ListInv, CacheInv, Mailbox!LoadPending PROVE ListInv'
  OBVIOUS
<1>1. UNCHANGED <<mailboxId, syncStatus, syncs, doubled, rev, calls, click, outrun>>
  BY DEF Mailbox!LoadPending, Mailbox!storeVars, Mailbox!cacheVars
<1>2. inbox \in Inboxes /\ listings \in Seq(Listings) /\ UnmountedIsEmpty
  BY DEF ListInv, ListTypes
<1>3. PICK i \in DOMAIN listings :
       /\ listings[i].stage = "queue"
       /\ IF inbox.folder = None
          THEN /\ listings' = Mailbox!Without(listings, i)
               /\ inbox' = [inbox EXCEPT !.loading = FALSE, !.error = TRUE]
          ELSE /\ listings' = [listings EXCEPT ![i] =
                             [stage |-> "rows", overtaken |-> @.overtaken,
                              list |-> [folder |-> inbox.folder, page |-> inbox.page,
                                        query |-> inbox.query, rev |-> rev[inbox.route]]]]
               /\ inbox' = inbox
  BY DEF Mailbox!LoadPending
<1>4. CASE inbox.folder = None
  <2>1. listings' \in Seq(Listings)
    <3>1. listings' = Without(listings, i)
      BY <1>3, <1>4 DEF Mailbox!Without, Without
    <3> QED
      BY <1>2, <3>1, Removed
  <2>2. /\ inbox' \in Inboxes /\ inbox'.error # FALSE
        /\ inbox'.route = inbox.route /\ inbox'.folder = inbox.folder /\ inbox'.page = inbox.page
        /\ inbox'.query = inbox.query /\ inbox'.behind = inbox.behind
    BY <1>2, <1>3, <1>4 DEF Inboxes
  <2> QED
    BY <1>1, <2>1, <2>2, ListLoads
<1>5. CASE inbox.folder # None
  <2> DEFINE list == [folder |-> inbox.folder, page |-> inbox.page,
                      query |-> inbox.query, rev |-> rev[inbox.route]]
             new == [stage |-> "rows", overtaken |-> listings[i].overtaken, list |-> list]
  <2>1. listings' = [listings EXCEPT ![i] = new] /\ inbox' = inbox
    BY <1>3, <1>5
  <2>2. list \in Lists
    <3>1. inbox.route \in Mailboxes /\ rev \in [Mailboxes -> Nat]
      BY <1>2, <1>5 DEF UnmountedIsEmpty, Inboxes, CacheInv, CacheTypes
    <3> QED
      BY <1>2, <1>5, <3>1 DEF Inboxes, Lists
  <2>3. list \in Selected /\ (Showing => list \in Fresh)
    BY <2>2 DEF Selected, Fresh
  <2>4. new.list = list /\ new.stage = "rows" /\ new.overtaken = listings[i].overtaken
    OBVIOUS
  <2>5. new \in Listings
    <3>1. listings[i].overtaken \in BOOLEAN
      BY <1>2, ListingTyped
    <3> QED
      BY <2>2, <3>1 DEF Listings
  <2> HIDE DEF list, new
  <2>6. listings' \in Seq(Listings)
    BY <1>2, <2>1, <2>5, ExceptSeq
  <2>7. Shown(listings, inbox.list, outrun, Selected) => Shown(listings', inbox'.list, outrun', Selected)
    BY <1>1, <1>2, <1>3, <2>1, <2>3, <2>4, <2>5, ShownPending
  <2>8. Showing /\ Shown(listings, inbox.list, outrun, Fresh) => Shown(listings', inbox'.list, outrun', Fresh)
    BY <1>1, <1>2, <1>3, <2>1, <2>3, <2>4, <2>5, ShownPending
  <2> QED
    BY <1>1, <1>2, <2>1, <2>6, <2>7, <2>8, ListLoads
<1> QED
  BY <1>4, <1>5

LEMMA ListRows == ListInv /\ CacheInv /\ Mailbox!LoadRows => ListInv'
<1> SUFFICES ASSUME ListInv, CacheInv, Mailbox!LoadRows PROVE ListInv'
  OBVIOUS
<1>1. UNCHANGED <<mailboxId, syncStatus, syncs, doubled, rev, calls, click>>
  BY DEF Mailbox!LoadRows, Mailbox!storeVars, Mailbox!cacheVars
<1>2. inbox \in Inboxes /\ listings \in Seq(Listings)
  BY DEF ListInv, ListTypes
<1>3. PICK i \in DOMAIN listings :
       /\ listings[i].stage = "rows"
       /\ outrun' = listings[i].overtaken
       /\ IF listings[i].list.query
          THEN /\ listings' = Mailbox!Without(Overtaking(listings, i), i)
               /\ inbox' = [inbox EXCEPT !.list = listings[i].list, !.total = 1, !.loading = FALSE]
          ELSE /\ listings' = [Overtaking(listings, i) EXCEPT ![i] =
                                 [stage |-> "total", overtaken |-> @.overtaken,
                                  folder |-> listings[i].list.folder]]
               /\ inbox' = [inbox EXCEPT !.list = listings[i].list]
  BY DEF Mailbox!LoadRows, Overtaking
<1>4. /\ listings[i].list \in Lists /\ listings[i].overtaken \in BOOLEAN
      /\ listings[i].list.folder \in Folders
  <2>1. listings[i].list \in Lists /\ listings[i].overtaken \in BOOLEAN
    BY <1>2, <1>3, ListingTyped
  <2> QED
    BY <2>1 DEF Lists
<1> DEFINE rest == Overtaking(listings, i)
           new == [stage |-> "total", overtaken |-> listings[i].overtaken,
                   folder |-> listings[i].list.folder]
<1>5. rest \in Seq(Listings) /\ i \in DOMAIN rest /\ rest[i] = listings[i]
  <2>1. DOMAIN listings = 1 .. Len(listings) /\ Len(listings) \in Nat
    BY <1>2, LenProperties
  <2>2. /\ rest \in Seq(Listings) /\ DOMAIN rest = DOMAIN listings
        /\ \A j \in DOMAIN listings : ~(j < i) => rest[j] = listings[j]
    BY <1>2, OvertakingTyped
  <2>3. ~(i < i)
    BY <2>1
  <2> HIDE DEF rest
  <2> QED
    BY <2>2, <2>3
<1>6. new \in Listings /\ new.stage = "total"
  BY <1>4 DEF Listings
<1>7. \/ listings' = Without(rest, i)
      \/ listings' = [rest EXCEPT ![i] = new]
  BY <1>3, <1>5 DEF Mailbox!Without, Without
<1> HIDE DEF rest, new
<1>8. listings' \in Seq(Listings)
  BY <1>5, <1>6, <1>7, Removed, ExceptSeq
<1>9. /\ inbox' \in Inboxes /\ inbox'.error = inbox.error /\ inbox'.list = listings[i].list
      /\ inbox'.route = inbox.route /\ inbox'.folder = inbox.folder /\ inbox'.page = inbox.page
      /\ inbox'.query = inbox.query /\ inbox'.behind = inbox.behind
  <2>1. \/ inbox' = [inbox EXCEPT !.list = listings[i].list, !.total = 1, !.loading = FALSE]
        \/ inbox' = [inbox EXCEPT !.list = listings[i].list]
    BY <1>3
  <2>2. PICK l \in Lists : l = listings[i].list
    BY <1>4
  <2>3. CASE inbox' = [inbox EXCEPT !.list = l, !.total = 1, !.loading = FALSE]
    BY <1>2, <2>2, <2>3 DEF Inboxes
  <2>4. CASE inbox' = [inbox EXCEPT !.list = l]
    BY <1>2, <2>2, <2>4 DEF Inboxes
  <2> QED
    BY <2>1, <2>2, <2>3, <2>4
<1>10. ASSUME NEW good, Shown(listings, inbox.list, outrun, good)
       PROVE  Shown(listings', inbox'.list, outrun', good)
  <2>1. /\ Shown(Without(rest, i), listings[i].list, listings[i].overtaken, good)
        /\ Shown([rest EXCEPT ![i] = new], listings[i].list, listings[i].overtaken, good)
    BY <1>2, <1>3, <1>6, <1>10, ShownRows DEF rest
  <2> QED
    BY <1>3, <1>7, <1>9, <2>1
<1>11. /\ Shown(listings, inbox.list, outrun, Selected) => Shown(listings', inbox'.list, outrun', Selected)
       /\ Shown(listings, inbox.list, outrun, Fresh) => Shown(listings', inbox'.list, outrun', Fresh)
  BY <1>10
<1> QED
  BY <1>1, <1>8, <1>9, <1>11, ListLoads

LEMMA ListTotal == ListInv /\ CacheInv /\ (Mailbox!LoadTotal \/ Mailbox!LoadFails) => ListInv'
<1> SUFFICES ASSUME ListInv, CacheInv, Mailbox!LoadTotal \/ Mailbox!LoadFails PROVE ListInv'
  OBVIOUS
<1>1. UNCHANGED <<mailboxId, syncStatus, syncs, doubled, rev, calls, click, outrun>>
  BY DEF Mailbox!LoadTotal, Mailbox!LoadFails, Mailbox!storeVars, Mailbox!cacheVars
<1>2. inbox \in Inboxes /\ listings \in Seq(Listings)
  BY DEF ListInv, ListTypes
<1>3. PICK i \in DOMAIN listings :
        /\ listings' = Mailbox!Without(listings, i)
        /\ \/ /\ listings[i].stage = "total"
              /\ inbox' = [inbox EXCEPT !.loading = FALSE,
                             !.total = IF listings[i].folder.of = inbox.route THEN 2 ELSE 0]
           \/ inbox' = [inbox EXCEPT !.loading = FALSE, !.error = TRUE]
  BY DEF Mailbox!LoadTotal, Mailbox!LoadFails
<1>4. listings' = Without(listings, i) /\ listings' \in Seq(Listings)
  BY <1>2, <1>3, Removed DEF Mailbox!Without, Without
<1>5. /\ inbox' \in Inboxes /\ inbox'.list = inbox.list
      /\ inbox'.route = inbox.route /\ inbox'.folder = inbox.folder /\ inbox'.page = inbox.page
      /\ inbox'.query = inbox.query /\ inbox'.behind = inbox.behind
      /\ inbox'.error = FALSE => listings[i].stage = "total" /\ inbox'.error = inbox.error
  <2>1. CASE inbox' = [inbox EXCEPT !.loading = FALSE, !.error = TRUE]
    BY <1>2, <2>1 DEF Inboxes
  <2>2. CASE /\ listings[i].stage = "total"
             /\ \E t \in Nat : inbox' = [inbox EXCEPT !.loading = FALSE, !.total = t]
    BY <1>2, <2>2 DEF Inboxes
  <2> QED
    BY <1>3, <2>1, <2>2
<1>6. ASSUME NEW good, Shown(listings, inbox.list, outrun, good), inbox'.error = FALSE
      PROVE  Shown(listings', inbox'.list, outrun', good)
  BY <1>1, <1>2, <1>4, <1>5, <1>6, ShownTotal
<1>7. inbox'.error = FALSE =>
        /\ Shown(listings, inbox.list, outrun, Selected) => Shown(listings', inbox'.list, outrun', Selected)
        /\ Shown(listings, inbox.list, outrun, Fresh) => Shown(listings', inbox'.list, outrun', Fresh)
  BY <1>6
<1> QED
  BY <1>1, <1>4, <1>5, <1>7, ListLoads

LEMMA ListSteps == ListInv /\ SyncInv /\ CacheInv /\ CacheInv' /\ Mailbox!Next => ListInv'
<1> SUFFICES ASSUME ListInv, SyncInv, CacheInv, CacheInv', Mailbox!Next PROVE ListInv'
  OBVIOUS
<1>1. CASE Mailbox!LoadPending \/ Mailbox!LoadRows \/ Mailbox!LoadTotal \/ Mailbox!LoadFails
  BY <1>1, ListPending, ListRows, ListTotal
<1>2. CASE Mailbox!SelectFolder \/ Mailbox!Search \/ Mailbox!GoNext \/ Mailbox!GoPrev
           \/ Mailbox!Retry \/ Mailbox!LoadReady \/ Mailbox!ReadEnds
  BY <1>2, ListClicked, ListRetry, ListReady, ListReadEnds
<1>3. CASE Mailbox!Enqueue \/ Mailbox!EnqueueCommits \/ Mailbox!EnqueueCounted
  BY <1>3, ListEnqueues
<1>4. CASE \/ Mailbox!RunSync \/ Mailbox!DeltaApplies \/ Mailbox!DeltaEnds \/ Mailbox!DeltaThrows
           \/ Mailbox!FlushEnds \/ Mailbox!RunCounted \/ Mailbox!RunCountThrows
  BY <1>4, ListSyncs
<1>5. CASE Mailbox!Mount \/ Mailbox!Unmount \/ Mailbox!CloseMailbox
  BY <1>5, ListMounts
<1> QED
  BY <1>1, <1>2, <1>3, <1>4, <1>5 DEF Mailbox!Next

-----------------------------------------------------------------------------
(* The mailbox: together                                                   *)

MailboxInv == SyncInv /\ CacheInv /\ ListInv

LEMMA MailboxStarts == Mailbox!Init => MailboxInv
BY SyncStarts, CacheStarts, ListStarts DEF MailboxInv

LEMMA MailboxSteps == MailboxInv /\ Mailbox!Next => MailboxInv'
<1> SUFFICES ASSUME MailboxInv, Mailbox!Next PROVE MailboxInv'
  OBVIOUS
<1>1. SyncInv /\ CacheInv /\ ListInv
  BY DEF MailboxInv
<1>2. inbox.route \in Mailboxes \cup {None}
  BY <1>1 DEF ListInv, ListTypes, Inboxes
<1>3. SyncInv' /\ CacheInv'
  BY <1>1, <1>2, SyncSteps, CacheSteps
<1>4. ListInv'
  BY <1>1, <1>3, ListSteps
<1> QED
  BY <1>3, <1>4 DEF MailboxInv

LEMMA MailboxStays == MailboxInv /\ UNCHANGED mailboxState => MailboxInv'
<1> SUFFICES ASSUME MailboxInv, UNCHANGED mailboxState PROVE MailboxInv'
  OBVIOUS
<1>1. UNCHANGED <<mailboxId, syncStatus, syncs, inflightRuns, flushed, doubled, broken,
                  rev, click, cache, calls, inflight, acked, inbox, listings, outrun>>
  BY DEF mailboxState
<1>2. SyncInv' /\ CacheInv'
  BY <1>1, SyncStays, CacheStays DEF MailboxInv, syncState, cacheState
<1>3. ListInv'
  <2>1. \A c \in Calls : LiveCall(c)' <=> LiveCall(c)
    BY <1>1 DEF LiveCall
  <2>2. Synced' <=> Synced
    BY <1>1 DEF Synced, Running
  <2>3. ClickLive' <=> ClickLive
    BY <1>1 DEF ClickLive
  <2> QED
    BY <1>1, <2>1, <2>2, <2>3, ListStays DEF MailboxInv
<1> QED
  BY <1>2, <1>3 DEF MailboxInv

LEMMA ListSettled == MailboxInv => Mailbox!ListSettles
<1> SUFFICES ASSUME MailboxInv, Mailbox!Settled, ~outrun
             PROVE  /\ inbox.list # None
                    /\ inbox.list.folder = inbox.folder /\ inbox.list.page = inbox.page
                    /\ inbox.list.query = inbox.query
                    /\ syncStatus = "synced" /\ ~Mailbox!RunOf(inbox.route) /\ ~doubled
                       /\ ~inbox.behind => inbox.list.rev = rev[inbox.route]
  BY DEF Mailbox!ListSettles
<1>1. inbox \in Inboxes /\ SelectionShown /\ FreshShown
  BY DEF MailboxInv, ListInv, ListTypes
<1>2. /\ listings = <<>> /\ ~inbox.error /\ click = Mailbox!Idle
      /\ inbox.route = mailboxId /\ inbox.folder # None
      /\ \A c \in Calls : calls[c].stage = "idle" \/ ~calls[c].live
  BY DEF Mailbox!Settled
<1>3. Showing
  BY <1>1, <1>2 DEF Showing, Inboxes
<1>4. ~ClickLive /\ \A c \in Calls : ~LiveCall(c)
  BY <1>2 DEF ClickLive, LiveCall
<1>5. \A good : Shown(listings, inbox.list, outrun, good) => inbox.list \in good
  BY <1>2 DEF Shown
<1>6. inbox.list \in Selected
  <2>1. Shown(listings, inbox.list, outrun, Selected)
    BY <1>1, <1>3 DEF SelectionShown
  <2> QED
    BY <1>5, <2>1
<1>7. inbox.list # None
  <2>1. inbox.list \in Lists
    BY <1>6 DEF Selected
  <2> QED
    BY <2>1, ScreensAssumption DEF ScreensAssumption, Lists, Folders
<1>8. ASSUME syncStatus = "synced", ~Mailbox!RunOf(inbox.route), ~doubled, ~inbox.behind
      PROVE  inbox.list.rev = rev[inbox.route]
  <2>1. Synced
    BY <1>1, <1>2, <1>8 DEF Synced, Running, Mailbox!RunOf, Inboxes
  <2>2. Shown(listings, inbox.list, outrun, Fresh)
    BY <1>1, <1>3, <1>4, <2>1 DEF FreshShown
  <2>3. inbox.list \in Fresh
    BY <1>5, <2>2
  <2> QED
    BY <2>3 DEF Fresh
<1> QED
  BY <1>6, <1>7, <1>8 DEF Selected

LEMMA MailboxHolds ==
  MailboxInv => /\ Mailbox!SyncingMeansRunning /\ Mailbox!SyncedWasFlushed
                /\ Mailbox!CacheBelongs /\ Mailbox!ReadyIsFresh /\ Mailbox!ListSettles
BY ListSettled DEF MailboxInv, SyncInv, CacheInv

-----------------------------------------------------------------------------
(* The message: its loads                                                  *)

Stages == {"folders", "row", "siblings", "match", "fetch", "put", "parse", "acting"}
Receivers == Messages \cup {None}
MessageRuns ==
  {r \in [stage : Stages, for : Messages, used : Receivers, raw : Receivers,
          live : BOOLEAN, overtaken : BOOLEAN] : r.live = TRUE => r.used # None}
\* Loads that have used the id they were begun for, and have what was fetched for it.
Straight ==
  {r \in MessageRuns :
     /\ r.used \in {r.for, None}
     /\ r.stage = "put" => r.raw = r.for
     /\ r.stage = "parse" /\ r.live = TRUE => r.raw = r.for}

Ongoing(r) == r.live = TRUE /\ r.stage # "acting"
SomeOngoing(rs) == \E i \in DOMAIN rs : Ongoing(rs[i])
\* The runs of a view that is gone come first.
DeadFirst(rs) == \A i, j \in DOMAIN rs : i < j /\ rs[i].live = TRUE => rs[j].live = TRUE
AllOvertaken(rs) == \A i \in DOMAIN rs : Ongoing(rs[i]) => rs[i].overtaken = TRUE
\* The newest load is still to come, and is for m.
Newest(rs, m, k) ==
  /\ Ongoing(rs[k]) /\ rs[k].overtaken = FALSE /\ rs[k].for = m
  /\ \A j \in DOMAIN rs : j > k => rs[j].stage = "acting"
Coming(rs, m) == \E k \in DOMAIN rs : Newest(rs, m, k)

LEMMA ComingIsOngoing ==
  ASSUME NEW rs, NEW m, Coming(rs, m) PROVE SomeOngoing(rs)
BY DEF Coming, Newest, SomeOngoing

\* Run i goes on.
LEMMA RunGoes ==
  ASSUME NEW S, NEW rs \in Seq(S), NEW i \in DOMAIN rs, NEW new \in S,
         new.live = rs[i].live, new.for = rs[i].for, new.overtaken = rs[i].overtaken,
         new.stage # "acting", rs[i].stage # "acting", DeadFirst(rs)
  PROVE  /\ [rs EXCEPT ![i] = new] \in Seq(S) /\ DeadFirst([rs EXCEPT ![i] = new])
         /\ SomeOngoing(rs) => SomeOngoing([rs EXCEPT ![i] = new])
         /\ AllOvertaken(rs) => AllOvertaken([rs EXCEPT ![i] = new])
         /\ \A m : Coming(rs, m) => Coming([rs EXCEPT ![i] = new], m)
         /\ new.live = TRUE => SomeOngoing([rs EXCEPT ![i] = new])
<1> DEFINE after == [rs EXCEPT ![i] = new]
<1>1. /\ after \in Seq(S) /\ DOMAIN after = DOMAIN rs /\ after[i] = new
      /\ \A j \in DOMAIN rs : j # i => after[j] = rs[j]
  BY ExceptSeq, LenProperties
<1> HIDE DEF after
<1>2. \A j \in DOMAIN rs : /\ after[j].live = rs[j].live /\ after[j].for = rs[j].for
                           /\ after[j].overtaken = rs[j].overtaken
                           /\ after[j].stage = "acting" <=> rs[j].stage = "acting"
  BY <1>1
<1>3. DeadFirst(after)
  BY <1>1, <1>2 DEF DeadFirst
<1>4. \A j \in DOMAIN rs : Ongoing(after[j]) <=> Ongoing(rs[j])
  BY <1>2 DEF Ongoing
<1>5. SomeOngoing(rs) => SomeOngoing(after)
  BY <1>1, <1>4 DEF SomeOngoing
<1>6. AllOvertaken(rs) => AllOvertaken(after)
  BY <1>1, <1>2, <1>4 DEF AllOvertaken
<1>7. ASSUME NEW m, Coming(rs, m) PROVE Coming(after, m)
  <2>1. PICK k \in DOMAIN rs : Newest(rs, m, k)
    BY <1>7 DEF Coming
  <2>2. Newest(after, m, k)
    BY <1>1, <1>2, <1>4, <2>1 DEF Newest
  <2> QED
    BY <1>1, <2>2 DEF Coming
<1>8. new.live = TRUE => SomeOngoing(after)
  BY <1>1 DEF SomeOngoing, Ongoing
<1> QED
  BY <1>1, <1>3, <1>5, <1>6, <1>7, <1>8 DEF after

\* Another run begins.
LEMMA RunBegins ==
  ASSUME NEW S, NEW rs \in Seq(S), NEW new \in S, new.live = TRUE, DeadFirst(rs)
  PROVE  /\ Append(rs, new) \in Seq(S) /\ DeadFirst(Append(rs, new))
         /\ new.stage # "acting" =>
              /\ SomeOngoing(Append(rs, new))
              /\ new.overtaken = FALSE => Coming(Append(rs, new), new.for)
         /\ new.stage = "acting" =>
              /\ SomeOngoing(rs) => SomeOngoing(Append(rs, new))
              /\ AllOvertaken(rs) => AllOvertaken(Append(rs, new))
              /\ \A m : Coming(rs, m) => Coming(Append(rs, new), m)
<1> DEFINE after == Append(rs, new)
           n == Len(rs) + 1
<1>1. /\ after \in Seq(S) /\ DOMAIN after = 1 .. n /\ after[n] = new /\ n \in DOMAIN after
      /\ DOMAIN rs = 1 .. Len(rs) /\ Len(rs) \in Nat /\ n = Len(rs) + 1
      /\ \A j \in DOMAIN rs : j \in DOMAIN after /\ after[j] = rs[j]
      /\ \A j \in DOMAIN after : j \in DOMAIN rs \/ j = n
  BY Appended, LenProperties
<1> HIDE DEF after, n
<1>2. DeadFirst(after)
  BY <1>1 DEF DeadFirst
<1>3. ASSUME new.stage # "acting"
      PROVE  SomeOngoing(after) /\ (new.overtaken = FALSE => Coming(after, new.for))
  <2>1. Ongoing(after[n])
    BY <1>1, <1>3 DEF Ongoing
  <2>2. \A j \in DOMAIN after : ~(j > n)
    BY <1>1
  <2>3. new.overtaken = FALSE => Newest(after, new.for, n)
    BY <1>1, <2>1, <2>2 DEF Newest
  <2> QED
    BY <1>1, <2>1, <2>3 DEF SomeOngoing, Coming
<1>4. ASSUME new.stage = "acting"
      PROVE  /\ SomeOngoing(rs) => SomeOngoing(after)
             /\ AllOvertaken(rs) => AllOvertaken(after)
             /\ \A m : Coming(rs, m) => Coming(after, m)
  <2>1. SomeOngoing(rs) => SomeOngoing(after)
    BY <1>1 DEF SomeOngoing
  <2>2. AllOvertaken(rs) => AllOvertaken(after)
    BY <1>1, <1>4 DEF AllOvertaken, Ongoing
  <2>3. ASSUME NEW m, Coming(rs, m) PROVE Coming(after, m)
    <3>1. PICK k \in DOMAIN rs : Newest(rs, m, k)
      BY <2>3 DEF Coming
    <3>2. Newest(after, m, k)
      BY <1>1, <1>4, <3>1 DEF Newest
    <3> QED
      BY <1>1, <3>2 DEF Coming
  <2> QED
    BY <2>1, <2>2, <2>3
<1> QED
  BY <1>1, <1>2, <1>3, <1>4 DEF after

Outrun(rs, i) ==
  [j \in DOMAIN rs |-> IF j < i THEN [rs[j] EXCEPT !.overtaken = @ \/ rs[j].live] ELSE rs[j]]

\* Run i ends.
LEMMA RunEnds ==
  ASSUME NEW S \in SUBSET MessageRuns, \A r \in S : [r EXCEPT !.overtaken = TRUE] \in S,
         NEW rs \in Seq(S), NEW i \in DOMAIN rs, rs[i].stage # "acting", DeadFirst(rs)
  PROVE  /\ Without(Outrun(rs, i), i) \in Seq(S) /\ DeadFirst(Without(Outrun(rs, i), i))
         /\ rs[i].live = FALSE /\ SomeOngoing(rs) => SomeOngoing(Without(Outrun(rs, i), i))
         /\ AllOvertaken(rs) =>
              /\ AllOvertaken(Without(Outrun(rs, i), i))
              /\ rs[i].live = TRUE => rs[i].overtaken = TRUE
         /\ \A m : Coming(rs, m) =>
              \/ Coming(Without(Outrun(rs, i), i), m)
              \/ /\ AllOvertaken(Without(Outrun(rs, i), i))
                 /\ rs[i].live = TRUE /\ rs[i].for = m
         /\ \A j \in DOMAIN Without(Outrun(rs, i), i) : \E k \in DOMAIN rs :
              Without(Outrun(rs, i), i)[j].live = rs[k].live
<1> DEFINE mid == Outrun(rs, i)
           after == Without(mid, i)
<1>1. DOMAIN rs = 1 .. Len(rs) /\ Len(rs) \in Nat
  BY LenProperties
<1>2. \A j \in DOMAIN rs : rs[j] \in S /\ rs[j] \in MessageRuns
  BY ElementOf
<1>3. \A j \in DOMAIN rs :
        /\ mid[j] \in S /\ mid[j].live = rs[j].live /\ mid[j].for = rs[j].for
        /\ mid[j].stage = rs[j].stage
        /\ rs[j].overtaken = TRUE => mid[j].overtaken = TRUE
        /\ j < i /\ rs[j].live = TRUE => mid[j].overtaken = TRUE
        /\ ~(j < i) => mid[j] = rs[j]
  <2> SUFFICES ASSUME NEW j \in DOMAIN rs
               PROVE  /\ mid[j] \in S /\ mid[j].live = rs[j].live /\ mid[j].for = rs[j].for
                      /\ mid[j].stage = rs[j].stage
                      /\ rs[j].overtaken = TRUE => mid[j].overtaken = TRUE
                      /\ j < i /\ rs[j].live = TRUE => mid[j].overtaken = TRUE
                      /\ ~(j < i) => mid[j] = rs[j]
    OBVIOUS
  <2>1. mid[j] = IF j < i THEN [rs[j] EXCEPT !.overtaken = @ \/ rs[j].live] ELSE rs[j]
    BY DEF Outrun
  <2>2. rs[j] \in [stage : Stages, for : Messages, used : Receivers, raw : Receivers,
                   live : BOOLEAN, overtaken : BOOLEAN]
    BY <1>2 DEF MessageRuns
  <2> DEFINE new == [rs[j] EXCEPT !.overtaken = TRUE]
  <2>3. /\ new \in S /\ new.live = rs[j].live /\ new.for = rs[j].for
        /\ new.stage = rs[j].stage /\ new.overtaken = TRUE
    BY <1>2, <2>2
  <2>4. [rs[j] EXCEPT !.overtaken = @ \/ rs[j].live] =
          IF rs[j].overtaken = TRUE \/ rs[j].live = TRUE THEN new ELSE rs[j]
    BY <2>2
  <2> HIDE DEF mid, new
  <2> QED
    BY <1>2, <2>1, <2>3, <2>4
<1>4. mid \in Seq(S) /\ DOMAIN mid = DOMAIN rs /\ Len(mid) = Len(rs)
  <2>1. mid = [j \in 1 .. Len(rs) |-> mid[j]]
    BY <1>1 DEF Outrun
  <2> HIDE DEF mid
  <2>2. mid \in [1 .. Len(rs) -> S]
    BY <1>1, <1>3, <2>1
  <2> QED
    BY <1>1, <2>2, ListOf
<1> HIDE DEF mid
<1>5. /\ after \in Seq(S)
      /\ \A j \in DOMAIN after : /\ Place(i, j) \in DOMAIN rs /\ Place(i, j) # i
                                 /\ after[j] = mid[Place(i, j)]
      /\ \A k \in DOMAIN rs : k # i => \E j \in DOMAIN after : Place(i, j) = k
      /\ \A j, k \in DOMAIN after : j < k => Place(i, j) < Place(i, k)
  <2>1. /\ after \in Seq(S)
        /\ \A j \in DOMAIN after : /\ Place(i, j) \in DOMAIN rs /\ Place(i, j) # i
                                   /\ after[j] = mid[Place(i, j)]
        /\ \A k \in DOMAIN rs : k # i => \E j \in DOMAIN after : Place(i, j) = k
    <3>1. i \in DOMAIN mid /\ mid \in Seq(S)
      BY <1>4
    <3>2. /\ after \in Seq(S)
          /\ \A j \in DOMAIN after : /\ Place(i, j) \in DOMAIN mid /\ Place(i, j) # i
                                     /\ after[j] = mid[Place(i, j)]
          /\ \A k \in DOMAIN mid : k # i => \E j \in DOMAIN after : Place(i, j) = k
      BY <3>1, RemovedPlaces
    <3> HIDE DEF after
    <3> QED
      BY <1>4, <3>2
  <2>2. DOMAIN after = 1 .. Len(rs) - 1
    BY <1>4, Removed
  <2>3. \A j, k \in DOMAIN after : j < k => Place(i, j) < Place(i, k)
    BY <1>1, <2>2 DEF Place
  <2> QED
    BY <2>1, <2>3
<1> HIDE DEF after
<1>6. \A j \in DOMAIN after : /\ after[j].live = rs[Place(i, j)].live
                              /\ after[j].for = rs[Place(i, j)].for
                              /\ after[j].stage = rs[Place(i, j)].stage
                              /\ Ongoing(after[j]) <=> Ongoing(rs[Place(i, j)])
  BY <1>3, <1>5 DEF Ongoing
<1>7. DeadFirst(after)
  <2> SUFFICES ASSUME NEW j \in DOMAIN after, NEW k \in DOMAIN after, j < k, after[j].live = TRUE
               PROVE  after[k].live = TRUE
    BY DEF DeadFirst
  <2>1. Place(i, j) < Place(i, k) /\ rs[Place(i, j)].live = TRUE
    BY <1>5, <1>6
  <2>2. rs[Place(i, k)].live = TRUE
    BY <1>5, <2>1 DEF DeadFirst
  <2> QED
    BY <1>6, <2>2
<1>8. ASSUME rs[i].live = FALSE, SomeOngoing(rs) PROVE SomeOngoing(after)
  <2>1. PICK k \in DOMAIN rs : Ongoing(rs[k])
    BY <1>8 DEF SomeOngoing
  <2>2. k # i
    BY <1>8, <2>1 DEF Ongoing
  <2>3. PICK j \in DOMAIN after : Place(i, j) = k
    BY <1>5, <2>2
  <2> QED
    BY <1>6, <2>1, <2>3 DEF SomeOngoing
<1>9. ASSUME AllOvertaken(rs)
      PROVE  AllOvertaken(after) /\ (rs[i].live = TRUE => rs[i].overtaken = TRUE)
  <2>1. AllOvertaken(after)
    <3> SUFFICES ASSUME NEW j \in DOMAIN after, Ongoing(after[j]) PROVE after[j].overtaken = TRUE
      BY DEF AllOvertaken
    <3>1. rs[Place(i, j)].overtaken = TRUE /\ Place(i, j) \in DOMAIN rs
      BY <1>5, <1>6, <1>9 DEF AllOvertaken
    <3>2. mid[Place(i, j)].overtaken = TRUE
      BY <1>3, <3>1
    <3> QED
      BY <1>5, <3>2
  <2> QED
    BY <1>9, <2>1 DEF AllOvertaken, Ongoing
<1>10. ASSUME NEW m, Coming(rs, m)
       PROVE  \/ Coming(after, m)
              \/ AllOvertaken(after) /\ rs[i].live = TRUE /\ rs[i].for = m
  <2>1. PICK k \in DOMAIN rs : Newest(rs, m, k)
    BY <1>10 DEF Coming
  <2>2. i = k \/ i < k
    BY <1>1, <2>1 DEF Newest
  <2>3. CASE i < k
    <3>1. PICK j \in DOMAIN after : Place(i, j) = k
      BY <1>1, <1>5, <2>3
    <3>2. mid[k] = rs[k]
      BY <1>1, <1>3, <2>3
    <3>3. after[j] = rs[k]
      BY <1>5, <3>1, <3>2
    <3>4. \A l \in DOMAIN after : l > j => after[l].stage = "acting"
      <4> SUFFICES ASSUME NEW l \in DOMAIN after, l > j PROVE after[l].stage = "acting"
        OBVIOUS
      <4>1. j < l
        <5>1. DOMAIN after \subseteq Nat
          BY <1>5, LenProperties
        <5> QED
          BY <5>1
      <4>2. Place(i, l) > k /\ Place(i, l) \in DOMAIN rs
        <5>1. Place(i, j) < Place(i, l) /\ Place(i, l) \in DOMAIN rs
          BY <1>5, <4>1
        <5> QED
          BY <1>1, <3>1, <5>1
      <4> QED
        BY <1>6, <2>1, <4>2 DEF Newest
    <3>5. Newest(after, m, j)
      BY <2>1, <3>3, <3>4 DEF Newest
    <3> QED
      BY <3>5 DEF Coming
  <2>4. CASE i = k
    <3>1. AllOvertaken(after)
      <4> SUFFICES ASSUME NEW j \in DOMAIN after, Ongoing(after[j]) PROVE after[j].overtaken = TRUE
        BY DEF AllOvertaken
      <4>1. Place(i, j) \in DOMAIN rs /\ Place(i, j) # i /\ Ongoing(rs[Place(i, j)])
        BY <1>5, <1>6
      <4>2. ~(Place(i, j) > i)
        BY <2>1, <2>4, <4>1 DEF Newest, Ongoing
      <4>3. Place(i, j) < i
        BY <1>1, <4>1, <4>2
      <4>4. mid[Place(i, j)].overtaken = TRUE
        BY <1>3, <4>1, <4>3 DEF Ongoing
      <4> QED
        BY <1>5, <4>4
    <3> QED
      BY <2>1, <2>4, <3>1 DEF Newest, Ongoing
  <2> QED
    BY <2>2, <2>3, <2>4
<1>11. \A j \in DOMAIN after : \E k \in DOMAIN rs : after[j].live = rs[k].live
  BY <1>5, <1>6
<1> QED
  BY <1>5, <1>7, <1>8, <1>9, <1>10, <1>11 DEF after, mid

-----------------------------------------------------------------------------
(* The message: what is shown                                              *)

MessageTypes ==
  /\ messageId \in Receivers /\ kept \subseteq Messages /\ rows \subseteq Messages
  /\ rawCache \in [Receivers -> Receivers] /\ runs \in Seq(MessageRuns)
  /\ DeadFirst(runs)
LiveMounted == \A i \in DOMAIN runs : runs[i].live = TRUE => messageId # None
NotStrayed == ~strayed => runs \in Seq(Straight) /\ Message!CachedRawIsOwn

\* What is parsed last is what is shown, until it is shown with its images.
RawShown == bodyHtml.of = rawHtml
BodyShown ==
  messageId # None /\ ~strayed =>
    \/ Coming(runs, messageId)
    \/ /\ AllOvertaken(runs)
       /\ ~late => /\ bodyState = "html" => bodyHtml.of = messageId
                   /\ bodyState = "text" => bodyText = messageId
ImagesShown ==
  messageId # None /\ bodyState = "html" /\ bodyHtml.remote /\ bodyHtml.of # asked =>
    SomeOngoing(runs)
LoadingShown == messageId # None /\ bodyState = "loading" => SomeOngoing(runs) \/ stranded
\* A view begins with its skeleton.
Unopened == messageId = None => bodyState = "loading"
MessageInv ==
  /\ MessageTypes /\ LiveMounted /\ NotStrayed /\ RawShown /\ BodyShown /\ ImagesShown
  /\ LoadingShown /\ Unopened

LEMMA MessageRunTyped ==
  ASSUME NEW r \in MessageRuns
  PROVE  /\ r.stage \in Stages /\ r.for \in Messages /\ r.used \in Receivers
         /\ r.raw \in Receivers /\ r.live \in BOOLEAN /\ r.overtaken \in BOOLEAN
         /\ r.live = TRUE => r.used # None
         /\ [r EXCEPT !.overtaken = TRUE] \in MessageRuns
         /\ [r EXCEPT !.live = FALSE, !.overtaken = FALSE] \in MessageRuns
         /\ r \in Straight => /\ [r EXCEPT !.overtaken = TRUE] \in Straight
                              /\ [r EXCEPT !.live = FALSE, !.overtaken = FALSE] \in Straight
BY DEF MessageRuns, Straight

LEMMA NoReceiver == None \notin Messages
BY ScreensAssumption DEF ScreensAssumption

LEMMA MessageStarts == Message!Init => MessageInv
<1> SUFFICES ASSUME Message!Init PROVE MessageInv
  OBVIOUS
<1>1. /\ messageId = None /\ kept = Messages /\ rows = Messages
      /\ rawCache = [k \in Messages \cup {None} |-> None] /\ runs = <<>>
      /\ bodyHtml.of = rawHtml
  BY DEF Message!Init, Message!NoHtml
<1>2. runs \in Seq(MessageRuns) /\ runs \in Seq(Straight) /\ DOMAIN runs = {}
  BY <1>1, EmptySeq
<1>3. MessageTypes /\ LiveMounted
  BY <1>1, <1>2 DEF MessageTypes, LiveMounted, DeadFirst, Receivers
<1>4. NotStrayed
  BY <1>1, <1>2 DEF NotStrayed, Message!CachedRawIsOwn
<1> QED
  BY <1>1, <1>3, <1>4
     DEF MessageInv, RawShown, BodyShown, ImagesShown, LoadingShown, Unopened, Message!Init

\* A run goes on to its next await.
LEMMA MessageGoes ==
  ASSUME MessageInv, NEW i \in DOMAIN runs, NEW stage \in Stages, stage # "acting",
         NEW raw \in Receivers, runs[i].stage # "acting", Message!Goes(i, stage, raw),
         UNCHANGED <<messageId, kept, rows, bodyHtml, rawHtml, bodyText, late, asked, stranded>>,
         rawCache' \in [Receivers -> Receivers], ~strayed => Message!CachedRawIsOwn',
         ~strayed => /\ stage = "put" => raw = runs[i].for
                     /\ stage = "parse" /\ runs[i].live = TRUE => raw = runs[i].for,
         bodyState' = bodyState \/ (bodyState' = "loading" /\ runs[i].live = TRUE)
  PROVE  MessageInv'
<1> DEFINE used == IF stage \in {"row", "match", "fetch", "put"} THEN messageId ELSE runs[i].for
           new == [runs[i] EXCEPT !.stage = stage, !.used = used, !.raw = raw]
<1>1. /\ runs \in Seq(MessageRuns) /\ messageId \in Receivers /\ DeadFirst(runs)
      /\ LiveMounted /\ NotStrayed
  BY DEF MessageInv, MessageTypes
<1>2. /\ runs' = [runs EXCEPT ![i] = new]
      /\ strayed' <=> strayed \/ used \notin {runs[i].for, None}
  BY DEF Message!Goes
<1>3. runs[i] \in MessageRuns
  BY <1>1, ElementOf
<1>4. used \in Receivers /\ (runs[i].live = TRUE => used # None)
  BY <1>1, <1>3, MessageRunTyped, NoReceiver DEF LiveMounted, Receivers
<1> HIDE DEF used
<1>6. /\ new \in MessageRuns /\ new.live = runs[i].live /\ new.for = runs[i].for
      /\ new.overtaken = runs[i].overtaken /\ new.stage = stage /\ new.used = used
      /\ new.raw = raw
  BY <1>3, <1>4 DEF MessageRuns
<1> HIDE DEF new
<1>7. /\ runs' \in Seq(MessageRuns) /\ DeadFirst(runs')
      /\ SomeOngoing(runs) => SomeOngoing(runs')
      /\ AllOvertaken(runs) => AllOvertaken(runs')
      /\ \A m : Coming(runs, m) => Coming(runs', m)
      /\ runs[i].live = TRUE => SomeOngoing(runs')
  BY <1>1, <1>2, <1>6, RunGoes
<1>8. /\ DOMAIN runs' = DOMAIN runs /\ \A j \in DOMAIN runs : runs'[j].live = runs[j].live
  <2>1. DOMAIN runs' = DOMAIN runs /\ runs'[i] = new /\ \A j \in DOMAIN runs : j # i => runs'[j] = runs[j]
    BY <1>1, <1>2, <1>6, ExceptSeq, LenProperties
  <2> QED
    BY <1>6, <2>1
<1>9. MessageTypes' /\ LiveMounted'
  BY <1>1, <1>7, <1>8 DEF MessageInv, MessageTypes, LiveMounted
<1>10. NotStrayed'
  <2> SUFFICES ASSUME ~strayed' PROVE runs' \in Seq(Straight) /\ Message!CachedRawIsOwn'
    BY DEF NotStrayed
  <2>1. ~strayed /\ used \in {runs[i].for, None}
    BY <1>2
  <2>3. runs \in Seq(Straight)
    BY <1>1, <2>1 DEF NotStrayed
  <2>4. new \in Straight
    BY <1>6, <2>1 DEF Straight
  <2> QED
    BY <1>2, <2>1, <2>3, <2>4, ExceptSeq
<1>11. RawShown' /\ BodyShown' /\ ImagesShown' /\ LoadingShown' /\ Unopened'
  <2>1. RawShown' 
    BY DEF MessageInv, RawShown
  <2>2. BodyShown'
    BY <1>2, <1>7 DEF MessageInv, BodyShown
  <2>3. ImagesShown' /\ LoadingShown' /\ Unopened'
    BY <1>7 DEF MessageInv, ImagesShown, LoadingShown, Unopened
  <2> QED
    BY <2>1, <2>2, <2>3
<1> QED
  BY <1>9, <1>10, <1>11 DEF MessageInv

\* A run ends, and shows what it has if its view is still there.
LEMMA MessageEnds ==
  ASSUME MessageInv, NEW i \in DOMAIN runs, runs[i].stage # "acting", Message!Ends(i),
         UNCHANGED <<messageId, kept, rows, rawCache, asked, strayed, stranded>>,
         runs[i].live = FALSE => UNCHANGED <<bodyState, bodyHtml, rawHtml, bodyText>>,
         runs[i].live = TRUE =>
           /\ bodyState' # "loading" /\ bodyHtml'.of = rawHtml'
           /\ bodyState' = "html" =>
                ~bodyHtml'.remote /\ (~strayed => bodyHtml'.of = runs[i].for)
           /\ bodyState' = "text" => (~strayed => bodyText' = runs[i].for)
  PROVE  MessageInv'
<1>1. /\ MessageTypes /\ LiveMounted /\ NotStrayed /\ RawShown /\ BodyShown /\ ImagesShown
      /\ LoadingShown /\ Unopened
      /\ runs \in Seq(MessageRuns) /\ DeadFirst(runs)
  BY DEF MessageInv, MessageTypes
<1>2. /\ runs' = Without(Outrun(runs, i), i)
      /\ late' = IF runs[i].live THEN runs[i].overtaken ELSE late
  BY DEF Message!Ends, Message!Without, Without, Outrun
<1>3. runs[i].live \in BOOLEAN
  BY <1>1, ElementOf, MessageRunTyped
<1>4. /\ runs' \in Seq(MessageRuns) /\ DeadFirst(runs')
      /\ runs[i].live = FALSE /\ SomeOngoing(runs) => SomeOngoing(runs')
      /\ AllOvertaken(runs) =>
           AllOvertaken(runs') /\ (runs[i].live = TRUE => runs[i].overtaken = TRUE)
      /\ \A m : Coming(runs, m) =>
           \/ Coming(runs', m)
           \/ AllOvertaken(runs') /\ runs[i].live = TRUE /\ runs[i].for = m
      /\ \A j \in DOMAIN runs' : \E k \in DOMAIN runs : runs'[j].live = runs[k].live
  <2>1. MessageRuns \in SUBSET MessageRuns /\ \A r \in MessageRuns : [r EXCEPT !.overtaken = TRUE] \in MessageRuns
    BY MessageRunTyped
  <2>2. runs \in Seq(MessageRuns) /\ DeadFirst(runs)
    BY <1>1
  <2> DEFINE after == Without(Outrun(runs, i), i)
  <2>3. /\ after \in Seq(MessageRuns) /\ DeadFirst(after)
        /\ runs[i].live = FALSE /\ SomeOngoing(runs) => SomeOngoing(after)
        /\ AllOvertaken(runs) =>
             AllOvertaken(after) /\ (runs[i].live = TRUE => runs[i].overtaken = TRUE)
        /\ \A m : Coming(runs, m) =>
             \/ Coming(after, m)
             \/ AllOvertaken(after) /\ runs[i].live = TRUE /\ runs[i].for = m
        /\ \A j \in DOMAIN after : \E k \in DOMAIN runs : after[j].live = runs[k].live
    BY <2>1, <2>2, RunEnds
  <2>4. runs' = after
    BY <1>2
  <2> HIDE DEF after
  <2> QED
    BY <2>3, <2>4
<1>5. MessageTypes' /\ LiveMounted'
  BY <1>1, <1>4 DEF MessageTypes, LiveMounted
<1>6. NotStrayed'
  <2> SUFFICES ASSUME ~strayed PROVE runs' \in Seq(Straight) /\ Message!CachedRawIsOwn'
    BY DEF NotStrayed
  <2>1. Straight \in SUBSET MessageRuns /\ \A r \in Straight : [r EXCEPT !.overtaken = TRUE] \in Straight
    <3>1. Straight \subseteq MessageRuns
      BY DEF Straight
    <3> QED
      BY <3>1, MessageRunTyped
  <2>2. runs \in Seq(Straight) /\ Message!CachedRawIsOwn
    BY <1>1 DEF NotStrayed
  <2>3. runs' \in Seq(Straight)
    BY <1>1, <1>2, <2>1, <2>2, RunEnds
  <2> QED
    BY <2>2, <2>3 DEF Message!CachedRawIsOwn
<1>7. CASE runs[i].live = FALSE
  <2>1. UNCHANGED <<messageId, bodyState, bodyHtml, rawHtml, bodyText, late, asked, strayed>>
    BY <1>2, <1>7
  <2>2. RawShown' /\ ImagesShown' /\ LoadingShown' /\ Unopened'
    BY <1>1, <1>4, <1>7, <2>1 DEF RawShown, ImagesShown, LoadingShown, Unopened
  <2>3. BodyShown'
    BY <1>1, <1>4, <1>7, <2>1 DEF BodyShown
  <2> QED
    BY <1>5, <1>6, <2>2, <2>3 DEF MessageInv
<1>8. CASE runs[i].live = TRUE
  <2>1. RawShown' /\ ImagesShown' /\ LoadingShown' /\ Unopened'
    BY <1>1, <1>8 DEF RawShown, ImagesShown, LoadingShown, Unopened, LiveMounted
  <2>2. BodyShown'
    <3> SUFFICES ASSUME messageId # None, ~strayed
                 PROVE  \/ Coming(runs', messageId)
                        \/ /\ AllOvertaken(runs')
                           /\ ~late' => /\ bodyState' = "html" => bodyHtml'.of = messageId
                                        /\ bodyState' = "text" => bodyText' = messageId
      BY DEF BodyShown
    <3>1. CASE AllOvertaken(runs)
      BY <1>2, <1>4, <1>8, <3>1
    <3>2. CASE Coming(runs, messageId)
      BY <1>4, <1>8, <3>2
    <3> QED
      BY <1>1, <3>1, <3>2 DEF BodyShown
  <2> QED
    BY <1>5, <1>6, <2>1, <2>2 DEF MessageInv
<1> QED
  BY <1>3, <1>7, <1>8

\* A load of message m begins, after rs.
LEMMA MessageBegins ==
  ASSUME MessageInv, NEW rs \in Seq(MessageRuns), DeadFirst(rs), ~strayed => rs \in Seq(Straight),
         NEW stage \in Stages \ {"acting", "put", "parse"}, NEW m \in Messages,
         runs' = Append(rs, Message!Run(stage, m)), messageId' = m,
         UNCHANGED <<kept, rows, rawCache, bodyHtml, rawHtml, strayed>>
  PROVE  MessageInv'
<1> DEFINE new == Message!Run(stage, m)
<1>1. /\ new \in MessageRuns /\ new \in Straight /\ new.live = TRUE /\ new.overtaken = FALSE
      /\ new.stage # "acting" /\ new.for = m
  BY NoReceiver DEF Message!Run, MessageRuns, Straight, Receivers
<1>2. runs' = Append(rs, new)
  OBVIOUS
<1> HIDE DEF new
<1>3. /\ runs' \in Seq(MessageRuns) /\ DeadFirst(runs')
      /\ SomeOngoing(runs') /\ Coming(runs', m)
  BY <1>1, <1>2, RunBegins
<1>4. messageId' \in Receivers /\ messageId' # None
  BY NoReceiver DEF Receivers
<1>5. MessageTypes' /\ LiveMounted'
  BY <1>3, <1>4 DEF MessageInv, MessageTypes, LiveMounted
<1>6. NotStrayed'
  <2>1. ~strayed => runs' \in Seq(Straight)
    BY <1>1, <1>2, Appended
  <2> QED
    BY <2>1 DEF MessageInv, NotStrayed, Message!CachedRawIsOwn
<1> QED
  BY <1>3, <1>4, <1>5, <1>6
     DEF MessageInv, RawShown, BodyShown, ImagesShown, LoadingShown, Unopened

\* The view goes.
LEMMA MessageLeft ==
  ASSUME MessageInv, NEW rs \in Seq(MessageRuns), ~strayed => rs \in Seq(Straight),
         Message!Left(rs), UNCHANGED <<kept, rows, rawCache, strayed>>
  PROVE  MessageInv'
<1>1. /\ messageId' = None /\ bodyHtml'.of = rawHtml' /\ bodyState' = "loading"
      /\ runs' = [j \in DOMAIN rs |-> [rs[j] EXCEPT !.live = FALSE, !.overtaken = FALSE]]
  BY DEF Message!Left, Message!NoHtml
<1>2. DOMAIN rs = 1 .. Len(rs) /\ Len(rs) \in Nat
  BY LenProperties
<1>3. /\ \A j \in DOMAIN rs : runs'[j] \in MessageRuns /\ runs'[j].live = FALSE
      /\ ~strayed => \A j \in DOMAIN rs : runs'[j] \in Straight
  <2> SUFFICES ASSUME NEW j \in DOMAIN rs
               PROVE  /\ runs'[j] \in MessageRuns /\ runs'[j].live = FALSE
                      /\ ~strayed => runs'[j] \in Straight
    OBVIOUS
  <2>1. rs[j] \in MessageRuns /\ (~strayed => rs[j] \in Straight)
    BY ElementOf
  <2> DEFINE new == [rs[j] EXCEPT !.live = FALSE, !.overtaken = FALSE]
  <2>2. new \in MessageRuns /\ (~strayed => new \in Straight) /\ runs'[j] = new
    BY <1>1, <2>1, MessageRunTyped
  <2>3. new.live = FALSE
    BY <2>1 DEF MessageRuns
  <2> HIDE DEF new
  <2> QED
    BY <2>2, <2>3
<1>4. /\ runs' \in Seq(MessageRuns) /\ DOMAIN runs' = DOMAIN rs
      /\ ~strayed => runs' \in Seq(Straight)
  <2>1. runs' = [j \in 1 .. Len(rs) |-> runs'[j]]
    BY <1>1, <1>2
  <2>2. runs' \in [1 .. Len(rs) -> MessageRuns]
    BY <1>2, <1>3, <2>1
  <2>3. ~strayed => runs' \in [1 .. Len(rs) -> Straight]
    BY <1>2, <1>3, <2>1
  <2> QED
    BY <1>2, <2>2, <2>3, ListOf
<1>5. MessageTypes' /\ LiveMounted'
  BY <1>1, <1>3, <1>4 DEF MessageInv, MessageTypes, LiveMounted, DeadFirst, Receivers
<1>6. NotStrayed'
  BY <1>4 DEF MessageInv, NotStrayed, Message!CachedRawIsOwn
<1> QED
  BY <1>1, <1>5, <1>6
     DEF MessageInv, RawShown, BodyShown, ImagesShown, LoadingShown, Unopened

LEMMA MessageGoesOn ==
  ASSUME MessageInv,
         \/ Message!FoldersReady \/ Message!LoadSiblings \/ Message!GetCachedRaw
         \/ Message!FetchRawEmail \/ Message!PutCachedRaw
  PROVE  MessageInv'
<1>1. /\ runs \in Seq(MessageRuns) /\ rawCache \in [Receivers -> Receivers] /\ NotStrayed
      /\ kept \subseteq Messages
  BY DEF MessageInv, MessageTypes
<1>2. \A i \in DOMAIN runs :
        /\ runs[i] \in MessageRuns /\ runs[i].used \in Receivers /\ runs[i].raw \in Receivers
        /\ ~strayed => runs[i] \in Straight
  <2> SUFFICES ASSUME NEW i \in DOMAIN runs
               PROVE  /\ runs[i] \in MessageRuns /\ runs[i].used \in Receivers
                      /\ runs[i].raw \in Receivers
                      /\ ~strayed => runs[i] \in Straight
    OBVIOUS
  <2>1. runs[i] \in MessageRuns
    BY <1>1, ElementOf
  <2>2. ~strayed => runs[i] \in Straight
    BY <1>1, ElementOf DEF NotStrayed
  <2> QED
    BY <2>1, <2>2, MessageRunTyped
<1>3. /\ UNCHANGED <<messageId, kept, rows, bodyHtml, rawHtml, bodyText, asked, stranded>>
      /\ Message!FoldersReady \/ UNCHANGED late
  BY DEF Message!FoldersReady, Message!LoadSiblings, Message!GetCachedRaw,
     Message!FetchRawEmail, Message!PutCachedRaw, Message!storage, Message!body
<1>4. ~strayed => Message!CachedRawIsOwn
  BY <1>1 DEF NotStrayed
<1>5. CASE Message!FoldersReady
  <2>1. PICK i \in DOMAIN runs :
          /\ runs[i].stage = "folders"
          /\ \/ Message!Goes(i, "row", None) /\ UNCHANGED late
             \/ ~runs[i].live /\ Message!Ends(i) /\ UNCHANGED strayed
    BY <1>5 DEF Message!FoldersReady
  <2>2. UNCHANGED <<rawCache, bodyState>>
    BY <1>5 DEF Message!FoldersReady, Message!storage, Message!body
  <2>3. None \in Receivers /\ "row" \in Stages
    BY DEF Receivers, Stages
  <2>4. CASE Message!Goes(i, "row", None) /\ UNCHANGED late
    BY <1>1, <1>3, <1>4, <2>1, <2>2, <2>3, <2>4, MessageGoes DEF Message!CachedRawIsOwn
  <2>5. CASE ~runs[i].live /\ Message!Ends(i) /\ UNCHANGED strayed
    <3>1. runs[i].live = FALSE
      BY <1>2, <2>5, MessageRunTyped
    <3> QED
      BY <1>3, <2>1, <2>2, <2>5, <3>1, MessageEnds
  <2> QED
    BY <2>1, <2>4, <2>5
<1>6. CASE Message!LoadSiblings
  <2>1. PICK i \in DOMAIN runs :
          /\ runs[i].stage = "siblings" /\ Message!Goes(i, "match", None)
          /\ bodyState' = IF runs[i].live THEN "loading" ELSE bodyState
    BY <1>6 DEF Message!LoadSiblings
  <2>2. UNCHANGED <<rawCache, late>>
    BY <1>6 DEF Message!LoadSiblings, Message!storage
  <2>3. None \in Receivers /\ "match" \in Stages
    BY DEF Receivers, Stages
  <2>4. bodyState' = bodyState \/ (bodyState' = "loading" /\ runs[i].live = TRUE)
    BY <1>2, <2>1, MessageRunTyped
  <2> QED
    BY <1>1, <1>3, <1>4, <2>1, <2>2, <2>3, <2>4, MessageGoes DEF Message!CachedRawIsOwn
<1>7. CASE Message!GetCachedRaw
  <2>1. PICK i \in DOMAIN runs :
          /\ runs[i].stage = "match"
          /\ IF rawCache[runs[i].used] # None THEN Message!Goes(i, "parse", rawCache[runs[i].used])
             ELSE Message!Goes(i, "fetch", None)
    BY <1>7 DEF Message!GetCachedRaw
  <2>2. UNCHANGED <<rawCache, bodyState, late>>
    BY <1>7 DEF Message!GetCachedRaw, Message!storage, Message!body
  <2>3. None \in Receivers /\ "parse" \in Stages /\ "fetch" \in Stages
    BY DEF Receivers, Stages
  <2>4. CASE rawCache[runs[i].used] = None
    BY <1>1, <1>3, <1>4, <2>1, <2>2, <2>3, <2>4, MessageGoes DEF Message!CachedRawIsOwn
  <2>5. CASE rawCache[runs[i].used] # None
    <3>1. rawCache[runs[i].used] \in Receivers
      BY <1>1, <1>2
    <3>2. ~strayed /\ runs[i].live = TRUE => rawCache[runs[i].used] = runs[i].for
      <4> SUFFICES ASSUME ~strayed, runs[i].live = TRUE PROVE rawCache[runs[i].used] = runs[i].for
        OBVIOUS
      <4>1. runs[i].used = runs[i].for /\ runs[i].for \in Messages
        BY <1>2, MessageRunTyped DEF Straight
      <4> QED
        BY <1>4, <2>5, <4>1 DEF Message!CachedRawIsOwn
    <3>3. PICK raw \in Receivers : raw = rawCache[runs[i].used]
      BY <3>1
    <3>4. Message!Goes(i, "parse", raw)
      BY <2>1, <2>5, <3>3
    <3> QED
      BY <1>1, <1>3, <1>4, <2>1, <2>2, <2>3, <3>2, <3>3, <3>4, MessageGoes
         DEF Message!CachedRawIsOwn
  <2> QED
    BY <2>4, <2>5
<1>8. CASE Message!FetchRawEmail
  <2>1. PICK i \in DOMAIN runs :
          /\ runs[i].stage = "fetch" /\ runs[i].used \in kept
          /\ Message!Goes(i, "put", runs[i].used)
    BY <1>8 DEF Message!FetchRawEmail
  <2>2. UNCHANGED <<rawCache, bodyState, late>>
    BY <1>8 DEF Message!FetchRawEmail, Message!storage, Message!body
  <2>3. PICK raw \in Receivers : raw = runs[i].used
    BY <1>2
  <2>4. "put" \in Stages /\ Message!Goes(i, "put", raw)
    BY <2>1, <2>3 DEF Stages
  <2>5. ~strayed => raw = runs[i].for
    BY <1>1, <1>2, <2>1, <2>3, NoReceiver DEF Straight
  <2> QED
    BY <1>1, <1>3, <1>4, <2>1, <2>2, <2>4, <2>5, MessageGoes DEF Message!CachedRawIsOwn
<1>9. CASE Message!PutCachedRaw
  <2>1. PICK i \in DOMAIN runs :
          /\ runs[i].stage = "put"
          /\ rawCache' \in {rawCache, [rawCache EXCEPT ![runs[i].used] = runs[i].raw]}
          /\ Message!Goes(i, "parse", runs[i].raw)
    BY <1>9 DEF Message!PutCachedRaw
  <2>2. UNCHANGED <<bodyState, late>>
    BY <1>9 DEF Message!PutCachedRaw, Message!body
  <2>3. PICK raw \in Receivers : raw = runs[i].raw
    BY <1>2
  <2>4. "parse" \in Stages /\ Message!Goes(i, "parse", raw)
    BY <2>1, <2>3 DEF Stages
  <2>5. ~strayed => raw = runs[i].for /\ runs[i].used \in {runs[i].for, None}
    BY <1>2, <2>1, <2>3 DEF Straight
  <2>6. rawCache' \in [Receivers -> Receivers]
    BY <1>1, <1>2, <2>1
  <2>7. ~strayed => Message!CachedRawIsOwn'
    BY <1>1, <1>4, <2>1, <2>3, <2>5, NoReceiver DEF Message!CachedRawIsOwn, Receivers
  <2> QED
    BY <1>3, <2>1, <2>2, <2>4, <2>5, <2>6, <2>7, MessageGoes
<1> QED
  BY <1>5, <1>6, <1>7, <1>8, <1>9

LEMMA MessageRow == MessageInv /\ Message!RowArrives => MessageInv'
<1> SUFFICES ASSUME MessageInv, Message!RowArrives PROVE MessageInv'
  OBVIOUS
<1>1. PICK i \in DOMAIN runs :
       /\ runs[i].stage = "row"
       /\ IF runs[i].used \notin rows
          THEN Message!Fails(i, "error") /\ UNCHANGED <<message, strayed>>
          ELSE /\ message' = IF runs[i].live THEN runs[i].used ELSE message
               /\ Message!Goes(i, "siblings", None)
               /\ UNCHANGED <<bodyState, bodyHtml, rawHtml, bodyText, remoteImagesBlocked,
                              imagesAllowed, late>>
  BY DEF Message!RowArrives, Message!body
<1>2. UNCHANGED <<messageId, kept, rows, rawCache, asked, stranded>>
  BY DEF Message!RowArrives, Message!storage
<1>3. runs \in Seq(MessageRuns) /\ rawCache \in [Receivers -> Receivers] /\ NotStrayed /\ RawShown
  BY DEF MessageInv, MessageTypes
<1>4. runs[i].live \in BOOLEAN
  BY <1>3, ElementOf, MessageRunTyped
<1>5. CASE runs[i].used \notin rows
  <2>1. /\ Message!Ends(i) /\ UNCHANGED <<strayed, bodyHtml, rawHtml, bodyText>>
        /\ bodyState' = IF runs[i].live THEN "error" ELSE bodyState
    BY <1>1, <1>5 DEF Message!Fails
  <2>2. runs[i].live = TRUE => bodyState' = "error" /\ bodyHtml'.of = rawHtml'
    BY <1>3, <2>1 DEF RawShown
  <2>3. runs[i].live = FALSE => bodyState' = bodyState
    BY <2>1
  <2> QED
    BY <1>1, <1>2, <2>1, <2>2, <2>3, MessageEnds
<1>6. CASE ~(runs[i].used \notin rows)
  <2>1. Message!Goes(i, "siblings", None) /\ UNCHANGED <<bodyState, bodyHtml, rawHtml, bodyText, late>>
    BY <1>1, <1>6
  <2>2. None \in Receivers /\ "siblings" \in Stages
    BY DEF Receivers, Stages
  <2>3. ~strayed => Message!CachedRawIsOwn'
    BY <1>2, <1>3 DEF NotStrayed, Message!CachedRawIsOwn
  <2> QED
    BY <1>1, <1>2, <1>3, <2>1, <2>2, <2>3, MessageGoes
<1> QED
  BY <1>5, <1>6

LEMMA MessageEndsAll ==
  ASSUME MessageInv, Message!FetchFails \/ Message!Parsed \/ Message!ParseFails
  PROVE  MessageInv'
<1>1. UNCHANGED <<messageId, kept, rows, rawCache, asked, strayed, stranded>>
  BY DEF Message!FetchFails, Message!Parsed, Message!ParseFails, Message!storage
<1>2. runs \in Seq(MessageRuns) /\ NotStrayed /\ RawShown
  BY DEF MessageInv, MessageTypes
<1>3. CASE Message!FetchFails \/ Message!ParseFails
  <2>1. PICK i \in DOMAIN runs, state \in {"error", "parse-error"} :
          runs[i].stage \in {"fetch", "parse"} /\ Message!Fails(i, state)
    BY <1>3 DEF Message!FetchFails, Message!ParseFails
  <2>2. /\ Message!Ends(i) /\ UNCHANGED <<bodyHtml, rawHtml, bodyText>>
        /\ bodyState' = IF runs[i].live THEN state ELSE bodyState
    BY <2>1 DEF Message!Fails
  <2>3. runs[i].live = TRUE => bodyState' = state /\ bodyHtml'.of = rawHtml'
    BY <1>2, <2>2 DEF RawShown
  <2>4. runs[i].live = FALSE => bodyState' = bodyState
    BY <2>2
  <2> QED
    BY <1>1, <2>1, <2>2, <2>3, <2>4, MessageEnds
<1>4. CASE Message!Parsed
  <2>1. PICK i \in DOMAIN runs :
       /\ runs[i].stage = "parse"
       /\ Message!Ends(i)
       /\ IF ~runs[i].live
          THEN UNCHANGED <<bodyState, bodyHtml, rawHtml, bodyText, remoteImagesBlocked, imagesAllowed>>
          ELSE /\ bodyState' = IF runs[i].raw \in Html THEN "html"
                               ELSE IF runs[i].raw \in Text THEN "text" ELSE "empty"
               /\ rawHtml' = IF runs[i].raw \in Html THEN runs[i].raw ELSE rawHtml
               /\ bodyHtml' = IF runs[i].raw \in Html
                              THEN [of |-> runs[i].raw, remote |-> FALSE] ELSE bodyHtml
               /\ bodyText' = IF runs[i].raw \in Text THEN runs[i].raw ELSE bodyText
    BY <1>4 DEF Message!Parsed, Message!body, Message!Blocked
  <2>2. /\ runs[i].live \in BOOLEAN
        /\ ~strayed /\ runs[i].live = TRUE => runs[i].raw = runs[i].for
    <3>1. runs[i].live \in BOOLEAN
      BY <1>2, ElementOf, MessageRunTyped
    <3>2. ~strayed => runs[i] \in Straight
      BY <1>2, ElementOf DEF NotStrayed
    <3> QED
      BY <2>1, <3>1, <3>2 DEF Straight
  <2>3. runs[i].live = FALSE => UNCHANGED <<bodyState, bodyHtml, rawHtml, bodyText>>
    BY <2>1
  <2>4. runs[i].live = TRUE =>
           /\ bodyState' # "loading" /\ bodyHtml'.of = rawHtml'
           /\ bodyState' = "html" =>
                ~bodyHtml'.remote /\ (~strayed => bodyHtml'.of = runs[i].for)
           /\ bodyState' = "text" => (~strayed => bodyText' = runs[i].for)
    <3> SUFFICES ASSUME runs[i].live = TRUE
                 PROVE  /\ bodyState' # "loading" /\ bodyHtml'.of = rawHtml'
                        /\ bodyState' = "html" =>
                             ~bodyHtml'.remote /\ (~strayed => bodyHtml'.of = runs[i].for)
                        /\ bodyState' = "text" => (~strayed => bodyText' = runs[i].for)
      OBVIOUS
    <3>1. CASE runs[i].raw \in Html
      BY <2>1, <2>2, <3>1
    <3>2. CASE runs[i].raw \notin Html
      BY <1>2, <2>1, <2>2, <3>2 DEF RawShown
    <3> QED
      BY <3>1, <3>2
  <2> QED
    BY <1>1, <2>1, <2>3, <2>4, MessageEnds
<1> QED
  BY <1>3, <1>4

LEMMA MessageOpens ==
  ASSUME MessageInv, Message!OpenMessage \/ Message!GoSibling \/ Message!Retry
  PROVE  MessageInv'
<1>1. /\ runs \in Seq(MessageRuns) /\ DeadFirst(runs) /\ (~strayed => runs \in Seq(Straight))
      /\ messageId \in Receivers
  BY DEF MessageInv, MessageTypes, NotStrayed
<1>2. UNCHANGED <<kept, rows, rawCache, bodyHtml, rawHtml, strayed>>
  BY DEF Message!OpenMessage, Message!GoSibling, Message!Retry, Message!storage, Message!body
<1>3. \/ \E stage \in {"folders", "row", "match"}, m \in Messages :
           messageId' = m /\ runs' = Append(runs, Message!Run(stage, m))
      \/ /\ messageId = None /\ messageId' \in Messages /\ stranded' = TRUE
         /\ UNCHANGED <<runs, bodyState, bodyText, asked, late>>
  <2>1. CASE Message!OpenMessage
    BY <2>1 DEF Message!OpenMessage, Message!Starts, Message!body
  <2>2. CASE Message!GoSibling
    BY <2>2 DEF Message!GoSibling, Message!Shows, Message!Starts
  <2>3. CASE Message!Retry
    BY <1>1, <2>3 DEF Message!Retry, Message!Starts, Receivers
  <2> QED
    BY <2>1, <2>2, <2>3
<1>4. CASE \E stage \in {"folders", "row", "match"}, m \in Messages :
             messageId' = m /\ runs' = Append(runs, Message!Run(stage, m))
  <2>1. PICK stage \in {"folders", "row", "match"}, m \in Messages :
          messageId' = m /\ runs' = Append(runs, Message!Run(stage, m))
    BY <1>4
  <2>2. stage \in Stages \ {"acting", "put", "parse"}
    BY DEF Stages
  <2> QED
    BY <1>1, <1>2, <2>1, <2>2, MessageBegins
\* A view whose mailbox cannot be resolved: the loads of earlier views only.
<1>5. CASE /\ messageId = None /\ messageId' \in Messages /\ stranded' = TRUE
           /\ UNCHANGED <<runs, bodyState, bodyText, asked, late>>
  <2>1. messageId' # None /\ messageId' \in Receivers /\ bodyState = "loading"
    BY <1>5, NoReceiver DEF MessageInv, Unopened, Receivers
  <2>2. AllOvertaken(runs)
    BY <1>5 DEF MessageInv, LiveMounted, AllOvertaken, Ongoing
  <2>3. MessageTypes' /\ LiveMounted' /\ NotStrayed'
    BY <1>2, <1>5, <2>1
       DEF MessageInv, MessageTypes, LiveMounted, NotStrayed, Message!CachedRawIsOwn
  <2>4. BodyShown' /\ ImagesShown' /\ LoadingShown' /\ Unopened'
    BY <1>5, <2>1, <2>2 DEF BodyShown, ImagesShown, LoadingShown, Unopened
  <2>5. RawShown'
    BY <1>2 DEF MessageInv, RawShown
  <2> QED
    BY <2>3, <2>4, <2>5 DEF MessageInv
<1> QED
  BY <1>3, <1>4, <1>5

LEMMA MessageActs == MessageInv /\ Message!ActOnMessage => MessageInv'
<1> SUFFICES ASSUME MessageInv, Message!ActOnMessage PROVE MessageInv'
  OBVIOUS
<1>1. /\ MessageTypes /\ LiveMounted /\ NotStrayed /\ RawShown /\ BodyShown /\ ImagesShown
      /\ LoadingShown /\ Unopened
  BY DEF MessageInv
<1>2. /\ messageId # None /\ runs' = Append(runs, Message!Run("acting", messageId))
      /\ UNCHANGED <<messageId, kept, rows, rawCache, bodyState, bodyHtml, rawHtml, bodyText,
                     asked, strayed, late, stranded>>
  BY DEF Message!ActOnMessage, Message!Starts, Message!storage, Message!body
<1> DEFINE new == Message!Run("acting", messageId)
<1>3. /\ new \in MessageRuns /\ new \in Straight /\ new.live = TRUE /\ new.stage = "acting"
  BY <1>1, <1>2 DEF MessageTypes, Message!Run, MessageRuns, Straight, Receivers, Stages
<1>4. runs' = Append(runs, new)
  BY <1>2
<1> HIDE DEF new
<1>5. /\ runs' \in Seq(MessageRuns) /\ DeadFirst(runs')
      /\ SomeOngoing(runs) => SomeOngoing(runs')
      /\ AllOvertaken(runs) => AllOvertaken(runs')
      /\ \A m : Coming(runs, m) => Coming(runs', m)
  BY <1>1, <1>3, <1>4, RunBegins DEF MessageTypes
<1>6. MessageTypes' /\ LiveMounted'
  BY <1>1, <1>2, <1>5 DEF MessageTypes, LiveMounted
<1>7. NotStrayed'
  <2>1. ~strayed => runs' \in Seq(Straight)
    BY <1>1, <1>3, <1>4, Appended DEF NotStrayed
  <2> QED
    BY <1>1, <1>2, <2>1 DEF NotStrayed, Message!CachedRawIsOwn
<1>8. RawShown' /\ ImagesShown' /\ LoadingShown' /\ Unopened'
  BY <1>1, <1>2, <1>5 DEF RawShown, ImagesShown, LoadingShown, Unopened
<1>9. BodyShown'
  BY <1>1, <1>2, <1>5 DEF BodyShown
<1> QED
  BY <1>6, <1>7, <1>8, <1>9 DEF MessageInv

LEMMA MessageBack ==
  ASSUME MessageInv, Message!Leave \/ Message!Back
  PROVE  MessageInv'
<1>1. /\ runs \in Seq(MessageRuns) /\ DeadFirst(runs) /\ (~strayed => runs \in Seq(Straight))
  BY DEF MessageInv, MessageTypes, NotStrayed
<1>2. UNCHANGED <<kept, rows, rawCache, strayed>>
  BY DEF Message!Leave, Message!Back, Message!storage
<1>3. CASE Message!Leave
  <2>1. Message!Left(runs)
    BY <1>3 DEF Message!Leave
  <2> QED
    BY <1>1, <1>2, <2>1, MessageLeft
<1>4. CASE Message!Back
  <2>1. PICK i \in DOMAIN runs :
          \/ /\ \E m \in Messages \ {messageId} : Message!Shows(m, Without(runs, i))
             /\ UNCHANGED <<message, bodyState, bodyHtml, rawHtml, bodyText, late>>
          \/ Message!Left(Without(runs, i))
    BY <1>4 DEF Message!Back, Message!Without, Without
  <2> DEFINE rest == Without(runs, i)
  <2>2. rest \in Seq(MessageRuns) /\ (~strayed => rest \in Seq(Straight))
    <3>1. rest \in Seq(MessageRuns)
      BY <1>1, Removed
    <3>2. ~strayed => rest \in Seq(Straight)
      BY <1>1, Removed
    <3> QED
      BY <3>1, <3>2
  <2>3. DeadFirst(rest)
    <3>1. /\ \A j \in DOMAIN rest : Place(i, j) \in DOMAIN runs /\ rest[j] = runs[Place(i, j)]
          /\ \A j, k \in DOMAIN rest : j < k => Place(i, j) < Place(i, k)
      <4>1. \A j \in DOMAIN rest : Place(i, j) \in DOMAIN runs /\ rest[j] = runs[Place(i, j)]
        BY <1>1, RemovedPlaces
      <4>2. DOMAIN rest = 1 .. Len(runs) - 1 /\ Len(runs) \in Nat /\ DOMAIN runs = 1 .. Len(runs)
        BY <1>1, Removed, LenProperties
      <4> HIDE DEF rest
      <4>3. \A j, k \in DOMAIN rest : j < k => Place(i, j) < Place(i, k)
        BY <4>2 DEF Place
      <4> QED
        BY <4>1, <4>3
    <3> HIDE DEF rest
    <3> QED
      BY <1>1, <3>1 DEF DeadFirst
  <2>4. \/ /\ \E m \in Messages \ {messageId} : Message!Shows(m, rest)
           /\ UNCHANGED <<message, bodyState, bodyHtml, rawHtml, bodyText, late>>
        \/ Message!Left(rest)
    BY <2>1
  <2> HIDE DEF rest
  <2>5. CASE /\ \E m \in Messages \ {messageId} : Message!Shows(m, rest)
             /\ UNCHANGED <<message, bodyState, bodyHtml, rawHtml, bodyText, late>>
    <3>1. PICK m \in Messages : messageId' = m /\ runs' = Append(rest, Message!Run("row", m))
      BY <2>5 DEF Message!Shows, Message!Starts
    <3>2. "row" \in Stages \ {"acting", "put", "parse"}
      BY DEF Stages
    <3> QED
      BY <1>2, <2>2, <2>3, <2>5, <3>1, <3>2, MessageBegins
  <2>6. CASE Message!Left(rest)
    BY <1>2, <2>2, <2>6, MessageLeft
  <2> QED
    BY <2>4, <2>5, <2>6
<1> QED
  BY <1>3, <1>4

\* The rest leaves the runs alone.
LEMMA MessageStill ==
  ASSUME MessageInv,
         \/ Message!AllowImages \/ Message!DeletedElsewhere \/ Message!ApplyDelta
         \/ Message!ReconcileRejectedMessage \/ UNCHANGED messageState
  PROVE  MessageInv'
<1>1. /\ MessageTypes /\ LiveMounted /\ NotStrayed /\ RawShown /\ BodyShown /\ ImagesShown
      /\ LoadingShown /\ Unopened
  BY DEF MessageInv
<1>2. UNCHANGED <<messageId, runs, bodyState, rawHtml, bodyText, strayed, late, stranded>>
  BY DEF Message!AllowImages, Message!DeletedElsewhere, Message!ApplyDelta,
     Message!ReconcileRejectedMessage, messageState, Message!storage, Message!body
<1>3. \/ UNCHANGED <<bodyHtml, asked>>
      \/ bodyHtml' = [of |-> rawHtml, remote |-> TRUE] /\ asked' = bodyHtml.of
  BY DEF Message!AllowImages, Message!DeletedElsewhere, Message!ApplyDelta,
     Message!ReconcileRejectedMessage, messageState, Message!body
<1>4. /\ kept' \subseteq Messages /\ rows' \subseteq Messages
      /\ rawCache' = rawCache \/ \E m \in Messages : rawCache' = [rawCache EXCEPT ![m] = None]
  BY <1>1 DEF Message!AllowImages, Message!DeletedElsewhere, Message!ApplyDelta,
     Message!ReconcileRejectedMessage, messageState, Message!storage, MessageTypes
<1>5. rawCache' \in [Receivers -> Receivers] /\ (Message!CachedRawIsOwn => Message!CachedRawIsOwn')
  BY <1>1, <1>4 DEF MessageTypes, Receivers, Message!CachedRawIsOwn
<1>6. MessageTypes' /\ LiveMounted' /\ NotStrayed'
  BY <1>1, <1>2, <1>4, <1>5 DEF MessageTypes, LiveMounted, NotStrayed
<1>7. bodyHtml'.of = bodyHtml.of /\ RawShown'
  BY <1>1, <1>2, <1>3 DEF RawShown
<1>8. BodyShown' /\ LoadingShown' /\ Unopened'
  BY <1>1, <1>2, <1>7 DEF BodyShown, LoadingShown, Unopened
<1>9. ImagesShown'
  <2>1. CASE UNCHANGED <<bodyHtml, asked>>
    BY <1>1, <1>2, <2>1 DEF ImagesShown
  <2>2. CASE asked' = bodyHtml.of
    BY <1>7, <2>2 DEF ImagesShown
  <2> QED
    BY <1>3, <2>1, <2>2
<1> QED
  BY <1>6, <1>7, <1>8, <1>9 DEF MessageInv

LEMMA MessageStays == MessageInv /\ UNCHANGED messageState => MessageInv'
BY MessageStill

LEMMA MessageSteps == MessageInv /\ Message!Next => MessageInv'
BY MessageGoesOn, MessageRow, MessageEndsAll, MessageOpens, MessageActs, MessageBack, MessageStill
   DEF Message!Next

LEMMA MessageHolds ==
  MessageInv => Message!BodyBelongs /\ Message!RemoteOnAsking /\ Message!LoadingEnds
<1> SUFFICES ASSUME MessageInv
             PROVE  Message!BodyBelongs /\ Message!RemoteOnAsking /\ Message!LoadingEnds
  OBVIOUS
<1>1. runs \in Seq(MessageRuns) /\ BodyShown /\ ImagesShown /\ LoadingShown
  BY DEF MessageInv, MessageTypes
<1>2. \A i \in DOMAIN runs : runs[i].live \in BOOLEAN
  BY <1>1, ElementOf, MessageRunTyped
<1>3. Message!Settled <=> ~SomeOngoing(runs)
  BY <1>2 DEF Message!Settled, SomeOngoing, Ongoing
<1>4. Message!LoadingEnds
  BY <1>1, <1>3 DEF Message!LoadingEnds, LoadingShown
<1>5. Message!RemoteOnAsking
  BY <1>1, <1>3 DEF Message!RemoteOnAsking, ImagesShown
<1>6. Message!BodyBelongs
  BY <1>1, <1>3, ComingIsOngoing DEF Message!BodyBelongs, BodyShown
<1> QED
  BY <1>4, <1>5, <1>6
=============================================================================
