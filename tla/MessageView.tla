----------------------------- MODULE MessageView -----------------------------
(***************************************************************************)
(* The view of one message: the row from IndexedDB, the raw email from the *)
(* Cache API or the worker, and the body made from it, with remote content *)
(* blocked until the reader asks for it.                                   *)
(*                                                                         *)
(* loadMessage is one coroutine per opening, retry or change of the route; *)
(* an older one goes on.  What it is for is read again from the route      *)
(* after every await, also by one whose view is gone.  Of a raw email the  *)
(* model keeps whose it is.  IndexedDB does not fail.                      *)
(***************************************************************************)
EXTENDS Naturals, Sequences, FiniteSets, UnderWay

CONSTANTS
  Messages, None,
  Html, Text,     \* messages with an HTML body, which refers to remote content; a text body
  MaxOpenings,    \* bound: changes of the route and retries
  MaxRuns,        \* bound: loads under way
  MaxDeleted      \* bound: messages deleted elsewhere

VARIABLES
  messageId,    \* the message in the route, None: another view
  kept,         \* messages that the server has
  rows,         \* messages in the local database
  rawCache,     \* Cache API: key -> whose raw email is stored under it
  runs,         \* loads under way, in the order in which they began
  message,      \* the row shown
  bodyState,
  bodyHtml,     \* whose HTML is shown, and whether with its remote content
  rawHtml,      \* whose HTML was parsed last
  bodyText,
  remoteImagesBlocked,
  imagesAllowed,
  openings,     \* number of changes of the route and retries so far
  asked,        \* ghost: whose remote content was asked for since the route changed
  strayed,      \* ghost: a load has used the id of a message it was not begun for
  late,         \* ghost: what is shown comes from a load that was overtaken
  stranded      \* ghost: the view's mailbox cannot be resolved, its init loads nothing

storage == <<kept, rows, rawCache>>
body == <<bodyState, bodyHtml, rawHtml, bodyText, remoteImagesBlocked, imagesAllowed>>
messageVars == <<messageId, storage, runs, message, body, openings, asked, strayed, late, stranded>>

NoHtml == [of |-> None, remote |-> FALSE]

\* Another view of the mailbox is shown, whose list has all messages.
Init ==
  /\ messageId = None
  /\ kept = Messages /\ rows = Messages
  /\ rawCache = [k \in Messages \cup {None} |-> None]
  /\ runs = <<>>
  /\ message = None /\ bodyState = "loading"
  /\ bodyHtml = NoHtml /\ rawHtml = None /\ bodyText = None
  /\ remoteImagesBlocked = FALSE /\ imagesAllowed = FALSE
  /\ openings = 0 /\ asked = None /\ strayed = FALSE /\ late = FALSE /\ stranded = FALSE

-----------------------------------------------------------------------------
(* Loads                                                                   *)

\* A coroutine: its stage is the await it is at.  for, used: the message it was begun
\* for and that of its current await; raw: whose raw email it has.
Run(stage, for) ==
  [stage |-> stage, for |-> for, used |-> for, raw |-> None,
   live |-> TRUE, overtaken |-> FALSE]

Opens == openings < MaxOpenings /\ openings' = openings + 1
Starts(rs, run) == Len(rs) < MaxRuns /\ runs' = Append(rs, run)

\* Run i goes on to the next await, with the id that the route has now.
Goes(i, stage, raw) ==
  LET used == IF stage \in {"row", "match", "fetch", "put"} THEN messageId ELSE runs[i].for IN
  /\ runs' = [runs EXCEPT ![i].stage = stage, ![i].used = used, ![i].raw = raw]
  /\ strayed' = (strayed \/ used \notin {runs[i].for, None})

\* Run i ends; it writes what is shown if its view is still there.
Ends(i) ==
  /\ runs' = Without([j \in DOMAIN runs |->
                        IF j < i THEN [runs[j] EXCEPT !.overtaken = @ \/ runs[j].live]
                        ELSE runs[j]], i)
  /\ late' = IF runs[i].live THEN runs[i].overtaken ELSE late

Fails(i, state) ==
  /\ Ends(i)
  /\ bodyState' = IF runs[i].live THEN state ELSE bodyState
  /\ UNCHANGED <<bodyHtml, rawHtml, bodyText, remoteImagesBlocked, imagesAllowed>>

\* init: the mailbox is resolved and the folders are there, the row is read.  With the
\* view gone another mailbox may be open by now: then init returns.
FoldersReady ==
  /\ \E i \in DOMAIN runs :
       /\ runs[i].stage = "folders"
       /\ \/ Goes(i, "row", None) /\ UNCHANGED late
          \/ ~runs[i].live /\ Ends(i) /\ UNCHANGED strayed
  /\ UNCHANGED <<messageId, storage, message, body, openings, asked, stranded>>

\* Mutant of RowArrives: a row that is not there ends the load silently.
RowArrivesSilently ==
  /\ \E i \in DOMAIN runs :
       /\ runs[i].stage = "row"
       /\ IF runs[i].used \notin rows
          THEN Ends(i) /\ UNCHANGED <<message, strayed>>
          ELSE /\ message' = IF runs[i].live THEN runs[i].used ELSE message
               /\ Goes(i, "siblings", None)
               /\ UNCHANGED late
  /\ UNCHANGED <<messageId, storage, body, openings, asked, stranded>>

\* The row, or "not found".  A message opened unread is marked read before its
\* siblings are loaded: see Enqueue of MailboxView.
RowArrives ==
  /\ \E i \in DOMAIN runs :
       /\ runs[i].stage = "row"
       /\ IF runs[i].used \notin rows
          THEN Fails(i, "error") /\ UNCHANGED <<message, strayed>>
          ELSE /\ message' = IF runs[i].live THEN runs[i].used ELSE message
               /\ Goes(i, "siblings", None)
               /\ UNCHANGED <<body, late>>
  /\ UNCHANGED <<messageId, storage, openings, asked, stranded>>

\* loadBody up to the look at the cache.
LoadSiblings ==
  /\ \E i \in DOMAIN runs :
       /\ runs[i].stage = "siblings"
       /\ Goes(i, "match", None)
       /\ bodyState' = IF runs[i].live THEN "loading" ELSE bodyState
  /\ UNCHANGED <<messageId, storage, message, bodyHtml, rawHtml, bodyText,
                 remoteImagesBlocked, imagesAllowed, openings, asked, late, stranded>>

GetCachedRaw ==
  /\ \E i \in DOMAIN runs : LET hit == rawCache[runs[i].used] IN
       /\ runs[i].stage = "match"
       /\ IF hit # None THEN Goes(i, "parse", hit) ELSE Goes(i, "fetch", None)
  /\ UNCHANGED <<messageId, storage, message, body, openings, asked, late, stranded>>

\* The raw email is put under the id that the route has by now.
FetchRawEmail ==
  /\ \E i \in DOMAIN runs :
       /\ runs[i].stage = "fetch" /\ runs[i].used \in kept
       /\ Goes(i, "put", runs[i].used)
  /\ UNCHANGED <<messageId, storage, message, body, openings, asked, late, stranded>>

FetchFails ==
  /\ \E i \in DOMAIN runs :
       /\ runs[i].stage = "fetch"
       /\ Fails(i, "error")
  /\ UNCHANGED <<messageId, storage, message, openings, asked, strayed, stranded>>

\* The quota may be used up.
PutCachedRaw ==
  /\ \E i \in DOMAIN runs :
       /\ runs[i].stage = "put"
       /\ rawCache' \in {rawCache, [rawCache EXCEPT ![runs[i].used] = runs[i].raw]}
       /\ Goes(i, "parse", runs[i].raw)
  /\ UNCHANGED <<messageId, kept, rows, message, body, openings, asked, late, stranded>>

\* Mutant of Blocked: the two sanitizers are mixed up.
NotBlocked == TRUE

\* What sanitizeWithImageBlock lets through.
Blocked == FALSE

Parsed ==
  /\ \E i \in DOMAIN runs : LET of == runs[i].raw IN
       /\ runs[i].stage = "parse"
       /\ Ends(i)
       /\ IF ~runs[i].live THEN UNCHANGED body
          ELSE /\ bodyState' = IF of \in Html THEN "html" ELSE IF of \in Text THEN "text" ELSE "empty"
               /\ rawHtml' = IF of \in Html THEN of ELSE rawHtml
               /\ bodyHtml' = IF of \in Html THEN [of |-> of, remote |-> Blocked] ELSE bodyHtml
               /\ remoteImagesBlocked' = (of \in Html \/ remoteImagesBlocked)
               /\ bodyText' = IF of \in Text THEN of ELSE bodyText
               /\ UNCHANGED imagesAllowed
  /\ UNCHANGED <<messageId, storage, message, openings, asked, strayed, stranded>>

ParseFails ==
  /\ \E i \in DOMAIN runs :
       /\ runs[i].stage = "parse"
       /\ Fails(i, "parse-error")
  /\ UNCHANGED <<messageId, storage, message, openings, asked, strayed, stranded>>

-----------------------------------------------------------------------------
(* The reader                                                              *)

\* A new view.  If the mailbox cannot be resolved, init returns and loads nothing.
OpenMessage ==
  /\ messageId = None /\ Opens
  /\ \E m \in Messages :
       /\ messageId' = m
       /\ \/ Starts(runs, Run("folders", m)) /\ UNCHANGED stranded
          \/ UNCHANGED runs /\ stranded' = TRUE
  /\ UNCHANGED <<storage, message, body, asked, strayed, late>>

\* Mutant of Shows: only the banner is reset.
ShowsWithoutLoading(m, rs) ==
  /\ messageId' = m
  /\ runs' = rs
  /\ remoteImagesBlocked' = FALSE /\ imagesAllowed' = FALSE
  /\ asked' = None /\ stranded' = FALSE

\* The watch of messageId: the view stays and loads the other message.
Shows(m, rs) ==
  /\ messageId' = m
  /\ Starts(rs, Run("row", m))
  /\ remoteImagesBlocked' = FALSE /\ imagesAllowed' = FALSE
  /\ asked' = None /\ stranded' = FALSE

\* An older or newer message, or one in the history of the browser.
GoSibling ==
  /\ messageId # None /\ Opens
  /\ \E m \in Messages \ {messageId} : Shows(m, runs)
  /\ UNCHANGED <<storage, message, bodyState, bodyHtml, rawHtml, bodyText, strayed, late>>

\* The view goes, and its state with it; its loads go on.
Left(rs) ==
  /\ messageId' = None
  /\ runs' = [j \in DOMAIN rs |-> [rs[j] EXCEPT !.live = FALSE, !.overtaken = FALSE]]
  /\ message' = None /\ bodyState' = "loading"
  /\ bodyHtml' = NoHtml /\ rawHtml' = None /\ bodyText' = None
  /\ remoteImagesBlocked' = FALSE /\ imagesAllowed' = FALSE
  /\ asked' = None /\ late' = FALSE /\ stranded' = FALSE

Leave ==
  /\ messageId # None
  /\ Left(runs)
  /\ UNCHANGED <<storage, openings, strayed>>

\* toggleRead, moveSingle: once the mutation of the message shown is queued, back.
ActOnMessage ==
  /\ messageId # None /\ message # None /\ Opens
  /\ Starts(runs, Run("acting", messageId))
  /\ UNCHANGED <<messageId, storage, message, body, asked, strayed, late, stranded>>

\* Back may be a message that was shown before.
Back ==
  /\ \E i \in DOMAIN runs :
       /\ runs[i].stage = "acting"
       /\ LET rest == Without(runs, i) IN
          \/ /\ messageId # None /\ \E m \in Messages \ {messageId} : Shows(m, rest)
             /\ UNCHANGED <<message, bodyState, bodyHtml, rawHtml, bodyText, late>>
          \/ Left(rest)
  /\ UNCHANGED <<storage, openings, strayed>>

\* The button of an error: the row again, after a parse error the body only.
Retry ==
  /\ messageId # None /\ Opens
  /\ \/ /\ bodyState = "error"
        /\ Starts(runs, Run("row", messageId))
        /\ UNCHANGED bodyState
     \/ /\ bodyState = "parse-error" /\ message # None
        /\ Starts(runs, Run("match", messageId))
        /\ bodyState' = "loading"
  /\ UNCHANGED <<messageId, storage, message, bodyHtml, rawHtml, bodyText,
                 remoteImagesBlocked, imagesAllowed, asked, strayed, late, stranded>>

AllowImages ==
  /\ messageId # None /\ message # None
  /\ bodyState = "html" /\ remoteImagesBlocked /\ ~imagesAllowed
  /\ bodyHtml' = [of |-> rawHtml, remote |-> TRUE]
  /\ remoteImagesBlocked' = FALSE /\ imagesAllowed' = TRUE
  /\ asked' = bodyHtml.of
  /\ UNCHANGED <<messageId, storage, runs, message, bodyState, rawHtml, bodyText,
                 openings, strayed, late, stranded>>

-----------------------------------------------------------------------------
(* Synchronisation                                                         *)

\* Deleted for good by another device or the retention job.
DeletedElsewhere ==
  /\ Cardinality(Messages \ kept) < MaxDeleted
  /\ \E m \in kept : kept' = kept \ {m}
  /\ UNCHANGED <<messageId, rows, rawCache, runs, message, body, openings, asked, strayed, late, stranded>>

\* A delta takes deleted rows out; raw emails stay in the cache.
ApplyDelta ==
  /\ rows # rows \cap kept
  /\ rows' = rows \cap kept
  /\ UNCHANGED <<messageId, kept, rawCache, runs, message, body, openings, asked, strayed, late, stranded>>

\* reconcileRejectedMessage: the worker has rejected a mutation because its message
\* is gone; the row and the raw email go with it.
ReconcileRejectedMessage ==
  /\ \E m \in Messages \ kept :
       rows' = rows \ {m} /\ rawCache' = [rawCache EXCEPT ![m] = None]
  /\ UNCHANGED <<messageId, kept, runs, message, body, openings, asked, strayed, late, stranded>>

Next ==
  \/ FoldersReady \/ RowArrives \/ LoadSiblings
  \/ GetCachedRaw \/ FetchRawEmail \/ FetchFails \/ PutCachedRaw \/ Parsed \/ ParseFails
  \/ OpenMessage \/ GoSibling \/ Leave \/ ActOnMessage \/ Back \/ Retry \/ AllowImages
  \/ DeletedElsewhere \/ ApplyDelta \/ ReconcileRejectedMessage

Spec == Init /\ [][Next]_messageVars

-----------------------------------------------------------------------------
(* Properties                                                              *)

\* Nothing is under way that writes what is shown.
Settled == \A i \in DOMAIN runs : ~runs[i].live \/ runs[i].stage = "acting"

\* Once the loads of the view have ended, the body shown is that of the message in
\* the route; unless an older load ended last, or one has used the
\* message of a later route.
BodyBelongs ==
  messageId # None /\ Settled /\ ~late /\ ~strayed =>
    /\ bodyState = "html" => bodyHtml.of = messageId
    /\ bodyState = "text" => bodyText = messageId

\* Remote content is shown only of the message it was asked for, and since the
\* reader came to it: the permission goes with the route.
RemoteOnAsking ==
  messageId # None /\ Settled /\ bodyState = "html" /\ bodyHtml.remote => bodyHtml.of = asked

\* "loading" is shown only while a load is under way that will end it, or in a view
\* whose init has returned because the mailbox could not be resolved: that one keeps
\* its skeleton until the reader goes on, although stores/mailbox.ts:46 leaves the
\* error to the view's own loading (MessageDetailView.vue:126).
LoadingEnds == messageId # None /\ bodyState = "loading" => ~Settled \/ stranded

\* The cache stores under a message what was fetched for it.
CachedRawIsOwn == \A m \in Messages : rawCache[m] \in {None, m}
=============================================================================
