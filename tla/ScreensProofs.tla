---------------------------- MODULE ScreensProofs ----------------------------
(***************************************************************************)
(* Proofs about the views, each for every value of its constants.          *)
(*                                                                         *)
(* One view is mounted at a time and Next is a step of that view, so an    *)
(* invariant of a view is proved from its own Init and Next and carried    *)
(* over to Spec at the end.  The invariants of the mailbox and the message *)
(* are those of MailViewsProofs.                                           *)
(***************************************************************************)
EXTENDS MailViewsProofs

-----------------------------------------------------------------------------
(* The connection to Cloudflare                                            *)

OauthStates == [configured : BOOLEAN \cup {None}, checking : BOOLEAN, statusError : BOOLEAN,
                reconnect : BOOLEAN, connecting : BOOLEAN, redirecting : BOOLEAN]
AddDialogs == [open : BOOLEAN, selected : BOOLEAN, options : BOOLEAN, loading : BOOLEAN,
               submitting : BOOLEAN]
Requests == [rev : Nat, met : SUBSET BOOLEAN]
CloudflareTypes ==
  /\ revision \in Nat /\ connected \in BOOLEAN /\ moved \in BOOLEAN
  /\ oauth \in OauthStates /\ checks \in Seq(Requests) /\ addDialog \in AddDialogs
  /\ adds \in Seq([met : SUBSET BOOLEAN])
  /\ zoneLoads \in Nat /\ authorizing \in Nat

\* No request is newer than the newest.
ChecksAreNumbered == \A i \in DOMAIN checks : checks[i].rev <= revision

\* Unless the connection has changed since, the newest check can only find what is
\* true, and has it found, or failed, or is under way.
NewestIsRight ==
  ~moved =>
    /\ \A i \in DOMAIN checks : checks[i].rev = revision => checks[i].met = {connected}
    /\ \/ \E i \in DOMAIN checks : checks[i].rev = revision
       \/ oauth.statusError
       \/ oauth.configured = connected

\* What an addition may have met includes what is true now.
AddsMeetTheTruth == \A i \in DOMAIN adds : connected \in adds[i].met

\* StatusSettles, wherever the page is.
CheckingEnds ==
  /\ oauth.checking => \E i \in DOMAIN checks : checks[i].rev = revision
  /\ ~oauth.checking => oauth.configured # None \/ oauth.statusError
DialogsEnd ==
  /\ oauth.connecting => authorizing > 0
  /\ addDialog.loading => zoneLoads > 0
  /\ addDialog.submitting => adds # <<>>

CloudflareInv ==
  /\ CloudflareTypes /\ ChecksAreNumbered /\ NewestIsRight /\ AddsMeetTheTruth
  /\ CheckingEnds /\ DialogsEnd

\* A check is the newest evidence from its beginning.
LEMMA CheckBegins ==
  ASSUME CloudflareInv, NEW o, NEW cs \in {checks, <<>>}, NEW now \in BOOLEAN,
         o \in OauthStates, Cloudflare!Check(o, cs, now), connected' = now
  PROVE  /\ revision' \in Nat /\ moved' = FALSE
         /\ oauth' = [o EXCEPT !.checking = TRUE, !.statusError = FALSE]
         /\ checks' \in Seq(Requests)
         /\ ChecksAreNumbered' /\ NewestIsRight' /\ CheckingEnds'
<1> DEFINE new == [rev |-> revision + 1, met |-> {now}]
<1>1. /\ revision \in Nat /\ revision' = revision + 1 /\ moved' = FALSE
      /\ oauth' = [o EXCEPT !.checking = TRUE, !.statusError = FALSE]
      /\ cs \in Seq(Requests) /\ new \in Requests /\ checks' = Append(cs, new)
  <2>1. revision \in Nat /\ checks \in Seq(Requests)
    BY DEF CloudflareInv, CloudflareTypes
  <2>2. cs \in Seq(Requests)
    <3>1. <<>> \in Seq(Requests)
      BY EmptySeq
    <3> QED
      BY <2>1, <3>1
  <2>3. new \in Requests
    BY <2>1 DEF Requests
  <2> QED
    BY <2>1, <2>2, <2>3 DEF Cloudflare!Check
<1>2. \A i \in DOMAIN cs : cs[i].rev <= revision /\ cs[i].rev \in Nat
  <2>1. CASE cs = checks
    <3>1. \A i \in DOMAIN cs : cs[i] \in Requests
      BY <1>1, LenProperties, ElementOfSeq
    <3> QED
      BY <2>1, <3>1 DEF CloudflareInv, ChecksAreNumbered, Requests
  <2>2. CASE cs = <<>>
    BY <2>2
  <2> QED
    BY <2>1, <2>2
<1> HIDE DEF new
<1>3. /\ checks' \in Seq(Requests)
      /\ \A i \in DOMAIN checks' : (i \in DOMAIN cs /\ checks'[i] = cs[i]) \/ checks'[i] = new
      /\ \E i \in DOMAIN checks' : checks'[i] = new
  BY <1>1, Appended
<1>4. new.rev = revision + 1 /\ new.met = {now}
  BY DEF new
<1>5. ChecksAreNumbered'
  BY <1>1, <1>2, <1>3, <1>4 DEF ChecksAreNumbered
<1>6. NewestIsRight'
  <2>1. \A i \in DOMAIN checks' : checks'[i].rev = revision' => checks'[i].met = {connected'}
    BY <1>1, <1>2, <1>3, <1>4
  <2>2. \E i \in DOMAIN checks' : checks'[i].rev = revision'
    BY <1>1, <1>3, <1>4
  <2> QED
    BY <2>1, <2>2 DEF NewestIsRight
<1>7. CheckingEnds'
  BY <1>1, <1>3, <1>4 DEF CheckingEnds
<1>8. revision' \in Nat /\ moved' = FALSE
  BY <1>1
<1>9. oauth' = [o EXCEPT !.checking = TRUE, !.statusError = FALSE]
  BY <1>1
<1> QED
  BY <1>3, <1>5, <1>6, <1>7, <1>8, <1>9

LEMMA CloudflareStarts == Cloudflare!Init => CloudflareInv
<1> SUFFICES ASSUME Cloudflare!Init PROVE CloudflareInv
  OBVIOUS
<1>1. checks \in Seq(Requests) /\ checks = <<[rev |-> 1, met |-> {connected}]>>
  BY DEF Cloudflare!Init, Requests
<1>2. DOMAIN checks = {1} /\ checks[1].rev = 1 /\ checks[1].met = {connected}
  BY <1>1
<1>3. CloudflareTypes
  <2>1. adds \in Seq([met : SUBSET BOOLEAN])
    BY DEF Cloudflare!Init
  <2>2. Cloudflare!Fresh \in OauthStates /\ Cloudflare!NoDialog \in AddDialogs
    BY DEF Cloudflare!Fresh, Cloudflare!NoDialog, OauthStates, AddDialogs
  <2>3. oauth = [Cloudflare!Fresh EXCEPT !.checking = TRUE] /\ addDialog = Cloudflare!NoDialog
    BY DEF Cloudflare!Init
  <2>4. oauth \in OauthStates /\ addDialog \in AddDialogs
    BY <2>2, <2>3 DEF OauthStates
  <2>5. /\ revision \in Nat /\ connected \in BOOLEAN /\ moved \in BOOLEAN
        /\ zoneLoads \in Nat /\ authorizing \in Nat
    BY DEF Cloudflare!Init
  <2> QED
    BY <1>1, <2>1, <2>4, <2>5 DEF CloudflareTypes
<1>4. revision = 1 /\ moved = FALSE /\ adds = <<>> /\ authorizing = 0 /\ zoneLoads = 0
      /\ oauth.checking = TRUE /\ oauth.connecting = FALSE
      /\ addDialog.loading = FALSE /\ addDialog.submitting = FALSE
  BY DEF Cloudflare!Init, Cloudflare!Fresh, Cloudflare!NoDialog
<1>5. ChecksAreNumbered /\ NewestIsRight /\ CheckingEnds
  BY <1>2, <1>4 DEF ChecksAreNumbered, NewestIsRight, CheckingEnds
<1> QED
  BY <1>3, <1>4, <1>5 DEF CloudflareInv, AddsMeetTheTruth, DialogsEnd

\* An answer to a check: what is left are the others.
LEMMA CheckEnds ==
  ASSUME CloudflareInv, NEW i \in DOMAIN checks, checks' = Cloudflare!Without(checks, i)
  PROVE  /\ checks' \in Seq(Requests)
         /\ \A j \in DOMAIN checks' : \E k \in DOMAIN checks : k # i /\ checks'[j] = checks[k]
         /\ \A k \in DOMAIN checks : k # i => \E j \in DOMAIN checks' : checks'[j] = checks[k]
<1>1. Cloudflare!Without(checks, i) = Without(checks, i)
  BY DEF Cloudflare!Without, Without
<1> QED
  BY <1>1, RemovedOne DEF CloudflareInv, CloudflareTypes

LEMMA CheckArrivesKeeps == CloudflareInv /\ Cloudflare!CheckArrives => CloudflareInv'
<1> SUFFICES ASSUME CloudflareInv, Cloudflare!CheckArrives PROVE CloudflareInv'
  OBVIOUS
<1>1. PICK i \in DOMAIN checks : \E answer \in checks[i].met :
       /\ checks' = Cloudflare!Without(checks, i)
       /\ oauth' = IF checks[i].rev = revision
                   THEN [oauth EXCEPT !.configured = answer, !.reconnect = @ /\ ~answer,
                                      !.checking = FALSE]
                   ELSE oauth
  BY DEF Cloudflare!CheckArrives
<1>2. PICK answer \in checks[i].met :
       /\ checks' = Cloudflare!Without(checks, i)
       /\ oauth' = IF checks[i].rev = revision
                   THEN [oauth EXCEPT !.configured = answer, !.reconnect = @ /\ ~answer,
                                      !.checking = FALSE]
                   ELSE oauth
  BY <1>1
<1>3. UNCHANGED <<connected, revision, authorizing, addDialog, zoneLoads, adds, moved>>
  BY DEF Cloudflare!CheckArrives, Cloudflare!addVars
<1>4. /\ checks' \in Seq(Requests)
      /\ \A j \in DOMAIN checks' : \E k \in DOMAIN checks : k # i /\ checks'[j] = checks[k]
      /\ \A k \in DOMAIN checks : k # i => \E j \in DOMAIN checks' : checks'[j] = checks[k]
  BY <1>2, CheckEnds
<1>5. checks[i] \in Requests /\ answer \in BOOLEAN
  <2>1. checks[i] \in Requests
    BY ElementOf DEF CloudflareInv, CloudflareTypes, OauthStates
  <2> QED
    BY <2>1 DEF Requests
<1>6. CloudflareTypes'
  BY <1>2, <1>3, <1>4, <1>5 DEF CloudflareInv, CloudflareTypes, OauthStates
<1>7. ChecksAreNumbered'
  BY <1>3, <1>4 DEF CloudflareInv, ChecksAreNumbered
<1>8. CASE checks[i].rev = revision
  <2>1. /\ oauth'.configured = answer /\ oauth'.checking = FALSE
        /\ oauth'.statusError = oauth.statusError /\ oauth'.connecting = oauth.connecting
    BY <1>2, <1>8 DEF CloudflareInv, CloudflareTypes, OauthStates
  <2>2. NewestIsRight'
    BY <1>2, <1>3, <1>4, <1>8, <2>1 DEF CloudflareInv, NewestIsRight
  <2>3. CheckingEnds'
    BY <1>5, <2>1, ScreensAssumption DEF CheckingEnds
  <2> QED
    BY <1>3, <1>6, <1>7, <2>1, <2>2, <2>3 DEF CloudflareInv, AddsMeetTheTruth, DialogsEnd
<1>9. CASE checks[i].rev # revision
  <2>1. oauth' = oauth
    BY <1>2, <1>9
  <2>2. NewestIsRight'
    BY <1>3, <1>4, <1>9, <2>1 DEF CloudflareInv, NewestIsRight
  <2>3. CheckingEnds'
    BY <1>3, <1>4, <1>9, <2>1 DEF CloudflareInv, CheckingEnds
  <2> QED
    BY <1>3, <1>6, <1>7, <2>1, <2>2, <2>3 DEF CloudflareInv, AddsMeetTheTruth, DialogsEnd
<1> QED
  BY <1>8, <1>9

LEMMA CheckFailsKeeps == CloudflareInv /\ Cloudflare!CheckFails => CloudflareInv'
<1> SUFFICES ASSUME CloudflareInv, Cloudflare!CheckFails PROVE CloudflareInv'
  OBVIOUS
<1>1. PICK i \in DOMAIN checks :
       /\ checks' = Cloudflare!Without(checks, i)
       /\ oauth' = IF checks[i].rev = revision
                   THEN [oauth EXCEPT !.statusError = TRUE, !.checking = FALSE] ELSE oauth
  BY DEF Cloudflare!CheckFails
<1>3. UNCHANGED <<connected, revision, authorizing, addDialog, zoneLoads, adds, moved>>
  BY DEF Cloudflare!CheckFails, Cloudflare!addVars
<1>4. /\ checks' \in Seq(Requests)
      /\ \A j \in DOMAIN checks' : \E k \in DOMAIN checks : k # i /\ checks'[j] = checks[k]
      /\ \A k \in DOMAIN checks : k # i => \E j \in DOMAIN checks' : checks'[j] = checks[k]
  BY <1>1, CheckEnds
<1>6. CloudflareTypes'
  BY <1>1, <1>3, <1>4 DEF CloudflareInv, CloudflareTypes, OauthStates
<1>7. ChecksAreNumbered'
  BY <1>3, <1>4 DEF CloudflareInv, ChecksAreNumbered
<1>8. CASE checks[i].rev = revision
  <2>1. /\ oauth'.checking = FALSE
        /\ oauth'.statusError = TRUE /\ oauth'.connecting = oauth.connecting
    BY <1>1, <1>8 DEF CloudflareInv, CloudflareTypes, OauthStates
  <2>2. NewestIsRight'
    BY <1>3, <1>4, <2>1 DEF CloudflareInv, NewestIsRight
  <2>3. CheckingEnds'
    BY <2>1 DEF CheckingEnds
  <2> QED
    BY <1>3, <1>6, <1>7, <2>1, <2>2, <2>3 DEF CloudflareInv, AddsMeetTheTruth, DialogsEnd
<1>9. CASE checks[i].rev # revision
  <2>1. oauth' = oauth
    BY <1>1, <1>9
  <2>2. NewestIsRight'
    BY <1>3, <1>4, <1>9, <2>1 DEF CloudflareInv, NewestIsRight
  <2>3. CheckingEnds'
    BY <1>3, <1>4, <1>9, <2>1 DEF CloudflareInv, CheckingEnds
  <2> QED
    BY <1>3, <1>6, <1>7, <2>1, <2>2, <2>3 DEF CloudflareInv, AddsMeetTheTruth, DialogsEnd
<1> QED
  BY <1>8, <1>9

\* Where nothing that the invariant looks at changes but in ways it allows.
LEMMA CloudflareRest ==
  ASSUME CloudflareInv, CloudflareTypes', UNCHANGED <<connected, revision, checks>>,
         oauth'.checking = oauth.checking, oauth'.configured = oauth.configured,
         oauth'.statusError = oauth.statusError, moved' = moved,
         AddsMeetTheTruth', DialogsEnd'
  PROVE  CloudflareInv'
<1>1. ChecksAreNumbered' /\ CheckingEnds'
  BY DEF CloudflareInv, ChecksAreNumbered, CheckingEnds
<1>2. NewestIsRight'
  BY DEF CloudflareInv, NewestIsRight
<1> QED
  BY <1>1, <1>2 DEF CloudflareInv

LEMMA MountedKeeps ==
  ASSUME CloudflareInv, NEW now \in BOOLEAN, Cloudflare!Mounted(now), connected' = now
  PROVE  CloudflareInv'
<1>1. Cloudflare!Fresh \in OauthStates /\ Cloudflare!NoDialog \in AddDialogs
  BY DEF Cloudflare!Fresh, Cloudflare!NoDialog, OauthStates, AddDialogs
<1>2. Cloudflare!Check(Cloudflare!Fresh, <<>>, now)
  BY DEF Cloudflare!Mounted
<1>3. /\ revision' \in Nat /\ moved' = FALSE
      /\ oauth' = [Cloudflare!Fresh EXCEPT !.checking = TRUE, !.statusError = FALSE]
      /\ checks' \in Seq(Requests)
      /\ ChecksAreNumbered' /\ NewestIsRight' /\ CheckingEnds'
  BY <1>1, <1>2, CheckBegins
<1>4. /\ authorizing' = 0 /\ zoneLoads' = 0 /\ adds' = <<>>
      /\ addDialog' = Cloudflare!NoDialog
  BY DEF Cloudflare!Mounted
<1>5. oauth' \in OauthStates /\ oauth'.connecting = FALSE
  BY <1>1, <1>3 DEF OauthStates, Cloudflare!Fresh
<1>6. <<>> \in Seq([met : SUBSET BOOLEAN])
  BY EmptySeq
<1>7. CloudflareTypes'
  BY <1>1, <1>3, <1>4, <1>5, <1>6 DEF CloudflareTypes
<1>8. DialogsEnd' /\ AddsMeetTheTruth'
  BY <1>4, <1>5 DEF DialogsEnd, AddsMeetTheTruth, Cloudflare!NoDialog
<1> QED
  BY <1>3, <1>7, <1>8 DEF CloudflareInv

LEMMA CheckAgainKeeps == CloudflareInv /\ Cloudflare!CheckAgain => CloudflareInv'
<1> SUFFICES ASSUME CloudflareInv, Cloudflare!CheckAgain PROVE CloudflareInv'
  OBVIOUS
<1>1. /\ Cloudflare!Check(oauth, checks, connected)
      /\ UNCHANGED <<connected, authorizing, addDialog, zoneLoads, adds>>
  BY DEF Cloudflare!CheckAgain, Cloudflare!addVars
<1>2. connected \in BOOLEAN /\ oauth \in OauthStates
  BY DEF CloudflareInv, CloudflareTypes
<1>3. /\ revision' \in Nat /\ moved' = FALSE
      /\ oauth' = [oauth EXCEPT !.checking = TRUE, !.statusError = FALSE]
      /\ checks' \in Seq(Requests)
      /\ ChecksAreNumbered' /\ NewestIsRight' /\ CheckingEnds'
  BY <1>1, <1>2, CheckBegins
<1>4. oauth' \in OauthStates /\ oauth'.connecting = oauth.connecting
  BY <1>2, <1>3 DEF OauthStates
<1>5. CloudflareTypes'
  BY <1>1, <1>3, <1>4 DEF CloudflareInv, CloudflareTypes
<1>6. DialogsEnd' /\ AddsMeetTheTruth'
  BY <1>1, <1>4 DEF CloudflareInv, DialogsEnd, AddsMeetTheTruth
<1> QED
  BY <1>3, <1>5, <1>6 DEF CloudflareInv

LEMMA PageShowKeeps == CloudflareInv /\ Cloudflare!PageShow => CloudflareInv'
<1> SUFFICES ASSUME CloudflareInv, Cloudflare!PageShow PROVE CloudflareInv'
  OBVIOUS
<1> DEFINE o == [oauth EXCEPT !.redirecting = FALSE, !.connecting = FALSE]
<1>1. PICK still \in {checks, <<>>} : Cloudflare!Check(o, still, connected)
  BY DEF Cloudflare!PageShow
<1>2. UNCHANGED <<connected, authorizing, addDialog, zoneLoads, adds>>
  BY DEF Cloudflare!PageShow, Cloudflare!addVars
<1>3. connected \in BOOLEAN /\ o \in OauthStates /\ o.connecting = FALSE
  BY DEF CloudflareInv, CloudflareTypes, OauthStates
<1> HIDE DEF o
<1>4. /\ revision' \in Nat /\ moved' = FALSE
      /\ oauth' = [o EXCEPT !.checking = TRUE, !.statusError = FALSE]
      /\ checks' \in Seq(Requests)
      /\ ChecksAreNumbered' /\ NewestIsRight' /\ CheckingEnds'
  BY <1>1, <1>2, <1>3, CheckBegins
<1>5. oauth' \in OauthStates /\ oauth'.connecting = FALSE
  BY <1>3, <1>4 DEF OauthStates
<1>6. CloudflareTypes'
  BY <1>2, <1>4, <1>5 DEF CloudflareInv, CloudflareTypes
<1>7. DialogsEnd' /\ AddsMeetTheTruth'
  BY <1>2, <1>5 DEF CloudflareInv, DialogsEnd, AddsMeetTheTruth
<1> QED
  BY <1>4, <1>6, <1>7 DEF CloudflareInv

LEMMA ConnectionChangesKeeps == CloudflareInv /\ Cloudflare!ConnectionChanges => CloudflareInv'
<1> SUFFICES ASSUME CloudflareInv, Cloudflare!ConnectionChanges PROVE CloudflareInv'
  OBVIOUS
<1>1. /\ connected' = ~connected /\ moved' = TRUE
      /\ checks' = [i \in DOMAIN checks |-> [checks[i] EXCEPT !.met = BOOLEAN]]
      /\ adds' = [i \in DOMAIN adds |-> [met |-> BOOLEAN]]
      /\ UNCHANGED <<oauth, revision, authorizing, addDialog, zoneLoads>>
  BY DEF Cloudflare!ConnectionChanges
<1>2. /\ Len(checks) \in Nat /\ DOMAIN checks = 1 .. Len(checks)
      /\ Len(adds) \in Nat /\ DOMAIN adds = 1 .. Len(adds)
      /\ \A i \in DOMAIN checks : checks[i] \in Requests
  BY LenProperties, ElementOf DEF CloudflareInv, CloudflareTypes
<1>3. /\ \A i \in DOMAIN checks : [checks[i] EXCEPT !.met = BOOLEAN] \in Requests
      /\ \A i \in DOMAIN checks : [checks[i] EXCEPT !.met = BOOLEAN].rev = checks[i].rev
  BY <1>2 DEF Requests
<1>4. checks' \in [1 .. Len(checks) -> Requests] /\ adds' \in [1 .. Len(adds) -> [met : SUBSET BOOLEAN]]
  BY <1>1, <1>2, <1>3
<1>5. checks' \in Seq(Requests) /\ adds' \in Seq([met : SUBSET BOOLEAN])
  BY <1>2, <1>4, ListOf
<1>6. DOMAIN checks' = DOMAIN checks /\ \A i \in DOMAIN checks : checks'[i].rev = checks[i].rev
  BY <1>1, <1>3
<1>7. (adds' = <<>>) => (adds = <<>>)
  BY <1>1, <1>2
<1>8. CloudflareTypes'
  BY <1>1, <1>5 DEF CloudflareInv, CloudflareTypes
<1>9. ChecksAreNumbered' /\ CheckingEnds' /\ NewestIsRight'
  BY <1>1, <1>6 DEF CloudflareInv, ChecksAreNumbered, CheckingEnds, NewestIsRight
<1>10. AddsMeetTheTruth'
  BY <1>1 DEF CloudflareInv, CloudflareTypes, AddsMeetTheTruth
<1>11. DialogsEnd'
  BY <1>1, <1>7 DEF CloudflareInv, DialogsEnd
<1> QED
  BY <1>8, <1>9, <1>10, <1>11 DEF CloudflareInv

\* The trip to Cloudflare touches no evidence.
LEMMA TripKeeps ==
  ASSUME CloudflareInv,
         Cloudflare!Connect \/ Cloudflare!Redirect \/ Cloudflare!ConnectFails \/ Cloudflare!GoAway
  PROVE  CloudflareInv'
<1>1. /\ UNCHANGED <<connected, revision, checks, addDialog, zoneLoads, adds, moved>>
      /\ authorizing' \in Nat /\ oauth' \in OauthStates
      /\ oauth'.checking = oauth.checking /\ oauth'.configured = oauth.configured
      /\ oauth'.statusError = oauth.statusError
      /\ oauth'.connecting => authorizing' > 0
  <2>1. authorizing \in Nat /\ oauth \in OauthStates /\ (oauth.connecting => authorizing > 0)
    BY DEF CloudflareInv, CloudflareTypes, DialogsEnd
  <2>2. CASE Cloudflare!Connect
    <3>1. oauth' = [oauth EXCEPT !.connecting = TRUE] /\ authorizing' = authorizing + 1
      BY <2>2 DEF Cloudflare!Connect
    <3>2. UNCHANGED <<connected, revision, checks, addDialog, zoneLoads, adds, moved>>
      BY <2>2 DEF Cloudflare!Connect, Cloudflare!addVars
    <3>3. oauth' \in OauthStates
          /\ oauth'.checking = oauth.checking /\ oauth'.configured = oauth.configured
          /\ oauth'.statusError = oauth.statusError
      BY <2>1, <3>1 DEF OauthStates
    <3>4. authorizing' \in Nat /\ authorizing' > 0
      BY <2>1, <3>1
    <3> QED
      BY <3>2, <3>3, <3>4
  <2>3. CASE Cloudflare!Redirect \/ Cloudflare!ConnectFails
    <3>1. /\ \/ oauth' = [oauth EXCEPT !.connecting = FALSE, !.redirecting = TRUE]
             \/ oauth' = [oauth EXCEPT !.connecting = FALSE, !.redirecting = FALSE]
          /\ authorizing > 0 /\ authorizing' = authorizing - 1
      BY <2>3 DEF Cloudflare!Redirect, Cloudflare!ConnectFails
    <3>2. UNCHANGED <<connected, revision, checks, addDialog, zoneLoads, adds, moved>>
      BY <2>3 DEF Cloudflare!Redirect, Cloudflare!ConnectFails, Cloudflare!addVars
    <3>3. oauth' \in OauthStates /\ oauth'.connecting = FALSE
          /\ oauth'.checking = oauth.checking /\ oauth'.configured = oauth.configured
          /\ oauth'.statusError = oauth.statusError
      BY <2>1, <3>1 DEF OauthStates
    <3> QED
      BY <2>1, <3>1, <3>2, <3>3
  <2>4. CASE Cloudflare!GoAway
    BY <2>1, <2>4 DEF Cloudflare!GoAway, Cloudflare!addVars
  <2> QED
    BY <2>2, <2>3, <2>4
<1>2. CloudflareTypes'
  BY <1>1 DEF CloudflareInv, CloudflareTypes
<1>3. AddsMeetTheTruth' /\ DialogsEnd'
  BY <1>1 DEF CloudflareInv, AddsMeetTheTruth, DialogsEnd
<1> QED
  BY <1>1, <1>2, <1>3, CloudflareRest

LEMMA CallbackKeeps == CloudflareInv /\ Cloudflare!HandleCallback => CloudflareInv'
<1> SUFFICES ASSUME CloudflareInv, Cloudflare!HandleCallback PROVE CloudflareInv'
  OBVIOUS
<1>1. CASE connected' = TRUE /\ Cloudflare!Mounted(TRUE)
  BY <1>1, MountedKeeps
<1>2. CASE UNCHANGED <<connected, oauth, revision, checks, authorizing, addDialog, zoneLoads, adds, moved>>
  <2>1. CloudflareTypes'
    BY <1>2 DEF CloudflareInv, CloudflareTypes
  <2>2. AddsMeetTheTruth' /\ DialogsEnd'
    BY <1>2 DEF CloudflareInv, AddsMeetTheTruth, DialogsEnd
  <2> QED
    BY <1>2, <2>1, <2>2, CloudflareRest
<1> QED
  BY <1>1, <1>2 DEF Cloudflare!HandleCallback, Cloudflare!addVars

\* The dialog that adds a domain, but for an answer that there is no connection.
LEMMA AddDialogKeeps ==
  ASSUME CloudflareInv,
         \/ Cloudflare!OpenAdd \/ Cloudflare!ZonesArrive \/ Cloudflare!SelectZone
         \/ Cloudflare!CloseAdd \/ Cloudflare!SubmitAdd \/ Cloudflare!AddAnswered
  PROVE  CloudflareInv'
<1>1. UNCHANGED <<connected, revision, checks, authorizing, moved, oauth>>
  BY DEF Cloudflare!OpenAdd, Cloudflare!ZonesArrive, Cloudflare!SelectZone, Cloudflare!CloseAdd,
         Cloudflare!SubmitAdd, Cloudflare!AddAnswered, Cloudflare!connectionVars
<1>2. /\ addDialog \in AddDialogs /\ zoneLoads \in Nat /\ adds \in Seq([met : SUBSET BOOLEAN])
      /\ DialogsEnd /\ AddsMeetTheTruth /\ connected \in BOOLEAN
  BY DEF CloudflareInv, CloudflareTypes
<1>3. CASE Cloudflare!OpenAdd
  <2>1. /\ addDialog' = [Cloudflare!NoDialog EXCEPT !.open = TRUE, !.loading = TRUE,
                                                   !.submitting = addDialog.submitting]
        /\ zoneLoads' = zoneLoads + 1 /\ adds' = adds
    BY <1>3 DEF Cloudflare!OpenAdd
  <2>2. addDialog' \in AddDialogs /\ addDialog'.submitting = addDialog.submitting
    BY <1>2, <2>1 DEF AddDialogs, Cloudflare!NoDialog
  <2>3. CloudflareTypes'
    BY <1>1, <1>2, <2>1, <2>2 DEF CloudflareInv, CloudflareTypes
  <2>4. DialogsEnd' /\ AddsMeetTheTruth'
    BY <1>1, <1>2, <2>1, <2>2 DEF DialogsEnd, AddsMeetTheTruth
  <2> QED
    BY <1>1, <2>3, <2>4, CloudflareRest
<1>4. CASE Cloudflare!ZonesArrive
  <2>1. /\ \/ addDialog' = [addDialog EXCEPT !.loading = FALSE, !.options = TRUE]
           \/ addDialog' = [addDialog EXCEPT !.loading = FALSE]
        /\ zoneLoads > 0 /\ zoneLoads' = zoneLoads - 1 /\ adds' = adds
    BY <1>4 DEF Cloudflare!ZonesArrive
  <2>2. addDialog' \in AddDialogs /\ addDialog'.submitting = addDialog.submitting
        /\ addDialog'.loading = FALSE
    BY <1>2, <2>1 DEF AddDialogs
  <2>3. CloudflareTypes'
    BY <1>1, <1>2, <2>1, <2>2 DEF CloudflareInv, CloudflareTypes
  <2>4. DialogsEnd' /\ AddsMeetTheTruth'
    BY <1>1, <1>2, <2>1, <2>2 DEF DialogsEnd, AddsMeetTheTruth
  <2> QED
    BY <1>1, <2>3, <2>4, CloudflareRest
<1>5. CASE Cloudflare!SelectZone \/ Cloudflare!CloseAdd
  <2>1. /\ \/ addDialog' = [addDialog EXCEPT !.selected = TRUE]
           \/ addDialog' = [addDialog EXCEPT !.open = FALSE]
        /\ zoneLoads' = zoneLoads /\ adds' = adds
    BY <1>5 DEF Cloudflare!SelectZone, Cloudflare!CloseAdd
  <2>2. addDialog' \in AddDialogs /\ addDialog'.submitting = addDialog.submitting
        /\ addDialog'.loading = addDialog.loading
    BY <1>2, <2>1 DEF AddDialogs
  <2>3. CloudflareTypes'
    BY <1>1, <1>2, <2>1, <2>2 DEF CloudflareInv, CloudflareTypes
  <2>4. DialogsEnd' /\ AddsMeetTheTruth'
    BY <1>1, <1>2, <2>1, <2>2 DEF DialogsEnd, AddsMeetTheTruth
  <2> QED
    BY <1>1, <2>3, <2>4, CloudflareRest
<1>6. CASE Cloudflare!SubmitAdd
  <2>1. /\ addDialog' = [addDialog EXCEPT !.submitting = TRUE]
        /\ adds' = Append(adds, [met |-> {connected}]) /\ zoneLoads' = zoneLoads
    BY <1>6 DEF Cloudflare!SubmitAdd
  <2>2. [met |-> {connected}] \in [met : SUBSET BOOLEAN]
    BY <1>2
  <2>3. /\ adds' \in Seq([met : SUBSET BOOLEAN]) /\ adds' # <<>>
        /\ \A i \in DOMAIN adds' : (i \in DOMAIN adds /\ adds'[i] = adds[i]) \/ adds'[i] = [met |-> {connected}]
    BY <1>2, <2>1, <2>2, Appended, AppendProperties
  <2>4. addDialog' \in AddDialogs /\ addDialog'.loading = addDialog.loading
    BY <1>2, <2>1 DEF AddDialogs
  <2>5. CloudflareTypes'
    BY <1>1, <1>2, <2>1, <2>3, <2>4 DEF CloudflareInv, CloudflareTypes
  <2>6. DialogsEnd' /\ AddsMeetTheTruth'
    BY <1>1, <1>2, <2>1, <2>3, <2>4 DEF DialogsEnd, AddsMeetTheTruth
  <2> QED
    BY <1>1, <2>5, <2>6, CloudflareRest
<1>7. CASE Cloudflare!AddAnswered
  <2>1. /\ \/ addDialog' = [addDialog EXCEPT !.submitting = FALSE, !.open = FALSE]
           \/ addDialog' = [addDialog EXCEPT !.submitting = FALSE]
        /\ adds # <<>> /\ adds' = Tail(adds) /\ zoneLoads' = zoneLoads
    BY <1>7 DEF Cloudflare!AddAnswered
  <2>2. /\ adds' \in Seq([met : SUBSET BOOLEAN])
        /\ \A i \in DOMAIN adds' : \E j \in DOMAIN adds : adds'[i] = adds[j]
    BY <1>2, <2>1, HeadTailProperties, LenProperties
  <2>3. addDialog' \in AddDialogs /\ addDialog'.loading = addDialog.loading
        /\ addDialog'.submitting = FALSE
    BY <1>2, <2>1 DEF AddDialogs
  <2>4. CloudflareTypes'
    BY <1>1, <1>2, <2>1, <2>2, <2>3 DEF CloudflareInv, CloudflareTypes
  <2>5. DialogsEnd' /\ AddsMeetTheTruth'
    BY <1>1, <1>2, <2>1, <2>2, <2>3 DEF DialogsEnd, AddsMeetTheTruth
  <2> QED
    BY <1>1, <2>4, <2>5, CloudflareRest
<1> QED
  BY <1>3, <1>4, <1>5, <1>6, <1>7

\* An error that overtakes the checks under way, and is right unless something has
\* changed since.
LEMMA AddNotConfiguredKeeps == CloudflareInv /\ Cloudflare!AddNotConfigured => CloudflareInv'
<1> SUFFICES ASSUME CloudflareInv, Cloudflare!AddNotConfigured PROVE CloudflareInv'
  OBVIOUS
<1>1. /\ adds # <<>> /\ adds' = Tail(adds)
      /\ revision' = revision + 1
      /\ oauth' = [oauth EXCEPT !.checking = FALSE, !.statusError = FALSE,
                                !.configured = FALSE, !.reconnect = TRUE]
      /\ moved' = (moved \/ Head(adds).met # {FALSE})
      /\ addDialog' = [addDialog EXCEPT !.submitting = FALSE, !.open = FALSE]
      /\ UNCHANGED <<connected, checks, authorizing, zoneLoads>>
  BY DEF Cloudflare!AddNotConfigured, Cloudflare!HandleOperationError
<1>2. /\ addDialog \in AddDialogs /\ oauth \in OauthStates /\ revision \in Nat
      /\ adds \in Seq([met : SUBSET BOOLEAN]) /\ connected \in BOOLEAN
      /\ checks \in Seq(Requests) /\ DialogsEnd /\ AddsMeetTheTruth
  BY DEF CloudflareInv, CloudflareTypes
<1>3. /\ adds' \in Seq([met : SUBSET BOOLEAN])
      /\ \A i \in DOMAIN adds' : \E j \in DOMAIN adds : adds'[i] = adds[j]
      /\ Head(adds) = adds[1] /\ 1 \in DOMAIN adds
  BY <1>1, <1>2, HeadTailProperties, LenProperties
<1>4. /\ addDialog' \in AddDialogs /\ addDialog'.loading = addDialog.loading
      /\ addDialog'.submitting = FALSE
  BY <1>1, <1>2 DEF AddDialogs
<1>5. /\ oauth' \in OauthStates /\ oauth'.connecting = oauth.connecting
      /\ oauth'.checking = FALSE /\ oauth'.configured = FALSE
  BY <1>1, <1>2 DEF OauthStates
<1>6. CloudflareTypes'
  BY <1>1, <1>2, <1>3, <1>4, <1>5 DEF CloudflareInv, CloudflareTypes
<1>7. ChecksAreNumbered' /\ \A i \in DOMAIN checks' : checks'[i].rev # revision'
  <2>1. \A i \in DOMAIN checks : checks[i].rev <= revision /\ checks[i].rev \in Nat
    <3>1. \A i \in DOMAIN checks : checks[i] \in Requests
      BY <1>2, ElementOf
    <3> QED
      BY <3>1 DEF CloudflareInv, ChecksAreNumbered, Requests
  <2> QED
    BY <1>1, <1>2, <2>1 DEF ChecksAreNumbered
<1>8. NewestIsRight'
  <2>1. ~moved' => connected = FALSE
    BY <1>1, <1>2, <1>3 DEF AddsMeetTheTruth
  <2> QED
    BY <1>1, <1>5, <1>7, <2>1 DEF NewestIsRight
<1>9. CheckingEnds'
  BY <1>5, ScreensAssumption DEF CheckingEnds
<1>10. DialogsEnd' /\ AddsMeetTheTruth'
  BY <1>1, <1>2, <1>3, <1>4, <1>5 DEF DialogsEnd, AddsMeetTheTruth
<1> QED
  BY <1>6, <1>7, <1>8, <1>9, <1>10 DEF CloudflareInv

LEMMA CloudflareSteps == CloudflareInv /\ Cloudflare!Next => CloudflareInv'
<1> SUFFICES ASSUME CloudflareInv, Cloudflare!Next PROVE CloudflareInv'
  OBVIOUS
<1>1. CASE Cloudflare!ReturnToDomains
  <2>1. Cloudflare!Mounted(connected) /\ connected' = connected /\ connected \in BOOLEAN
    BY <1>1 DEF Cloudflare!ReturnToDomains, CloudflareInv, CloudflareTypes
  <2> QED
    BY <2>1, MountedKeeps
<1> QED
  BY <1>1, CheckArrivesKeeps, CheckFailsKeeps, CheckAgainKeeps, ConnectionChangesKeeps, TripKeeps,
     PageShowKeeps, CallbackKeeps, AddDialogKeeps, AddNotConfiguredKeeps DEF Cloudflare!Next

LEMMA CloudflareStays ==
  ASSUME CloudflareInv, UNCHANGED <<cloudflareState>>
  PROVE  CloudflareInv'
BY DEF CloudflareInv, cloudflareState, CloudflareTypes, ChecksAreNumbered, NewestIsRight,
       AddsMeetTheTruth, CheckingEnds, DialogsEnd

LEMMA CloudflareHolds ==
  CloudflareInv => Cloudflare!NewestEvidence /\ Cloudflare!StatusSettles
<1> SUFFICES ASSUME CloudflareInv PROVE Cloudflare!NewestEvidence /\ Cloudflare!StatusSettles
  OBVIOUS
<1>1. Cloudflare!StatusSettles
  BY DEF CloudflareInv, CheckingEnds, DialogsEnd, Cloudflare!StatusSettles
<1>2. Cloudflare!NewestEvidence
  BY DEF CloudflareInv, NewestIsRight, Cloudflare!NewestEvidence
<1> QED
  BY <1>1, <1>2

-----------------------------------------------------------------------------
(* The panels with DNS records                                             *)

GroupStatus == {"pending", "incorrect", "checking", "correct", "notFound", "error"}
PanelStates == [status : {"closed", "loading", "ready", "error"}, groups : Seq(GroupStatus)]
Lookups == [of : Panels, rev : Nat, at : Nat, goesOn : BOOLEAN]
DnsTypes ==
  /\ panels \in [Panels -> PanelStates]
  /\ revisions \in [Panels -> Nat]
  /\ lookups \in Seq(Lookups)
  /\ opened \subseteq Panels

\* Lookup i of ls is one of panel p that has not been overtaken.
LiveLookup(ls, p, now, i) == i \in DOMAIN ls /\ ls[i].of = p /\ ls[i].rev = now

\* What a panel and its lookups know of each other: where a lookup is, and that none
\* but the one that goes on through the groups has groups ahead of it to do.
LookupsFit(ls, p, panel, now) ==
  \A i : LiveLookup(ls, p, now, i) =>
    /\ ls[i].at = 0 => /\ panel.status = "loading" /\ ls[i].goesOn
                       /\ \A j : LiveLookup(ls, p, now, j) => j = i
    /\ ls[i].at # 0 => ls[i].at \in DOMAIN panel.groups /\ panel.groups[ls[i].at] = "checking"
    /\ ls[i].goesOn => \A g \in DOMAIN panel.groups :
                         g > ls[i].at => panel.groups[g] \in {"pending", "incorrect"}
LookupsApart(ls, p, now) ==
  \A i, j : LiveLookup(ls, p, now, i) /\ LiveLookup(ls, p, now, j)
            /\ (ls[i].at = ls[j].at \/ (ls[i].goesOn /\ ls[j].goesOn)) => i = j
GroupsAwaited(ls, p, panel, now) ==
  /\ panel.status = "loading" => \E i : LiveLookup(ls, p, now, i) /\ ls[i].at = 0
  /\ \A g \in DOMAIN panel.groups :
       /\ panel.groups[g] = "checking" => \E i : LiveLookup(ls, p, now, i) /\ ls[i].at = g
       /\ panel.groups[g] = "pending" =>
            \E i : LiveLookup(ls, p, now, i) /\ ls[i].goesOn /\ ls[i].at < g
PanelSound(ls, p, panel, now) ==
  /\ LookupsFit(ls, p, panel, now) /\ LookupsApart(ls, p, now)
  /\ GroupsAwaited(ls, p, panel, now)
  /\ panel.status # "ready" => panel.groups = <<>>

LookupsAreNumbered == \A i \in DOMAIN lookups : lookups[i].rev <= revisions[lookups[i].of]
DnsInv ==
  /\ DnsTypes /\ LookupsAreNumbered
  /\ \A p \in Panels : /\ panels[p].status # "closed" <=> p \in opened
                       /\ PanelSound(lookups, p, panels[p], revisions[p])

\* A panel does not notice what happens to the lookups of others.
LEMMA SameLookups ==
  ASSUME NEW a, NEW b, NEW p, NEW panel, NEW now, NEW f,
         \A j : LiveLookup(b, p, now, j) => LiveLookup(a, p, now, f[j]) /\ b[j] = a[f[j]],
         \A j, k : LiveLookup(b, p, now, j) /\ LiveLookup(b, p, now, k) /\ f[j] = f[k] => j = k,
         \A k : LiveLookup(a, p, now, k) => \E j : LiveLookup(b, p, now, j) /\ f[j] = k,
         PanelSound(a, p, panel, now)
  PROVE  PanelSound(b, p, panel, now)
<1>1. LookupsFit(b, p, panel, now)
  <2> SUFFICES ASSUME NEW i, LiveLookup(b, p, now, i)
               PROVE
    /\ b[i].at = 0 => /\ panel.status = "loading" /\ b[i].goesOn
                       /\ \A j : LiveLookup(b, p, now, j) => j = i
    /\ b[i].at # 0 => b[i].at \in DOMAIN panel.groups /\ panel.groups[b[i].at] = "checking"
    /\ b[i].goesOn => \A g \in DOMAIN panel.groups :
                         g > b[i].at => panel.groups[g] \in {"pending", "incorrect"}
    BY DEF LookupsFit
  <2>1. LiveLookup(a, p, now, f[i]) /\ b[i] = a[f[i]]
    OBVIOUS
  <2>2. /\ a[f[i]].at = 0 => /\ panel.status = "loading" /\ a[f[i]].goesOn
                             /\ \A j : LiveLookup(a, p, now, j) => j = f[i]
        /\ a[f[i]].at # 0 => /\ a[f[i]].at \in DOMAIN panel.groups
                             /\ panel.groups[a[f[i]].at] = "checking"
        /\ a[f[i]].goesOn => \A g \in DOMAIN panel.groups :
                         g > a[f[i]].at => panel.groups[g] \in {"pending", "incorrect"}
    BY <2>1 DEF PanelSound, LookupsFit
  <2>3. ASSUME a[f[i]].at = 0, NEW j, LiveLookup(b, p, now, j)
        PROVE  j = i
    <3>1. f[j] = f[i]
      BY <2>2, <2>3
    <3> QED
      BY <3>1, <2>3
  <2> QED
    BY <2>1, <2>2, <2>3
<1>2. LookupsApart(b, p, now)
  <2> SUFFICES ASSUME NEW i, NEW j, LiveLookup(b, p, now, i), LiveLookup(b, p, now, j),
                      b[i].at = b[j].at \/ (b[i].goesOn /\ b[j].goesOn)
               PROVE  i = j
    BY DEF LookupsApart
  <2>1. /\ LiveLookup(a, p, now, f[i]) /\ b[i] = a[f[i]]
        /\ LiveLookup(a, p, now, f[j]) /\ b[j] = a[f[j]]
    OBVIOUS
  <2>2. f[i] = f[j]
    BY <2>1 DEF PanelSound, LookupsApart
  <2> QED
    BY <2>2
<1>3. GroupsAwaited(b, p, panel, now)
  BY DEF PanelSound, GroupsAwaited
<1> QED
  BY <1>1, <1>2, <1>3 DEF PanelSound

LEMMA AllButOneLookup ==
  ASSUME DnsInv, NEW i \in DOMAIN lookups, NEW others, others = Dns!Without(lookups, i),
         NEW p \in Panels, NEW now,
         ~LiveLookup(lookups, p, now, i)
  PROVE  PanelSound(lookups, p, panels[p], now) => PanelSound(others, p, panels[p], now)
<1> DEFINE f == [j \in DOMAIN others |-> Place(i, j)]
<1>1. others = Without(lookups, i)
  BY DEF Dns!Without, Without
<1>2. /\ \A j \in DOMAIN others : /\ f[j] \in DOMAIN lookups /\ f[j] # i
                                  /\ others[j] = lookups[f[j]]
      /\ \A j, k \in DOMAIN others : f[j] = f[k] => j = k
      /\ \A k \in DOMAIN lookups : k # i => \E j \in DOMAIN others : f[j] = k
  BY <1>1, RemovedPlaces DEF DnsInv, DnsTypes
<1> HIDE DEF f
<1>3. \A j : LiveLookup(others, p, now, j) =>
              LiveLookup(lookups, p, now, f[j]) /\ others[j] = lookups[f[j]]
  BY <1>2 DEF LiveLookup
<1>4. \A j, k : LiveLookup(others, p, now, j) /\ LiveLookup(others, p, now, k) /\ f[j] = f[k] => j = k
  BY <1>2 DEF LiveLookup
<1>5. \A k : LiveLookup(lookups, p, now, k) => \E j : LiveLookup(others, p, now, j) /\ f[j] = k
  <2> SUFFICES ASSUME NEW k, LiveLookup(lookups, p, now, k)
               PROVE  \E j : LiveLookup(others, p, now, j) /\ f[j] = k
    OBVIOUS
  <2>1. k \in DOMAIN lookups /\ k # i
    BY DEF LiveLookup
  <2>2. PICK j \in DOMAIN others : f[j] = k
    BY <1>2, <2>1
  <2>3. LiveLookup(others, p, now, j)
    BY <1>2, <2>2 DEF LiveLookup
  <2> QED
    BY <2>2, <2>3
<1> QED
  BY <1>3, <1>4, <1>5, SameLookups

\* A lookup that begins is not noticed by other panels, nor by its own once that is
\* a revision ahead.
LEMMA OneMoreLookup ==
  ASSUME DnsInv, NEW ls \in Seq(Lookups), NEW l \in Lookups, NEW p \in Panels, NEW now,
         NEW panel, ~(l.of = p /\ l.rev = now)
  PROVE  PanelSound(ls, p, panel, now) => PanelSound(Append(ls, l), p, panel, now)
<1> DEFINE b == Append(ls, l)
           f == [j \in DOMAIN b |-> j]
<1>1. /\ \A j \in DOMAIN ls : j \in DOMAIN b /\ b[j] = ls[j]
      /\ \A j \in DOMAIN b : j \in DOMAIN ls \/ b[j] = l
  BY Appended
<1>2. \A j \in DOMAIN b : f[j] = j
  OBVIOUS
<1> HIDE DEF b, f
<1>3. \A j : LiveLookup(b, p, now, j) <=> LiveLookup(ls, p, now, j)
  BY <1>1 DEF LiveLookup
<1>4. \A j : LiveLookup(b, p, now, j) => LiveLookup(ls, p, now, f[j]) /\ b[j] = ls[f[j]]
  BY <1>1, <1>2, <1>3 DEF LiveLookup
<1>5. \A j, k : LiveLookup(b, p, now, j) /\ LiveLookup(b, p, now, k) /\ f[j] = f[k] => j = k
  BY <1>2 DEF LiveLookup
<1>6. \A k : LiveLookup(ls, p, now, k) => \E j : LiveLookup(b, p, now, j) /\ f[j] = k
  BY <1>2, <1>3 DEF LiveLookup
<1>7. PanelSound(ls, p, panel, now) => PanelSound(b, p, panel, now)
  BY <1>4, <1>5, <1>6, SameLookups
<1> QED
  BY <1>7 DEF b

\* A panel that nothing was begun for yet, or that was closed.
LEMMA NothingLive ==
  ASSUME NEW ls, NEW p, NEW now, NEW status \in {"closed", "error"},
         \A i : ~LiveLookup(ls, p, now, i)
  PROVE  PanelSound(ls, p, [status |-> status, groups |-> <<>>], now)
BY DEF PanelSound, LookupsFit, LookupsApart, GroupsAwaited

\* No lookup is of a revision still to come.
LEMMA NothingAhead ==
  ASSUME DnsInv, NEW p \in Panels
  PROVE  \A i : ~LiveLookup(lookups, p, revisions[p] + 1, i)
<1> SUFFICES ASSUME NEW i, LiveLookup(lookups, p, revisions[p] + 1, i)
             PROVE  FALSE
  OBVIOUS
<1>1. lookups[i].rev <= revisions[p] /\ lookups[i].rev = revisions[p] + 1
  BY DEF LiveLookup, DnsInv, LookupsAreNumbered
<1>2. revisions[p] \in Nat
  BY DEF DnsInv, DnsTypes
<1> QED
  BY <1>1, <1>2

LEMMA DnsStarts == Dns!Init => DnsInv
<1> SUFFICES ASSUME Dns!Init PROVE DnsInv
  OBVIOUS
<1>1. panels = [p \in Panels |-> Dns!Closed] /\ revisions = [p \in Panels |-> 0]
      /\ lookups = <<>> /\ opened = {}
  BY DEF Dns!Init
<1>2. Dns!Closed \in PanelStates /\ Dns!Closed = [status |-> "closed", groups |-> <<>>]
  <2>1. <<>> \in Seq(GroupStatus)
    BY EmptySeq
  <2> QED
    BY <2>1 DEF PanelStates, Dns!Closed
<1>3. <<>> \in Seq(Lookups)
  BY EmptySeq
<1>4. DnsTypes
  BY <1>1, <1>2, <1>3 DEF DnsTypes
<1>5. ASSUME NEW p \in Panels
      PROVE  PanelSound(lookups, p, panels[p], revisions[p])
  <2>1. \A i : ~LiveLookup(lookups, p, revisions[p], i)
    BY <1>1 DEF LiveLookup
  <2> QED
    BY <1>1, <1>2, <2>1, NothingLive
<1> QED
  BY <1>1, <1>2, <1>4, <1>5 DEF DnsInv, LookupsAreNumbered

LEMMA DnsOpenKeeps == DnsInv /\ Dns!Open => DnsInv'
<1> SUFFICES ASSUME DnsInv, Dns!Open PROVE DnsInv'
  OBVIOUS
<1>1. PICK p \in Panels :
       /\ panels[p].status = "closed"
       /\ revisions' = [revisions EXCEPT ![p] = @ + 1]
       /\ lookups' = Append(lookups, Dns!Lookup(p, revisions[p] + 1, 0, TRUE))
       /\ panels' = [panels EXCEPT ![p].status = "loading"]
       /\ opened' = opened \cup {p}
  BY DEF Dns!Open
<1> DEFINE l == Dns!Lookup(p, revisions[p] + 1, 0, TRUE)
<1>2. /\ panels \in [Panels -> PanelStates] /\ revisions \in [Panels -> Nat]
      /\ lookups \in Seq(Lookups) /\ opened \subseteq Panels
      /\ LookupsAreNumbered
      /\ \A q \in Panels : (panels[q].status # "closed" <=> q \in opened)
                           /\ PanelSound(lookups, q, panels[q], revisions[q])
  BY DEF DnsInv, DnsTypes
<1>3. l \in Lookups /\ l.of = p /\ l.rev = revisions[p] + 1 /\ l.at = 0 /\ l.goesOn = TRUE
  BY <1>2 DEF Dns!Lookup, Lookups
<1>4. lookups' = Append(lookups, l)
  BY <1>1
<1> HIDE DEF l
<1>5. /\ panels' \in [Panels -> PanelStates] /\ panels'[p].status = "loading"
      /\ panels'[p].groups = panels[p].groups
      /\ \A q \in Panels : q # p => panels'[q] = panels[q]
  BY <1>1, <1>2 DEF PanelStates
<1>6. panels[p].groups = <<>>
  BY <1>1, <1>2 DEF PanelSound
<1>7. /\ revisions' \in [Panels -> Nat] /\ revisions'[p] = revisions[p] + 1
      /\ \A q \in Panels : q # p => revisions'[q] = revisions[q]
  BY <1>1, <1>2
<1>8. /\ lookups' \in Seq(Lookups)
      /\ \A j \in DOMAIN lookups : j \in DOMAIN lookups' /\ lookups'[j] = lookups[j]
      /\ \A j \in DOMAIN lookups' : j \in DOMAIN lookups \/ (j = Len(lookups) + 1 /\ lookups'[j] = l)
      /\ Len(lookups) + 1 \in DOMAIN lookups' /\ lookups'[Len(lookups) + 1] = l
  BY <1>2, <1>3, <1>4, Appended
<1>9. DnsTypes'
  BY <1>1, <1>2, <1>5, <1>7, <1>8 DEF DnsTypes
<1>10. LookupsAreNumbered'
  <2> SUFFICES ASSUME NEW i \in DOMAIN lookups'
               PROVE  lookups'[i].rev <= revisions'[lookups'[i].of]
    BY DEF LookupsAreNumbered
  <2>1. CASE i \in DOMAIN lookups
    <3>1. lookups[i] \in Lookups /\ lookups[i].rev <= revisions[lookups[i].of]
      BY <1>2, <2>1, ElementOf DEF LookupsAreNumbered
    <3>2. lookups[i].of \in Panels /\ lookups[i].rev \in Nat
      BY <3>1 DEF Lookups
    <3>3. revisions[lookups[i].of] \in Nat /\ revisions'[lookups[i].of] \in Nat
          /\ revisions'[lookups[i].of] >= revisions[lookups[i].of]
      <4>1. \A q \in Panels : revisions[q] \in Nat /\ revisions'[q] \in Nat
        BY <1>2, <1>7
      <4>2. CASE lookups[i].of = p
        BY <1>7, <3>2, <4>1, <4>2
      <4>3. CASE lookups[i].of # p
        BY <1>7, <3>2, <4>1, <4>3
      <4> QED
        BY <4>2, <4>3
    <3>4. lookups'[i] = lookups[i]
      BY <1>8, <2>1
    <3> QED
      BY <3>1, <3>2, <3>3, <3>4
  <2>2. CASE lookups'[i] = l
    BY <1>2, <1>3, <1>7, <2>2
  <2> QED
    BY <1>8, <2>1, <2>2
<1>11. ASSUME NEW q \in Panels, q # p
       PROVE  PanelSound(lookups', q, panels'[q], revisions'[q])
  <2>1. PanelSound(lookups, q, panels[q], revisions[q])
    BY <1>2
  <2>2. PanelSound(Append(lookups, l), q, panels[q], revisions[q])
    BY <1>2, <1>3, <1>11, <2>1, OneMoreLookup
  <2> QED
    BY <1>4, <1>5, <1>7, <1>11, <2>2
<1>12. \A i : LiveLookup(lookups', p, revisions'[p], i) <=> i = Len(lookups) + 1
  <2>1. \A i : ~LiveLookup(lookups, p, revisions[p] + 1, i)
    BY NothingAhead
  <2> QED
    BY <1>3, <1>7, <1>8, <2>1 DEF LiveLookup
<1>13. PanelSound(lookups', p, panels'[p], revisions'[p])
  <2>1. lookups'[Len(lookups) + 1].at = 0 /\ lookups'[Len(lookups) + 1].goesOn = TRUE
    BY <1>3, <1>8
  <2>2. LookupsFit(lookups', p, panels'[p], revisions'[p])
    BY <1>5, <1>6, <1>12, <2>1 DEF LookupsFit
  <2>3. LookupsApart(lookups', p, revisions'[p])
    BY <1>12 DEF LookupsApart
  <2>4. GroupsAwaited(lookups', p, panels'[p], revisions'[p])
    BY <1>5, <1>6, <1>12, <2>1 DEF GroupsAwaited
  <2> QED
    BY <1>5, <1>6, <2>2, <2>3, <2>4 DEF PanelSound
<1>14. \A q \in Panels : panels'[q].status # "closed" <=> q \in opened'
  BY <1>1, <1>2, <1>5
<1> QED
  BY <1>9, <1>10, <1>11, <1>13, <1>14 DEF DnsInv

LEMMA DnsCloseKeeps == DnsInv /\ Dns!Close => DnsInv'
<1> SUFFICES ASSUME DnsInv, Dns!Close PROVE DnsInv'
  OBVIOUS
<1>1. PICK p \in Panels :
       /\ panels' = [panels EXCEPT ![p] = Dns!Closed]
       /\ revisions' = [revisions EXCEPT ![p] = @ + 1]
       /\ opened' = opened \ {p}
  BY DEF Dns!Close, Dns!Collapse
<1>2. /\ panels \in [Panels -> PanelStates] /\ revisions \in [Panels -> Nat]
      /\ lookups \in Seq(Lookups) /\ opened \subseteq Panels
      /\ LookupsAreNumbered
      /\ \A q \in Panels : (panels[q].status # "closed" <=> q \in opened)
                           /\ PanelSound(lookups, q, panels[q], revisions[q])
  BY DEF DnsInv, DnsTypes
<1>3. lookups' = lookups
  BY DEF Dns!Close
<1>4. Dns!Closed \in PanelStates /\ Dns!Closed = [status |-> "closed", groups |-> <<>>]
  <2>1. <<>> \in Seq(GroupStatus)
    BY EmptySeq
  <2> QED
    BY <2>1 DEF PanelStates, Dns!Closed
<1>5. /\ panels' \in [Panels -> PanelStates] /\ panels'[p] = Dns!Closed
      /\ \A q \in Panels : q # p => panels'[q] = panels[q]
      /\ revisions' \in [Panels -> Nat] /\ revisions'[p] = revisions[p] + 1
      /\ \A q \in Panels : q # p => revisions'[q] = revisions[q]
  BY <1>1, <1>2, <1>4
<1>6. DnsTypes'
  BY <1>1, <1>2, <1>3, <1>5 DEF DnsTypes
<1>7. LookupsAreNumbered'
  <2> SUFFICES ASSUME NEW i \in DOMAIN lookups
               PROVE  lookups[i].rev <= revisions'[lookups[i].of]
    BY <1>3 DEF LookupsAreNumbered
  <2>1. lookups[i] \in Lookups /\ lookups[i].rev <= revisions[lookups[i].of]
    BY <1>2, ElementOf DEF LookupsAreNumbered
  <2>2. lookups[i].of \in Panels /\ lookups[i].rev \in Nat
    BY <2>1 DEF Lookups
  <2>3. \A q \in Panels : revisions[q] \in Nat /\ revisions'[q] \in Nat
    BY <1>2, <1>5
  <2>4. CASE lookups[i].of = p
    BY <1>5, <2>1, <2>2, <2>3, <2>4
  <2>5. CASE lookups[i].of # p
    BY <1>5, <2>1, <2>2, <2>3, <2>5
  <2> QED
    BY <2>4, <2>5
<1>8. PanelSound(lookups', p, panels'[p], revisions'[p])
  <2>1. \A i : ~LiveLookup(lookups', p, revisions'[p], i)
    BY <1>3, <1>5, NothingAhead
  <2> QED
    BY <1>4, <1>5, <2>1, NothingLive
<1>9. \A q \in Panels : q # p => PanelSound(lookups', q, panels'[q], revisions'[q])
  BY <1>2, <1>3, <1>5
<1>10. \A q \in Panels : panels'[q].status # "closed" <=> q \in opened'
  BY <1>1, <1>2, <1>4, <1>5
<1> QED
  BY <1>6, <1>7, <1>8, <1>9, <1>10 DEF DnsInv

\* A lookup that has been overtaken ends, and nothing else happens.
LEMMA OvertakenEnds ==
  ASSUME DnsInv, NEW i \in DOMAIN lookups, ~Dns!Current(lookups[i]),
         lookups' = Dns!Without(lookups, i), UNCHANGED <<panels, revisions, opened>>
  PROVE  DnsInv'
<1>1. lookups' = Without(lookups, i)
  BY DEF Dns!Without, Without
<1>2. lookups \in Seq(Lookups)
  BY DEF DnsInv, DnsTypes
<1>3. /\ lookups' \in Seq(Lookups)
      /\ \A j \in DOMAIN lookups' : \E k \in DOMAIN lookups : lookups'[j] = lookups[k]
  BY <1>1, <1>2, RemovedOne
<1>4. DnsTypes' /\ LookupsAreNumbered'
  BY <1>3 DEF DnsInv, DnsTypes, LookupsAreNumbered
<1>5. ASSUME NEW p \in Panels
      PROVE  PanelSound(lookups', p, panels'[p], revisions'[p])
  <2>1. PanelSound(lookups, p, panels[p], revisions[p])
    BY DEF DnsInv
  <2>2. ~LiveLookup(lookups, p, revisions[p], i)
    BY DEF Dns!Current, LiveLookup
  <2>3. PanelSound(lookups', p, panels[p], revisions[p])
    BY <2>1, <2>2, AllButOneLookup
  <2> QED
    BY <2>3
<1>6. \A p \in Panels : panels'[p].status # "closed" <=> p \in opened'
  BY DEF DnsInv
<1> QED
  BY <1>4, <1>5, <1>6 DEF DnsInv

\* A lookup that is current ends, and its panel changes: only that is to be looked at.
LEMMA CurrentEnds ==
  ASSUME DnsInv, NEW i \in DOMAIN lookups, NEW p \in Panels, p = lookups[i].of,
         NEW others, others = Dns!Without(lookups, i),
         \/ lookups' = others
         \/ \E l \in Lookups : l.of = p /\ l.rev = lookups[i].rev /\ lookups' = Append(others, l),
         NEW panel \in PanelStates, panels' = [panels EXCEPT ![p] = panel],
         panel.status # "closed", p \in opened,
         UNCHANGED <<revisions, opened>>,
         PanelSound(lookups', p, panel, revisions[p])
  PROVE  DnsInv'
<1>1. others = Without(lookups, i)
  BY DEF Dns!Without, Without
<1>2. /\ panels \in [Panels -> PanelStates] /\ revisions \in [Panels -> Nat]
      /\ lookups \in Seq(Lookups) /\ LookupsAreNumbered
  BY DEF DnsInv, DnsTypes
<1>3. /\ others \in Seq(Lookups)
      /\ \A j \in DOMAIN others : \E k \in DOMAIN lookups : others[j] = lookups[k]
  BY <1>1, <1>2, RemovedOne
<1>4. /\ panels' \in [Panels -> PanelStates] /\ panels'[p] = panel
      /\ \A q \in Panels : q # p => panels'[q] = panels[q]
  BY <1>2
<1>5. /\ lookups' \in Seq(Lookups)
      /\ \A j \in DOMAIN lookups' : \E k \in DOMAIN lookups :
           lookups'[j].of = lookups[k].of /\ lookups'[j].rev = lookups[k].rev
  <2>1. CASE lookups' = others
    BY <1>3, <2>1
  <2>2. ASSUME NEW l \in Lookups, l.of = p, l.rev = lookups[i].rev, lookups' = Append(others, l)
        PROVE  /\ lookups' \in Seq(Lookups)
               /\ \A j \in DOMAIN lookups' : \E k \in DOMAIN lookups :
                    lookups'[j].of = lookups[k].of /\ lookups'[j].rev = lookups[k].rev
    <3>1. /\ lookups' \in Seq(Lookups)
          /\ \A j \in DOMAIN others : lookups'[j] = others[j]
          /\ \A j \in DOMAIN lookups' : j \in DOMAIN others \/ lookups'[j] = l
      BY <1>3, <2>2, Appended
    <3> QED
      BY <1>3, <2>2, <3>1
  <2> QED
    BY <2>1, <2>2
<1>6. DnsTypes' /\ LookupsAreNumbered'
  BY <1>2, <1>4, <1>5 DEF DnsInv, DnsTypes, LookupsAreNumbered
<1>7. ASSUME NEW q \in Panels, q # p
      PROVE  PanelSound(lookups', q, panels'[q], revisions'[q])
  <2>1. PanelSound(lookups, q, panels[q], revisions[q])
    BY DEF DnsInv
  <2>2. ~LiveLookup(lookups, q, revisions[q], i)
    BY <1>7 DEF LiveLookup
  <2>3. PanelSound(others, q, panels[q], revisions[q])
    BY <2>1, <2>2, AllButOneLookup
  <2>4. ASSUME NEW l \in Lookups, l.of = p
        PROVE  PanelSound(Append(others, l), q, panels[q], revisions[q])
    BY <1>3, <1>7, <2>3, <2>4, OneMoreLookup
  <2>5. PanelSound(lookups', q, panels[q], revisions[q])
    BY <2>3, <2>4
  <2> QED
    BY <1>4, <1>7, <2>5
<1>8. \A q \in Panels : panels'[q].status # "closed" <=> q \in opened'
  BY <1>4 DEF DnsInv
<1> QED
  BY <1>4, <1>6, <1>7, <1>8 DEF DnsInv

\* The coroutine i has found what it looked for and goes on, or ends: its panel shows
\* the groups, in which the other lookups are as they were.
LEMMA GoesOnKeeps ==
  ASSUME DnsInv, NEW i \in DOMAIN lookups, NEW l, l = lookups[i], NEW p, p = l.of,
         l.rev = revisions[p], NEW others, others = Dns!Without(lookups, i),
         NEW groups \in Seq(GroupStatus),
         \A g \in DOMAIN groups : l.goesOn /\ g > l.at => groups[g] \in {"pending", "incorrect"},
         \A j : LiveLookup(lookups, p, revisions[p], j) /\ j # i =>
           /\ lookups[j].at # 0 /\ lookups[j].at \in DOMAIN groups
           /\ groups[lookups[j].at] = "checking"
           /\ ~(lookups[j].goesOn /\ l.goesOn)
           /\ lookups[j].goesOn => \A g \in DOMAIN groups :
                g > lookups[j].at => groups[g] \in {"pending", "incorrect"},
         \A g \in DOMAIN groups :
           /\ groups[g] = "checking" =>
                \E j : j # i /\ LiveLookup(lookups, p, revisions[p], j) /\ lookups[j].at = g
           /\ groups[g] = "pending" =>
                \/ l.goesOn /\ g > l.at
                \/ \E j : /\ j # i /\ LiveLookup(lookups, p, revisions[p], j)
                          /\ lookups[j].goesOn /\ lookups[j].at < g,
         Dns!GoOn(l, groups, others), UNCHANGED <<revisions, opened>>
  PROVE  DnsInv'
<1> DEFINE now == revisions[p]
           f == [j \in DOMAIN others |-> Place(i, j)]
<1>1. /\ panels \in [Panels -> PanelStates] /\ revisions \in [Panels -> Nat]
      /\ lookups \in Seq(Lookups) /\ LookupsAreNumbered
  BY DEF DnsInv, DnsTypes
<1>2. l \in Lookups /\ p \in Panels /\ now \in Nat /\ l.at \in Nat /\ l.goesOn \in BOOLEAN
  <2>1. l \in Lookups
    BY <1>1, ElementOf
  <2> QED
    BY <1>1, <2>1 DEF Lookups
<1>3. LookupsFit(lookups, p, panels[p], now) /\ LookupsApart(lookups, p, now)
  BY <1>2 DEF DnsInv, PanelSound
<1>4. others = Without(lookups, i)
  BY DEF Dns!Without, Without
<1>5. /\ others \in Seq(Lookups)
      /\ \A j \in DOMAIN others : /\ f[j] \in DOMAIN lookups /\ f[j] # i
                                  /\ others[j] = lookups[f[j]]
      /\ \A j, k \in DOMAIN others : f[j] = f[k] => j = k
      /\ \A k \in DOMAIN lookups : k # i => \E j \in DOMAIN others : f[j] = k
  BY <1>1, <1>4, RemovedPlaces
<1> HIDE DEF f
<1>6. /\ \A j : LiveLookup(others, p, now, j) =>
                  j \in DOMAIN others /\ LiveLookup(lookups, p, now, f[j]) /\ f[j] # i
                  /\ others[j] = lookups[f[j]]
      /\ \A k : LiveLookup(lookups, p, now, k) /\ k # i =>
                  \E j : LiveLookup(others, p, now, j) /\ others[j] = lookups[k]
  <2>1. \A j : LiveLookup(others, p, now, j) =>
                  j \in DOMAIN others /\ LiveLookup(lookups, p, now, f[j]) /\ f[j] # i
                  /\ others[j] = lookups[f[j]]
    BY <1>5 DEF LiveLookup
  <2>2. ASSUME NEW k, LiveLookup(lookups, p, now, k), k # i
        PROVE  \E j : LiveLookup(others, p, now, j) /\ others[j] = lookups[k]
    <3>1. k \in DOMAIN lookups
      BY <2>2 DEF LiveLookup
    <3>2. PICK j \in DOMAIN others : f[j] = k
      BY <1>5, <2>2, <3>1
    <3>3. LiveLookup(others, p, now, j) /\ others[j] = lookups[k]
      BY <1>5, <2>2, <3>2 DEF LiveLookup
    <3> QED
      BY <3>3
  <2> QED
    BY <2>1, <2>2
<1>7. \A j : LiveLookup(others, p, now, j) =>
           /\ others[j].at # 0 /\ others[j].at \in DOMAIN groups
           /\ groups[others[j].at] = "checking"
           /\ ~(others[j].goesOn /\ l.goesOn)
           /\ others[j].goesOn => \A g \in DOMAIN groups :
                g > others[j].at => groups[g] \in {"pending", "incorrect"}
  BY <1>6
<1>8. LookupsApart(others, p, now)
  <2> SUFFICES ASSUME NEW j, NEW k, LiveLookup(others, p, now, j), LiveLookup(others, p, now, k),
                      others[j].at = others[k].at \/ (others[j].goesOn /\ others[k].goesOn)
               PROVE  j = k
    BY DEF LookupsApart
  <2>1. /\ j \in DOMAIN others /\ LiveLookup(lookups, p, now, f[j]) /\ others[j] = lookups[f[j]]
        /\ k \in DOMAIN others /\ LiveLookup(lookups, p, now, f[k]) /\ others[k] = lookups[f[k]]
    BY <1>6
  <2>2. \/ lookups[f[j]].at = lookups[f[k]].at
        \/ lookups[f[j]].goesOn /\ lookups[f[k]].goesOn
    BY <2>1
  <2>3. f[j] = f[k]
    BY <1>3, <2>1, <2>2 DEF LookupsApart
  <2> QED
    BY <1>5, <2>1, <2>3
<1>9. \A g \in DOMAIN groups :
         /\ groups[g] = "checking" =>
              \E j : LiveLookup(others, p, now, j) /\ others[j].at = g
         /\ groups[g] = "pending" =>
              \/ l.goesOn /\ g > l.at
              \/ \E j : LiveLookup(others, p, now, j) /\ others[j].goesOn /\ others[j].at < g
  <2> SUFFICES ASSUME NEW g \in DOMAIN groups
               PROVE /\ groups[g] = "checking" =>
                          \E j : LiveLookup(others, p, now, j) /\ others[j].at = g
                     /\ groups[g] = "pending" =>
                          \/ l.goesOn /\ g > l.at
                          \/ \E j : LiveLookup(others, p, now, j) /\ others[j].goesOn /\ others[j].at < g
    OBVIOUS
  <2>1. ASSUME groups[g] = "checking"
        PROVE  \E j : LiveLookup(others, p, now, j) /\ others[j].at = g
    <3>1. PICK k : k # i /\ LiveLookup(lookups, p, revisions[p], k) /\ lookups[k].at = g
      BY <2>1
    <3> QED
      BY <1>6, <3>1
  <2>2. ASSUME groups[g] = "pending", ~(l.goesOn /\ g > l.at)
        PROVE  \E j : LiveLookup(others, p, now, j) /\ others[j].goesOn /\ others[j].at < g
    <3>1. PICK k : /\ k # i /\ LiveLookup(lookups, p, revisions[p], k)
                   /\ lookups[k].goesOn /\ lookups[k].at < g
      BY <2>2
    <3> QED
      BY <1>6, <3>1
  <2> QED
    BY <2>1, <2>2
<1>10. p \in opened
  <2>1. LiveLookup(lookups, p, now, i)
    BY DEF LiveLookup
  <2>2. panels[p].status # "closed"
    <3>1. panels[p].status = "loading" \/ panels[p].groups # <<>>
      BY <1>1, <1>2, <1>3, <2>1 DEF LookupsFit
    <3> QED
      BY <1>2, <3>1 DEF DnsInv, PanelSound
  <2> QED
    BY <1>2, <2>2 DEF DnsInv
<1>11. CASE /\ Dns!Left(l, groups) = {}
            /\ lookups' = others
            /\ panels' = [panels EXCEPT ![l.of] = [status |-> "ready", groups |-> groups]]
  <2> DEFINE panel == [status |-> "ready", groups |-> groups]
  <2>1. panel \in PanelStates /\ panel.status = "ready" /\ panel.groups = groups
    BY DEF PanelStates
  <2> HIDE DEF panel
  <2>2. \A g \in DOMAIN groups : l.goesOn /\ g > l.at => groups[g] # "pending"
    <3> SUFFICES ASSUME NEW g \in DOMAIN groups, l.goesOn, g > l.at, groups[g] = "pending"
                 PROVE  FALSE
      OBVIOUS
    <3>1. g \in l.at + 1 .. Len(groups)
      BY <1>2, LenProperties
    <3>2. g \in Dns!Left(l, groups)
      BY <3>1 DEF Dns!Left
    <3> QED
      BY <1>11, <3>2
  <2>3. LookupsFit(others, p, panel, now)
    BY <1>7, <2>1 DEF LookupsFit
  <2>4. GroupsAwaited(others, p, panel, now)
    BY <1>9, <2>1, <2>2 DEF GroupsAwaited
  <2>5. PanelSound(lookups', p, panel, revisions[p])
    BY <1>8, <1>11, <2>1, <2>3, <2>4 DEF PanelSound
  <2>6. panels' = [panels EXCEPT ![p] = panel]
    BY <1>11 DEF panel
  <2>7. lookups' = others /\ p = lookups[i].of /\ panel.status # "closed"
    BY <1>11, <2>1
  <2> HIDE <1>11
  <2> QED
    BY <1>2, <1>10, <2>1, <2>5, <2>6, <2>7, CurrentEnds
<1>12. ASSUME NEW next \in Dns!Left(l, groups),
              \A g \in Dns!Left(l, groups) : next <= g,
              lookups' = Append(others, [l EXCEPT !.at = next]),
              panels' = [panels EXCEPT ![l.of] = [status |-> "ready",
                       groups |-> [groups EXCEPT ![next] = "checking"]]]
       PROVE  DnsInv'
  <2> DEFINE gs == [groups EXCEPT ![next] = "checking"]
             panel == [status |-> "ready", groups |-> gs]
             new == [l EXCEPT !.at = next]
             last == Len(others) + 1
  <2>1. /\ next \in Nat /\ next > l.at /\ next \in DOMAIN groups /\ l.goesOn /\ groups[next] # "incorrect"
        /\ next # 0
    BY <1>2, LenProperties DEF Dns!Left
  <2>2. /\ new \in Lookups /\ new.of = p /\ new.rev = l.rev /\ new.at = next /\ new.goesOn
    BY <1>2, <2>1 DEF Lookups
  <2>3. /\ gs \in Seq(GroupStatus) /\ DOMAIN gs = DOMAIN groups /\ gs[next] = "checking"
        /\ \A g \in DOMAIN groups : g # next => gs[g] = groups[g]
    <3>1. next \in 1 .. Len(groups) /\ "checking" \in GroupStatus
      BY <2>1, LenProperties DEF GroupStatus
    <3> QED
      BY <3>1, ExceptSeq, LenProperties
  <2>4. panel \in PanelStates /\ panel.status = "ready" /\ panel.groups = gs
    BY <2>3 DEF PanelStates
  <2>5. lookups' = Append(others, new) /\ panels' = [panels EXCEPT ![p] = panel]
    BY <1>12
  <2> HIDE DEF gs, panel, new
  <2>6. /\ \A j : LiveLookup(lookups', p, now, j) <=> LiveLookup(others, p, now, j) \/ j = last
        /\ \A j : LiveLookup(others, p, now, j) => lookups'[j] = others[j] /\ j # last
        /\ lookups'[last] = new
    <3>1. /\ \A j \in DOMAIN others : j \in DOMAIN lookups' /\ lookups'[j] = others[j] /\ j # last
          /\ last \in DOMAIN lookups' /\ lookups'[last] = new
          /\ \A j \in DOMAIN lookups' : j \in DOMAIN others \/ j = last
      BY <1>5, <2>2, <2>5, Appended, LenProperties
    <3> QED
      BY <2>2, <3>1 DEF LiveLookup
  <2>7. \A j : LiveLookup(others, p, now, j) => others[j].at # next /\ ~others[j].goesOn
    BY <1>7, <2>1
  <2>8. LookupsFit(lookups', p, panel, now)
    <3>1. ASSUME NEW j, LiveLookup(others, p, now, j)
          PROVE  /\ lookups'[j].at # 0 /\ lookups'[j].at \in DOMAIN gs
                 /\ gs[lookups'[j].at] = "checking" /\ ~lookups'[j].goesOn
      BY <1>7, <2>3, <2>6, <2>7, <3>1
    <3>2. /\ lookups'[last].at # 0 /\ lookups'[last].at \in DOMAIN gs
          /\ gs[lookups'[last].at] = "checking"
          /\ \A g \in DOMAIN gs : g > lookups'[last].at => gs[g] \in {"pending", "incorrect"}
      <4>1. \A g \in DOMAIN groups : g > next => g > l.at /\ g # next
        BY <1>2, <2>1, LenProperties
      <4> QED
        BY <2>1, <2>2, <2>3, <2>6, <4>1
    <3> QED
      BY <2>4, <2>6, <3>1, <3>2 DEF LookupsFit
  <2>9. LookupsApart(lookups', p, now)
    <3> SUFFICES ASSUME NEW j, NEW k, LiveLookup(lookups', p, now, j), LiveLookup(lookups', p, now, k),
                      \/ lookups'[j].at = lookups'[k].at
                      \/ lookups'[j].goesOn /\ lookups'[k].goesOn
                 PROVE  j = k
      BY DEF LookupsApart
    <3>1. CASE j = last \/ k = last
      BY <2>2, <2>6, <2>7, <3>1
    <3>2. CASE j # last /\ k # last
      BY <1>8, <2>6, <3>2 DEF LookupsApart
    <3> QED
      BY <3>1, <3>2
  <2>10. GroupsAwaited(lookups', p, panel, now)
    <3>1. ASSUME NEW g \in DOMAIN gs, gs[g] = "checking"
          PROVE  \E j : LiveLookup(lookups', p, now, j) /\ lookups'[j].at = g
      <4>1. CASE g = next
        BY <2>2, <2>6, <4>1
      <4>2. CASE g # next
        <5>1. PICK j : LiveLookup(others, p, now, j) /\ others[j].at = g
          BY <1>9, <2>3, <3>1, <4>2
        <5> QED
          BY <2>6, <5>1
      <4> QED
        BY <4>1, <4>2
    <3>2. ASSUME NEW g \in DOMAIN gs, gs[g] = "pending"
          PROVE  \E j : LiveLookup(lookups', p, now, j) /\ lookups'[j].goesOn /\ lookups'[j].at < g
      <4>1. g # next /\ g \in DOMAIN groups /\ groups[g] = "pending"
        BY <2>3, <3>2
      <4>2. CASE g > l.at
        <5>1. g \in l.at + 1 .. Len(groups)
          BY <1>2, <4>1, <4>2, LenProperties
        <5>2. g \in Dns!Left(l, groups)
          BY <2>1, <4>1, <5>1 DEF Dns!Left
        <5>3. next <= g /\ g \in Nat
          BY <1>2, <1>12, <5>1, <5>2
        <5>4. next < g
          BY <2>1, <4>1, <5>3
        <5> QED
          BY <2>2, <2>6, <5>4
      <4>3. CASE ~(g > l.at)
        <5>1. PICK j : LiveLookup(others, p, now, j) /\ others[j].goesOn /\ others[j].at < g
          BY <1>9, <4>1, <4>3
        <5> QED
          BY <2>6, <5>1
      <4> QED
        BY <4>2, <4>3
    <3> QED
      BY <2>4, <3>1, <3>2 DEF GroupsAwaited
  <2>11. PanelSound(lookups', p, panel, revisions[p])
    BY <2>4, <2>8, <2>9, <2>10 DEF PanelSound
  <2> QED
    BY <1>2, <1>10, <2>2, <2>4, <2>5, <2>11, CurrentEnds
<1> QED
  BY <1>11, <1>12 DEF Dns!GoOn


\* A lookup has the fields of one.
LEMMA LookupTyped ==
  ASSUME DnsInv, NEW i \in DOMAIN lookups
  PROVE  lookups[i] \in Lookups /\ lookups[i].of \in Panels /\ lookups[i].rev \in Nat /\ lookups[i].at \in Nat
<1>1. lookups \in Seq(Lookups)
  BY DEF DnsInv, DnsTypes
<1>2. lookups[i] \in Lookups
  BY <1>1, ElementOf
<1> QED
  BY <1>2 DEF Lookups

LEMMA DnsArriveKeeps == DnsInv /\ Dns!RecordsArrive => DnsInv'
<1> SUFFICES ASSUME DnsInv, Dns!RecordsArrive PROVE DnsInv'
  OBVIOUS
<1>1. PICK i \in DOMAIN lookups :
       /\ lookups[i].at = 0
       /\ IF Dns!Current(lookups[i])
          THEN \E groups \in [1 .. GroupCount -> {"pending", "incorrect"}] :
                 Dns!GoOn(lookups[i], groups, Dns!Without(lookups, i))
          ELSE lookups' = Dns!Without(lookups, i) /\ UNCHANGED panels
  BY DEF Dns!RecordsArrive
<1>2. UNCHANGED <<revisions, opened>>
  BY DEF Dns!RecordsArrive
<1>3. CASE ~Dns!Current(lookups[i])
  BY <1>1, <1>2, <1>3, OvertakenEnds
<1>4. CASE Dns!Current(lookups[i])
  <2> DEFINE l == lookups[i]
             p == l.of
             others == Dns!Without(lookups, i)
             now == revisions[p]
  <2>1. PICK groups \in [1 .. GroupCount -> {"pending", "incorrect"}] : Dns!GoOn(l, groups, others)
    BY <1>1, <1>4
  <2>2. l \in Lookups /\ p \in Panels /\ l.at = 0 /\ l.rev = revisions[p]
    BY <1>1, <1>4, LookupTyped DEF DnsInv, DnsTypes, Dns!Current
  <2>3. groups \in Seq(GroupStatus) /\ DOMAIN groups = 1 .. GroupCount
    <3>1. GroupCount \in Nat /\ groups \in [1 .. GroupCount -> GroupStatus]
      BY ScreensAssumption DEF ScreensAssumption, GroupStatus
    <3> QED
      BY <3>1, ListOf
  <2> DEFINE gs == groups
  <2>12. Dns!GoOn(l, gs, others) /\ gs \in Seq(GroupStatus)
    BY <2>1, <2>3
  <2>13. DOMAIN gs = 1 .. GroupCount /\ \A g \in DOMAIN gs : gs[g] \in {"pending", "incorrect"}
    BY <2>1, <2>3
  <2> HIDE DEF gs
  <2>4. LiveLookup(lookups, p, now, i) /\ LookupsFit(lookups, p, panels[p], now)
    BY <2>2 DEF LiveLookup, DnsInv, PanelSound
  <2>5. l.goesOn /\ \A j : LiveLookup(lookups, p, now, j) => j = i
    BY <2>2, <2>4 DEF LookupsFit
  <2>6. \A g \in DOMAIN gs : g > 0 /\ gs[g] \in {"pending", "incorrect"} /\ gs[g] # "checking"
    BY <2>13
  <2>7. \A g \in DOMAIN gs : l.goesOn /\ g > l.at => gs[g] \in {"pending", "incorrect"}
    BY <2>6
  <2>8. \A j : LiveLookup(lookups, p, now, j) /\ j # i =>
           /\ lookups[j].at # 0 /\ lookups[j].at \in DOMAIN gs
           /\ gs[lookups[j].at] = "checking"
           /\ ~(lookups[j].goesOn /\ l.goesOn)
           /\ lookups[j].goesOn => \A g \in DOMAIN gs :
                g > lookups[j].at => gs[g] \in {"pending", "incorrect"}
    BY <2>5
  <2>9. \A g \in DOMAIN gs :
           /\ gs[g] = "checking" =>
                \E j : j # i /\ LiveLookup(lookups, p, now, j) /\ lookups[j].at = g
           /\ gs[g] = "pending" =>
                \/ l.goesOn /\ g > l.at
                \/ \E j : /\ j # i /\ LiveLookup(lookups, p, now, j)
                          /\ lookups[j].goesOn /\ lookups[j].at < g
    BY <2>2, <2>5, <2>6
  <2>10. l = lookups[i] /\ p = l.of /\ others = Dns!Without(lookups, i) /\ now = revisions[p]
    OBVIOUS
  <2>11. l.rev = now
    BY <2>2
  <2> HIDE DEF l, p, others, now
  <2> QED
    BY <1>2, <2>7, <2>8, <2>9, <2>10, <2>11, <2>12, GoesOnKeeps
<1> QED
  BY <1>3, <1>4

LEMMA DnsVerifiedKeeps == DnsInv /\ Dns!GroupVerified => DnsInv'
<1> SUFFICES ASSUME DnsInv, Dns!GroupVerified PROVE DnsInv'
  OBVIOUS
<1>1. PICK i \in DOMAIN lookups :
       /\ lookups[i].at # 0
       /\ IF Dns!Current(lookups[i])
          THEN \E status \in {"correct", "notFound", "error"} :
                 Dns!GoOn(lookups[i],
                          [panels[lookups[i].of].groups EXCEPT ![lookups[i].at] = status],
                          Dns!Without(lookups, i))
          ELSE lookups' = Dns!Without(lookups, i) /\ UNCHANGED panels
  BY DEF Dns!GroupVerified
<1>2. UNCHANGED <<revisions, opened>>
  BY DEF Dns!GroupVerified
<1>3. CASE ~Dns!Current(lookups[i])
  BY <1>1, <1>2, <1>3, OvertakenEnds
<1>4. CASE Dns!Current(lookups[i])
  <2> DEFINE l == lookups[i]
             p == l.of
             a == l.at
             before == panels[p].groups
             others == Dns!Without(lookups, i)
             now == revisions[p]
  <2>1. PICK status \in {"correct", "notFound", "error"} :
          Dns!GoOn(l, [before EXCEPT ![a] = status], others)
    BY <1>1, <1>4
  <2> DEFINE groups == [before EXCEPT ![a] = status]
  <2>2. l \in Lookups /\ p \in Panels /\ a # 0 /\ l.rev = now /\ a \in Nat
    BY <1>1, <1>4, LookupTyped DEF DnsInv, DnsTypes, Dns!Current
  <2>3. /\ LiveLookup(lookups, p, now, i) /\ LookupsFit(lookups, p, panels[p], now)
        /\ LookupsApart(lookups, p, now) /\ GroupsAwaited(lookups, p, panels[p], now)
    BY <2>2 DEF LiveLookup, DnsInv, PanelSound
  <2>4. a \in DOMAIN before /\ before[a] = "checking"
    BY <2>2, <2>3 DEF LookupsFit
  <2>5. before \in Seq(GroupStatus)
    BY <2>2 DEF DnsInv, DnsTypes, PanelStates
  <2>6. /\ groups \in Seq(GroupStatus) /\ DOMAIN groups = DOMAIN before /\ groups[a] = status
        /\ \A g \in DOMAIN before : g # a => groups[g] = before[g]
    <3>1. a \in 1 .. Len(before) /\ status \in GroupStatus
      BY <2>4, <2>5, LenProperties DEF GroupStatus
    <3> QED
      BY <2>5, <3>1, ExceptSeq, LenProperties
  <2>7. \A g \in DOMAIN before : g \in Nat
    BY <2>5, LenProperties
  <2>8. l = lookups[i] /\ p = l.of /\ others = Dns!Without(lookups, i) /\ a = l.at
        /\ now = revisions[p] /\ before = panels[p].groups
    OBVIOUS
  <2>9. Dns!GoOn(l, groups, others)
    BY <2>1
  <2> HIDE DEF l, p, others, a, now, before, groups
  <2>10. /\ l.goesOn => \A g \in DOMAIN before : g > a => before[g] \in {"pending", "incorrect"}
         /\ \A j : LiveLookup(lookups, p, now, j) =>
             /\ lookups[j].at = 0 => \A k : LiveLookup(lookups, p, now, k) => k = j
             /\ lookups[j].at # 0 => /\ lookups[j].at \in DOMAIN before
                                     /\ before[lookups[j].at] = "checking"
             /\ lookups[j].goesOn => \A g \in DOMAIN before :
                   g > lookups[j].at => before[g] \in {"pending", "incorrect"}
             /\ lookups[j].at = a \/ (lookups[j].goesOn /\ l.goesOn) => j = i
    <3>1. l.goesOn => \A g \in DOMAIN before : g > a => before[g] \in {"pending", "incorrect"}
      BY <2>3, <2>8 DEF LookupsFit
    <3>2. \A j : LiveLookup(lookups, p, now, j) =>
             /\ lookups[j].at = 0 => \A k : LiveLookup(lookups, p, now, k) => k = j
             /\ lookups[j].at # 0 => /\ lookups[j].at \in DOMAIN before
                                     /\ before[lookups[j].at] = "checking"
             /\ lookups[j].goesOn => \A g \in DOMAIN before :
                   g > lookups[j].at => before[g] \in {"pending", "incorrect"}
      BY <2>3, <2>8 DEF LookupsFit
    <3>3. \A j : LiveLookup(lookups, p, now, j)
                 /\ (lookups[j].at = a \/ (lookups[j].goesOn /\ l.goesOn)) => j = i
      BY <2>3, <2>8 DEF LookupsApart
    <3> QED
      BY <3>1, <3>2, <3>3
  <2>11. \A g \in DOMAIN groups : l.goesOn /\ g > l.at => groups[g] \in {"pending", "incorrect"}
    <3> SUFFICES ASSUME NEW g \in DOMAIN groups, l.goesOn, g > l.at
                 PROVE  groups[g] \in {"pending", "incorrect"}
      OBVIOUS
    <3>1. g \in DOMAIN before /\ g # a
      BY <2>2, <2>6, <2>7, <2>8
    <3> QED
      BY <2>6, <2>8, <2>10, <3>1
  <2>12. ASSUME NEW j, LiveLookup(lookups, p, now, j), j # i
         PROVE  /\ lookups[j].at # 0 /\ lookups[j].at \in DOMAIN groups
                /\ groups[lookups[j].at] = "checking"
                /\ ~(lookups[j].goesOn /\ l.goesOn)
                /\ lookups[j].goesOn => \A g \in DOMAIN groups :
                     g > lookups[j].at => groups[g] \in {"pending", "incorrect"}
    <3>1. lookups[j].at # a /\ ~(lookups[j].goesOn /\ l.goesOn)
      BY <2>10, <2>12
    <3>2. lookups[j].at # 0
      BY <2>3, <2>10, <2>12
    <3>3. /\ lookups[j].at \in DOMAIN before /\ before[lookups[j].at] = "checking"
          /\ lookups[j].goesOn => \A g \in DOMAIN before :
                     g > lookups[j].at => before[g] \in {"pending", "incorrect"}
      BY <2>10, <2>12, <3>2
    <3>4. lookups[j].goesOn => ~(a > lookups[j].at)
      BY <2>4, <2>8, <3>3
    <3> QED
      BY <2>6, <3>1, <3>2, <3>3, <3>4
  <2>13. ASSUME NEW g \in DOMAIN groups
         PROVE  /\ groups[g] = "checking" =>
                     \E j : j # i /\ LiveLookup(lookups, p, now, j) /\ lookups[j].at = g
                /\ groups[g] = "pending" =>
                     \/ l.goesOn /\ g > l.at
                     \/ \E j : /\ j # i /\ LiveLookup(lookups, p, now, j)
                               /\ lookups[j].goesOn /\ lookups[j].at < g
    <3>1. CASE g = a
      BY <2>1, <2>6, <3>1
    <3>2. CASE g # a
      <4>1. g \in DOMAIN before /\ groups[g] = before[g] /\ g \in Nat
        BY <2>6, <2>7, <3>2
      <4>2. /\ before[g] = "checking" => \E j : LiveLookup(lookups, p, now, j) /\ lookups[j].at = g
            /\ before[g] = "pending" =>
                 \E j : LiveLookup(lookups, p, now, j) /\ lookups[j].goesOn /\ lookups[j].at < g
        BY <2>3, <2>8, <4>1 DEF GroupsAwaited
      <4>3. ASSUME before[g] = "checking"
            PROVE  \E j : j # i /\ LiveLookup(lookups, p, now, j) /\ lookups[j].at = g
        <5>1. PICK j : LiveLookup(lookups, p, now, j) /\ lookups[j].at = g
          BY <4>2, <4>3
        <5>2. j # i
          BY <2>8, <3>2, <5>1
        <5> QED
          BY <5>1, <5>2
      <4>4. ASSUME before[g] = "pending"
            PROVE  \/ l.goesOn /\ g > l.at
                   \/ \E j : /\ j # i /\ LiveLookup(lookups, p, now, j)
                             /\ lookups[j].goesOn /\ lookups[j].at < g
        <5>1. PICK j : LiveLookup(lookups, p, now, j) /\ lookups[j].goesOn /\ lookups[j].at < g
          BY <4>2, <4>4
        <5>2. CASE j # i
          BY <5>1, <5>2
        <5>3. CASE j = i
          BY <2>2, <2>8, <4>1, <5>1, <5>3
        <5> QED
          BY <5>2, <5>3
      <4> QED
        BY <4>1, <4>3, <4>4
    <3> QED
      BY <3>1, <3>2
  <2> QED
    BY <1>2, <2>2, <2>6, <2>8, <2>9, <2>11, <2>12, <2>13, GoesOnKeeps
<1> QED
  BY <1>3, <1>4

LEMMA DnsFailKeeps == DnsInv /\ Dns!RecordsFail => DnsInv'
<1> SUFFICES ASSUME DnsInv, Dns!RecordsFail PROVE DnsInv'
  OBVIOUS
<1>1. PICK i \in DOMAIN lookups :
       /\ lookups[i].at = 0
       /\ lookups' = Dns!Without(lookups, i)
       /\ panels' = IF Dns!Current(lookups[i])
                    THEN [panels EXCEPT ![lookups[i].of].status = "error"] ELSE panels
  BY DEF Dns!RecordsFail
<1>2. UNCHANGED <<revisions, opened>>
  BY DEF Dns!RecordsFail
<1>3. CASE ~Dns!Current(lookups[i])
  BY <1>1, <1>2, <1>3, OvertakenEnds
<1>4. CASE Dns!Current(lookups[i])
  <2> DEFINE l == lookups[i]
             p == l.of
             others == Dns!Without(lookups, i)
             panel == [status |-> "error", groups |-> <<>>]
  <2>1. lookups \in Seq(Lookups) /\ l \in Lookups /\ p \in Panels /\ l.at = 0 /\ l.rev = revisions[p]
    BY <1>1, <1>4, LookupTyped DEF DnsInv, DnsTypes, Dns!Current
  <2>2. LiveLookup(lookups, p, revisions[p], i) /\ LookupsFit(lookups, p, panels[p], revisions[p])
        /\ (panels[p].status # "ready" => panels[p].groups = <<>>)
    BY <2>1 DEF LiveLookup, DnsInv, PanelSound
  <2>3. /\ panels[p].status = "loading" /\ panels[p].groups = <<>>
        /\ \A j : LiveLookup(lookups, p, revisions[p], j) => j = i
    BY <2>1, <2>2 DEF LookupsFit
  <2>4. panels \in [Panels -> PanelStates] /\ panels[p] \in PanelStates
    BY <2>1 DEF DnsInv, DnsTypes
  <2>5. panels' = [panels EXCEPT ![p] = panel] /\ panel \in PanelStates /\ panel.status # "closed"
    <3>1. <<>> \in Seq(GroupStatus)
      BY EmptySeq
    <3>2. [panels[p] EXCEPT !.status = "error"] = panel
      BY <2>3, <2>4 DEF PanelStates
    <3> QED
      BY <1>1, <1>4, <3>1, <3>2 DEF PanelStates
  <2>6. p \in opened
    BY <2>1, <2>3 DEF DnsInv
  <2>7. \A j : ~LiveLookup(others, p, revisions[p], j)
    <3>1. others = Without(lookups, i)
      BY DEF Dns!Without, Without
    <3>2. \A j \in DOMAIN others : /\ Place(i, j) \in DOMAIN lookups /\ Place(i, j) # i
                                   /\ others[j] = lookups[Place(i, j)]
      BY <2>1, <3>1, RemovedPlaces
    <3> HIDE DEF others
    <3>3. ASSUME NEW j, LiveLookup(others, p, revisions[p], j)
          PROVE  FALSE
      <4>1. j \in DOMAIN others
        BY <3>3 DEF LiveLookup
      <4>2. LiveLookup(lookups, p, revisions[p], Place(i, j)) /\ Place(i, j) # i
        BY <3>2, <3>3, <4>1 DEF LiveLookup
      <4> QED
        BY <2>3, <4>2
    <3> QED
      BY <3>3
  <2>8. PanelSound(lookups', p, panel, revisions[p])
    BY <1>1, <2>7, NothingLive
  <2>9. p = lookups[i].of /\ others = Dns!Without(lookups, i) /\ lookups' = others
    BY <1>1
  <2> HIDE DEF p, others, panel, l
  <2> QED
    BY <1>2, <2>1, <2>5, <2>6, <2>8, <2>9, CurrentEnds
<1> QED
  BY <1>3, <1>4

\* A group with an error is looked up again.
LEMMA DnsRetryKeeps == DnsInv /\ Dns!RetryRecord => DnsInv'
<1> SUFFICES ASSUME DnsInv, Dns!RetryRecord PROVE DnsInv'
  OBVIOUS
<1>1. PICK p \in Panels : \E g \in DOMAIN panels[p].groups :
       /\ panels[p].groups[g] = "error"
       /\ panels' = [panels EXCEPT ![p].groups[g] = "checking"]
       /\ lookups' = Append(lookups, Dns!Lookup(p, revisions[p], g, FALSE))
  BY DEF Dns!RetryRecord
<1>2. PICK a \in DOMAIN panels[p].groups :
       /\ panels[p].groups[a] = "error"
       /\ panels' = [panels EXCEPT ![p].groups[a] = "checking"]
       /\ lookups' = Append(lookups, Dns!Lookup(p, revisions[p], a, FALSE))
  BY <1>1
<1>3. UNCHANGED <<revisions, opened>>
  BY DEF Dns!RetryRecord
<1> DEFINE now == revisions[p]
           before == panels[p].groups
           gs == [before EXCEPT ![a] = "checking"]
           panel == [panels[p] EXCEPT !.groups = gs]
           new == Dns!Lookup(p, now, a, FALSE)
           last == Len(lookups) + 1
<1>4. /\ panels \in [Panels -> PanelStates] /\ revisions \in [Panels -> Nat]
      /\ lookups \in Seq(Lookups) /\ now \in Nat /\ panels[p] \in PanelStates
      /\ LookupsAreNumbered /\ opened \subseteq Panels
      /\ \A q \in Panels : (panels[q].status # "closed" <=> q \in opened)
                           /\ PanelSound(lookups, q, panels[q], revisions[q])
  BY DEF DnsInv, DnsTypes
<1>5. before \in Seq(GroupStatus) /\ a \in 1 .. Len(before) /\ a \in Nat /\ a # 0
      /\ \A g \in DOMAIN before : g \in Nat
  <2>1. before \in Seq(GroupStatus)
    BY <1>4 DEF PanelStates
  <2> QED
    BY <2>1, LenProperties
<1>6. /\ gs \in Seq(GroupStatus) /\ DOMAIN gs = DOMAIN before /\ gs[a] = "checking"
      /\ \A g \in DOMAIN before : g # a => gs[g] = before[g]
  <2>1. "checking" \in GroupStatus
    BY DEF GroupStatus
  <2> QED
    BY <1>5, <2>1, ExceptSeq, LenProperties
<1>7. new \in Lookups /\ new.of = p /\ new.rev = now /\ new.at = a /\ new.goesOn = FALSE
  BY <1>4, <1>5 DEF Dns!Lookup, Lookups
<1>8. lookups' = Append(lookups, new) /\ panels' = [panels EXCEPT ![p] = panel]
  BY <1>2
<1>9. /\ panel \in PanelStates /\ panel.status = panels[p].status /\ panel.groups = gs
      /\ before[a] = "error" /\ panels[p].status = "ready"
  <2>1. before # <<>>
    BY <1>5
  <2> QED
    BY <1>2, <1>4, <1>6, <2>1 DEF PanelStates, PanelSound
<1>10. /\ LookupsFit(lookups, p, panels[p], now) /\ LookupsApart(lookups, p, now)
       /\ GroupsAwaited(lookups, p, panels[p], now)
  BY <1>4 DEF PanelSound
<1>11. /\ \A j : LiveLookup(lookups, p, now, j) =>
           /\ lookups[j].at # 0 /\ lookups[j].at \in DOMAIN before
           /\ before[lookups[j].at] = "checking"
           /\ lookups[j].goesOn => \A g \in DOMAIN before :
                 g > lookups[j].at => before[g] \in {"pending", "incorrect"}
       /\ \A g \in DOMAIN before :
           /\ before[g] = "checking" => \E j : LiveLookup(lookups, p, now, j) /\ lookups[j].at = g
           /\ before[g] = "pending" =>
                \E j : LiveLookup(lookups, p, now, j) /\ lookups[j].goesOn /\ lookups[j].at < g
  <2>1. \A j : LiveLookup(lookups, p, now, j) => lookups[j].at # 0
    BY <1>9, <1>10 DEF LookupsFit
  <2>2. \A j : LiveLookup(lookups, p, now, j) =>
           /\ lookups[j].at \in DOMAIN before /\ before[lookups[j].at] = "checking"
           /\ lookups[j].goesOn => \A g \in DOMAIN before :
                 g > lookups[j].at => before[g] \in {"pending", "incorrect"}
    BY <1>10, <2>1 DEF LookupsFit
  <2>3. \A g \in DOMAIN before :
           /\ before[g] = "checking" => \E j : LiveLookup(lookups, p, now, j) /\ lookups[j].at = g
           /\ before[g] = "pending" =>
                \E j : LiveLookup(lookups, p, now, j) /\ lookups[j].goesOn /\ lookups[j].at < g
    BY <1>10 DEF GroupsAwaited
  <2> QED
    BY <2>1, <2>2, <2>3
<1> HIDE DEF now, before, gs, panel, new
<1>12. /\ lookups' \in Seq(Lookups)
       /\ \A j \in DOMAIN lookups : j \in DOMAIN lookups' /\ lookups'[j] = lookups[j] /\ j # last
       /\ last \in DOMAIN lookups' /\ lookups'[last] = new
       /\ \A j \in DOMAIN lookups' : j \in DOMAIN lookups \/ j = last
  BY <1>4, <1>7, <1>8, Appended, LenProperties
<1>13. /\ \A j : LiveLookup(lookups', p, now, j) <=> LiveLookup(lookups, p, now, j) \/ j = last
       /\ \A j : LiveLookup(lookups, p, now, j) => lookups'[j] = lookups[j] /\ j # last
       /\ lookups'[last] = new
  BY <1>7, <1>12 DEF LiveLookup
<1>14. \A j : LiveLookup(lookups, p, now, j) => lookups[j].at # a
  BY <1>9, <1>11
<1>15. LookupsFit(lookups', p, panel, now)
  <2>1. ASSUME NEW j, LiveLookup(lookups, p, now, j)
        PROVE  /\ lookups'[j].at # 0 /\ lookups'[j].at \in DOMAIN gs
               /\ gs[lookups'[j].at] = "checking"
               /\ lookups'[j].goesOn => \A g \in DOMAIN gs :
                     g > lookups'[j].at => gs[g] \in {"pending", "incorrect"}
    <3>1. lookups'[j] = lookups[j] /\ lookups[j].at # a
      BY <1>13, <1>14, <2>1
    <3>2. lookups[j].goesOn => ~(a > lookups[j].at)
      BY <1>5, <1>6, <1>9, <1>11, <2>1
    <3> QED
      BY <1>6, <1>11, <2>1, <3>1, <3>2
  <2>2. /\ lookups'[last].at # 0 /\ lookups'[last].at \in DOMAIN gs
        /\ gs[lookups'[last].at] = "checking" /\ ~lookups'[last].goesOn
    BY <1>5, <1>6, <1>7, <1>13, LenProperties
  <2> QED
    BY <1>9, <1>13, <2>1, <2>2 DEF LookupsFit
<1>16. LookupsApart(lookups', p, now)
  <2> SUFFICES ASSUME NEW j, NEW k, LiveLookup(lookups', p, now, j), LiveLookup(lookups', p, now, k),
                    \/ lookups'[j].at = lookups'[k].at
                    \/ lookups'[j].goesOn /\ lookups'[k].goesOn
               PROVE  j = k
    BY DEF LookupsApart
  <2>1. CASE j = last \/ k = last
    BY <1>7, <1>13, <1>14, <2>1
  <2>2. CASE j # last /\ k # last
    BY <1>10, <1>13, <2>2 DEF LookupsApart
  <2> QED
    BY <2>1, <2>2
<1>17. GroupsAwaited(lookups', p, panel, now)
  <2>1. ASSUME NEW g \in DOMAIN gs, gs[g] = "checking"
        PROVE  \E j : LiveLookup(lookups', p, now, j) /\ lookups'[j].at = g
    <3>1. CASE g = a
      BY <1>7, <1>13, <3>1
    <3>2. CASE g # a
      <4>1. PICK j : LiveLookup(lookups, p, now, j) /\ lookups[j].at = g
        BY <1>6, <1>11, <2>1, <3>2
      <4> QED
        BY <1>13, <4>1
    <3> QED
      BY <3>1, <3>2
  <2>2. ASSUME NEW g \in DOMAIN gs, gs[g] = "pending"
        PROVE  \E j : LiveLookup(lookups', p, now, j) /\ lookups'[j].goesOn /\ lookups'[j].at < g
    <3>1. g # a /\ g \in DOMAIN before /\ before[g] = "pending"
      BY <1>6, <2>2
    <3>2. PICK j : LiveLookup(lookups, p, now, j) /\ lookups[j].goesOn /\ lookups[j].at < g
      BY <1>11, <3>1
    <3> QED
      BY <1>13, <3>2
  <2> QED
    BY <1>9, <2>1, <2>2 DEF GroupsAwaited
<1>18. PanelSound(lookups', p, panel, now)
  BY <1>9, <1>15, <1>16, <1>17 DEF PanelSound
<1>19. /\ panels' \in [Panels -> PanelStates] /\ panels'[p] = panel
       /\ \A q \in Panels : q # p => panels'[q] = panels[q]
  BY <1>4, <1>8, <1>9
<1>20. ASSUME NEW q \in Panels
       PROVE  PanelSound(lookups', q, panels'[q], revisions'[q])
  <2>1. CASE q = p
    BY <1>3, <1>18, <1>19, <2>1 DEF now
  <2>2. CASE q # p
    <3>1. PanelSound(Append(lookups, new), q, panels[q], revisions[q])
      BY <1>4, <1>7, <2>2, OneMoreLookup
    <3> QED
      BY <1>3, <1>8, <1>19, <2>2, <3>1
  <2> QED
    BY <2>1, <2>2
<1>21. DnsTypes'
  BY <1>3, <1>4, <1>12, <1>19 DEF DnsTypes
<1>22. LookupsAreNumbered'
  <2>1. new.rev <= revisions[new.of]
    BY <1>4, <1>7 DEF now
  <2> QED
    BY <1>3, <1>4, <1>12, <2>1 DEF LookupsAreNumbered
<1>23. \A q \in Panels : panels'[q].status # "closed" <=> q \in opened'
  <2>1. panel.status # "closed" <=> p \in opened
    BY <1>4, <1>9
  <2> QED
    BY <1>3, <1>4, <1>19, <2>1
<1> QED
  BY <1>20, <1>21, <1>22, <1>23 DEF DnsInv

LEMMA DnsSteps == DnsInv /\ Dns!Next => DnsInv'
<1> SUFFICES ASSUME DnsInv, Dns!Next PROVE DnsInv'
  OBVIOUS
<1>1. CASE Dns!ConnectionChanged
  BY <1>1 DEF Dns!ConnectionChanged, DnsInv, DnsTypes, LookupsAreNumbered
<1> QED
  BY <1>1, DnsOpenKeeps, DnsCloseKeeps, DnsArriveKeeps, DnsFailKeeps, DnsVerifiedKeeps,
     DnsRetryKeeps DEF Dns!Next

LEMMA DnsStays == DnsInv /\ UNCHANGED dnsState => DnsInv'
BY DEF dnsState, DnsInv, DnsTypes, LookupsAreNumbered

LEMMA DnsHolds == DnsInv => Dns!PanelsAsAsked
<1> SUFFICES ASSUME DnsInv PROVE Dns!PanelsAsAsked
  OBVIOUS
<1> DEFINE Live(p) == {i \in DOMAIN lookups : lookups[i].of = p /\ Dns!Current(lookups[i])}
           AsAsked(p) ==
             /\ panels[p].status # "closed" <=> p \in opened
             /\ panels[p].status = "loading" => \E i \in Live(p) : lookups[i].at = 0
             /\ \A g \in DOMAIN panels[p].groups :
                  /\ panels[p].groups[g] = "checking" =>
                       Dns!Cardinality({i \in Live(p) : lookups[i].at = g}) = 1
                  /\ panels[p].groups[g] = "pending" =>
                       \E i \in Live(p) : lookups[i].goesOn /\ lookups[i].at < g
<1>1. ASSUME NEW p \in Panels
      PROVE  AsAsked(p)
  <2> DEFINE live == Live(p)
  <2>1. \A i : i \in live <=> LiveLookup(lookups, p, revisions[p], i)
    BY DEF LiveLookup, Dns!Current
  <2> HIDE DEF live, Live
  <2>2. /\ panels[p].status # "closed" <=> p \in opened
        /\ LookupsApart(lookups, p, revisions[p])
        /\ GroupsAwaited(lookups, p, panels[p], revisions[p])
    BY DEF DnsInv, PanelSound
  <2>3. panels[p].status = "loading" => \E i \in live : lookups[i].at = 0
    BY <2>1, <2>2 DEF GroupsAwaited
  <2>4. ASSUME NEW g \in DOMAIN panels[p].groups, panels[p].groups[g] = "checking"
        PROVE  Dns!Cardinality({i \in live : lookups[i].at = g}) = 1
    <3>1. PICK i : LiveLookup(lookups, p, revisions[p], i) /\ lookups[i].at = g
      BY <2>2, <2>4 DEF GroupsAwaited
    <3>2. \A j : LiveLookup(lookups, p, revisions[p], j) /\ lookups[j].at = g => j = i
      BY <2>2, <3>1 DEF LookupsApart
    <3>3. {j \in live : lookups[j].at = g} = {i}
      BY <2>1, <3>1, <3>2
    <3>4. Dns!Cardinality({i}) = Cardinality({i})
      BY DEF Dns!Cardinality, Cardinality
    <3> QED
      BY <3>3, <3>4, FS_Singleton
  <2>5. ASSUME NEW g \in DOMAIN panels[p].groups, panels[p].groups[g] = "pending"
        PROVE  \E i \in live : lookups[i].goesOn /\ lookups[i].at < g
    BY <2>1, <2>2, <2>5 DEF GroupsAwaited
  <2> QED
    BY <2>2, <2>3, <2>4, <2>5 DEF live
<1> QED
  BY <1>1 DEF Dns!PanelsAsAsked

-----------------------------------------------------------------------------
(* Email Routing                                                           *)

RoutingStates ==
  [status : {"idle", "loading", "ready", "error"}, enabled : BOOLEAN \cup {None}]
Fetches == [of : Domains, rev : Nat, rest : Seq(Domains), met : SUBSET BOOLEAN]
Switches == [of : Domains, dialog : {"enable", "disable"}]
RoutingTypes ==
  /\ listed \in Seq(Domains) /\ states \in [Domains -> RoutingStates]
  /\ routingRevision \in Nat /\ routingFetches \in Seq(Fetches) /\ switches \in Seq(Switches)
  /\ target \in [{"enable", "disable"} -> Domains \cup {None}] /\ routed \subseteq Domains

\* No fetch is newer than the newest refresh.
FetchesKnown(fs, r) == \A i \in DOMAIN fs : fs[i].rev <= r

\* Of domain d at most one request counts: a fetch of the newest refresh, or a switch.
Alone(fs, ss, r, d) ==
  /\ \A i, j \in DOMAIN fs :
       fs[i].of = d /\ fs[i].rev = r /\ fs[j].of = d /\ fs[j].rev = r => i = j
  /\ \A i, j \in DOMAIN ss : ss[i].of = d /\ ss[j].of = d => i = j
  /\ \A i \in DOMAIN fs : \A j \in DOMAIN ss : fs[i].of = d /\ fs[i].rev = r => ss[j].of # d

\* A fetch of d that counts meets it as Cloudflare has it by now.
MeetsNow(fs, r, d, on) ==
  \A i \in DOMAIN fs : fs[i].of = d /\ fs[i].rev = r =>
    (TRUE \in fs[i].met => d \in on) /\ (FALSE \in fs[i].met => d \notin on)

ShownNow(st, d, on) ==
  st[d].status = "ready" =>
    (st[d].enabled = TRUE /\ d \in on) \/ (st[d].enabled = FALSE /\ d \notin on)

Straightforward(fs, ss, r, st, d, on) ==
  Alone(fs, ss, r, d) /\ MeetsNow(fs, r, d, on) /\ ShownNow(st, d, on)
Untangled ==
  \A d \in Domains \ tangled :
    Straightforward(routingFetches, switches, routingRevision, states, d, routed)

\* A fetch of refresh r will reach d, or d is being switched.
Covered(fs, r, d) == \E i \in DOMAIN fs : fs[i].rev = r /\ (d = fs[i].of \/ d \in Elements(fs[i].rest))
BeingSwitched(ss, d) == \E i \in DOMAIN ss : ss[i].of = d
Arriving ==
  canFetch => \A d \in Elements(listed) : states[d].status \in {"idle", "loading"} =>
    Covered(routingFetches, routingRevision, d) \/ BeingSwitched(switches, d)

RoutingInv ==
  /\ RoutingTypes /\ FetchesKnown(routingFetches, routingRevision) /\ Untangled /\ Arriving

LEMMA FetchTyped ==
  ASSUME NEW fs \in Seq(Fetches), NEW i \in DOMAIN fs
  PROVE  /\ fs[i] \in Fetches /\ fs[i].of \in Domains /\ fs[i].rev \in Nat
         /\ fs[i].rest \in Seq(Domains) /\ fs[i].met \subseteq BOOLEAN
<1>1. fs[i] \in Fetches
  BY ElementOf
<1> QED
  BY <1>1 DEF Fetches

LEMMA HeadOrTail ==
  ASSUME NEW s \in Seq(Domains), s # <<>>
  PROVE  /\ Head(s) \in Domains /\ Tail(s) \in Seq(Domains)
         /\ \A d \in Elements(s) : d = Head(s) \/ d \in Elements(Tail(s))
<1>1. /\ Head(s) \in Domains /\ Tail(s) \in Seq(Domains) /\ Head(s) = s[1]
      /\ Len(Tail(s)) = Len(s) - 1 /\ \A i \in 1 .. Len(Tail(s)) : Tail(s)[i] = s[i + 1]
      /\ Len(s) \in Nat /\ Len(s) >= 1
  BY HeadTailProperties, EmptySeq, LenProperties
<1>2. DOMAIN s = 1 .. Len(s) /\ DOMAIN Tail(s) = 1 .. Len(s) - 1
  BY <1>1, LenProperties
<1>3. ASSUME NEW i \in DOMAIN s PROVE s[i] = Head(s) \/ s[i] \in Elements(Tail(s))
  <2>1. CASE i = 1
    BY <1>1, <2>1
  <2>2. CASE i # 1
    <3>1. i - 1 \in DOMAIN Tail(s) /\ i - 1 \in 1 .. Len(Tail(s)) /\ (i - 1) + 1 = i
      BY <1>1, <1>2, <2>2
    <3>2. Tail(s)[i - 1] = s[(i - 1) + 1]
      BY <1>1, <3>1
    <3>3. Tail(s)[i - 1] = s[i]
      BY <3>1, <3>2
    <3> QED
      BY <3>1, <3>3 DEF Elements
  <2> QED
    BY <2>1, <2>2
<1> QED
  BY <1>1, <1>3 DEF Elements

\* One request fewer.
LEMMA OneFewer ==
  ASSUME NEW fs \in Seq(Fetches), NEW i \in DOMAIN fs, NEW ss \in Seq(Switches), NEW r, NEW on
  PROVE  /\ Without(fs, i) \in Seq(Fetches)
         /\ FetchesKnown(fs, r) => FetchesKnown(Without(fs, i), r)
         /\ \A d : Alone(fs, ss, r, d) => Alone(Without(fs, i), ss, r, d)
         /\ \A d : MeetsNow(fs, r, d, on) => MeetsNow(Without(fs, i), r, d, on)
         /\ \A d : Covered(fs, r, d) =>
              \/ Covered(Without(fs, i), r, d)
              \/ fs[i].rev = r /\ (d = fs[i].of \/ d \in Elements(fs[i].rest))
<1> DEFINE after == Without(fs, i)
<1>1. /\ after \in Seq(Fetches)
      /\ \A j \in DOMAIN after : Place(i, j) \in DOMAIN fs /\ after[j] = fs[Place(i, j)]
      /\ \A j, k \in DOMAIN after : Place(i, j) = Place(i, k) => j = k
      /\ \A k \in DOMAIN fs : k # i => \E j \in DOMAIN after : Place(i, j) = k
  BY RemovedPlaces
<1> HIDE DEF after
<1>2. FetchesKnown(fs, r) => FetchesKnown(after, r)
  BY <1>1 DEF FetchesKnown
<1>3. ASSUME NEW d, Alone(fs, ss, r, d) PROVE Alone(after, ss, r, d)
  <2>1. ASSUME NEW j \in DOMAIN after, NEW k \in DOMAIN after, after[j].of = d, after[j].rev = r,
               after[k].of = d, after[k].rev = r
        PROVE  j = k
    <3>1. Place(i, j) = Place(i, k)
      BY <1>1, <1>3, <2>1 DEF Alone
    <3> QED
      BY <1>1, <3>1
  <2>2. ASSUME NEW j \in DOMAIN after, NEW k \in DOMAIN ss, after[j].of = d, after[j].rev = r
        PROVE  ss[k].of # d
    BY <1>1, <1>3, <2>2 DEF Alone
  <2> QED
    BY <1>3, <2>1, <2>2 DEF Alone
<1>4. ASSUME NEW d, MeetsNow(fs, r, d, on) PROVE MeetsNow(after, r, d, on)
  BY <1>1, <1>4 DEF MeetsNow
<1>5. ASSUME NEW d, Covered(fs, r, d)
      PROVE  Covered(after, r, d) \/ (fs[i].rev = r /\ (d = fs[i].of \/ d \in Elements(fs[i].rest)))
  <2>1. PICK k \in DOMAIN fs : fs[k].rev = r /\ (d = fs[k].of \/ d \in Elements(fs[k].rest))
    BY <1>5 DEF Covered
  <2>2. CASE k = i
    BY <2>1, <2>2
  <2>3. CASE k # i
    <3>1. PICK j \in DOMAIN after : Place(i, j) = k
      BY <1>1, <2>3
    <3> QED
      BY <1>1, <2>1, <3>1 DEF Covered
  <2> QED
    BY <2>2, <2>3
<1> QED
  BY <1>1, <1>2, <1>3, <1>4, <1>5 DEF after

\* fetchOne begins.
LEMMA FetchBegins ==
  ASSUME NEW fs \in Seq(Fetches), NEW fetch \in Fetches, NEW before \in [Domains -> RoutingStates],
         Routing!FetchOne(fs, fetch, before), fetch.rev = routingRevision',
         TRUE \in fetch.met => fetch.of \in routed, FALSE \in fetch.met => fetch.of \notin routed,
         UNCHANGED <<switches, routed>>, switches \in Seq(Switches),
         FetchesKnown(fs, routingRevision'), routingRevision' \in Nat,
         \A d \in Domains \ tangled : Straightforward(fs, switches, routingRevision', before, d, routed)
  PROVE  /\ routingFetches' \in Seq(Fetches) /\ states' \in [Domains -> RoutingStates]
         /\ FetchesKnown(routingFetches', routingRevision')
         /\ Untangled'
         /\ \A d : d = fetch.of \/ d \in Elements(fetch.rest) => Covered(routingFetches', routingRevision', d)
         /\ \A d : Covered(fs, routingRevision', d) => Covered(routingFetches', routingRevision', d)
         /\ \A d \in Domains : d # fetch.of => states'[d] = before[d]
<1> DEFINE n == Len(fs) + 1
           r == routingRevision'
<1>1. /\ routingFetches' = Append(fs, fetch)
      /\ states' = [before EXCEPT ![fetch.of] = [status |-> "loading", enabled |-> None]]
      /\ tangled' = IF \/ BeingSwitched(switches, fetch.of)
                       \/ \E i \in DOMAIN fs : fs[i].of = fetch.of /\ fs[i].rev = fetch.rev
                    THEN tangled \cup {fetch.of} ELSE tangled \ {fetch.of}
  BY DEF Routing!FetchOne, Routing!Loading, Routing!Switched, BeingSwitched
<1>2. /\ routingFetches' \in Seq(Fetches) /\ n \in DOMAIN routingFetches'
      /\ routingFetches'[n] = fetch
      /\ \A i \in DOMAIN fs : i \in DOMAIN routingFetches' /\ routingFetches'[i] = fs[i]
      /\ \A i \in DOMAIN routingFetches' : i \in DOMAIN fs \/ i = n
      /\ n \notin DOMAIN fs
  <2>1. DOMAIN fs = 1 .. Len(fs) /\ Len(fs) \in Nat
    BY LenProperties
  <2> QED
    BY <1>1, <2>1, Appended
<1>3. fetch.of \in Domains /\ fetch.rev \in Nat
  BY DEF Fetches
<1> HIDE DEF n, r
<1>4. /\ states' \in [Domains -> RoutingStates]
      /\ states'[fetch.of].status = "loading"
      /\ \A d \in Domains : d # fetch.of => states'[d] = before[d]
  BY <1>1, <1>3 DEF RoutingStates
<1>5. FetchesKnown(routingFetches', r)
  BY <1>2, <1>3 DEF FetchesKnown, r
<1>6. /\ \A d : d = fetch.of \/ d \in Elements(fetch.rest) => Covered(routingFetches', r, d)
      /\ \A d : Covered(fs, r, d) => Covered(routingFetches', r, d)
  BY <1>2 DEF Covered, r
<1>7. ASSUME NEW d \in Domains, d \notin tangled'
      PROVE  Straightforward(routingFetches', switches, r, states', d, routed)
  <2>1. CASE d = fetch.of
    <3>1. /\ ~BeingSwitched(switches, d)
          /\ \A i \in DOMAIN fs : ~(fs[i].of = d /\ fs[i].rev = r)
      BY <1>1, <1>7, <2>1 DEF r
    <3>2. Alone(routingFetches', switches, r, d)
      BY <1>2, <3>1 DEF Alone, BeingSwitched
    <3>3. MeetsNow(routingFetches', r, d, routed)
      BY <1>2, <2>1, <3>1 DEF MeetsNow
    <3>4. ShownNow(states', d, routed)
      BY <1>4, <2>1 DEF ShownNow
    <3> QED
      BY <3>2, <3>3, <3>4 DEF Straightforward
  <2>2. CASE d # fetch.of
    <3>1. Alone(fs, switches, r, d) /\ MeetsNow(fs, r, d, routed) /\ ShownNow(before, d, routed)
      BY <1>1, <1>7, <2>2 DEF Straightforward, r
    <3>2. Alone(routingFetches', switches, r, d)
      BY <1>2, <2>2, <3>1 DEF Alone
    <3>3. MeetsNow(routingFetches', r, d, routed)
      BY <1>2, <2>2, <3>1 DEF MeetsNow
    <3>4. ShownNow(states', d, routed)
      BY <1>4, <2>2, <3>1 DEF ShownNow
    <3> QED
      BY <3>2, <3>3, <3>4 DEF Straightforward
  <2> QED
    BY <2>1, <2>2
<1>8. Untangled'
  BY <1>7 DEF Untangled, r
<1> QED
  BY <1>2, <1>4, <1>5, <1>6, <1>8 DEF r

LEMMA RoutingStarts == Routing!Init => RoutingInv
<1> SUFFICES ASSUME Routing!Init PROVE RoutingInv
  OBVIOUS
<1>1. /\ listed = <<>> /\ canFetch = FALSE /\ routingRevision = 0 /\ routingFetches = <<>>
      /\ switches = <<>> /\ target = [k \in {"enable", "disable"} |-> None]
      /\ routed \subseteq Domains
      /\ states = [d \in Domains |-> [status |-> "idle", enabled |-> None]]
  BY DEF Routing!Init, Routing!Idle, Routing!Dialogs
<1>2. /\ listed \in Seq(Domains) /\ routingFetches \in Seq(Fetches) /\ switches \in Seq(Switches)
      /\ DOMAIN routingFetches = {} /\ DOMAIN switches = {}
  BY <1>1, EmptySeq
<1>3. RoutingTypes
  BY <1>1, <1>2 DEF RoutingTypes, RoutingStates
<1>4. Untangled
  BY <1>1, <1>2 DEF Untangled, Straightforward, Alone, MeetsNow, ShownNow
<1> QED
  BY <1>1, <1>2, <1>3, <1>4 DEF RoutingInv, FetchesKnown, Arriving

LEMMA Forgotten ==
  ASSUME RoutingInv
  PROVE  /\ FetchesKnown(routingFetches, routingRevision + 1)
         /\ \A d : ~Covered(routingFetches, routingRevision + 1, d)
         /\ \A d \in Domains \ tangled :
              Straightforward(routingFetches, switches, routingRevision + 1,
                              [e \in Domains |-> Routing!Idle], d, routed)
<1>1. /\ routingRevision \in Nat /\ routingFetches \in Seq(Fetches)
      /\ FetchesKnown(routingFetches, routingRevision) /\ Untangled
  BY DEF RoutingInv, RoutingTypes
<1>2. \A i \in DOMAIN routingFetches :
        routingFetches[i].rev <= routingRevision + 1 /\ routingFetches[i].rev # routingRevision + 1
  <2> SUFFICES ASSUME NEW i \in DOMAIN routingFetches
               PROVE  /\ routingFetches[i].rev <= routingRevision + 1
                      /\ routingFetches[i].rev # routingRevision + 1
    OBVIOUS
  <2>1. routingFetches[i].rev \in Nat /\ routingFetches[i].rev <= routingRevision
    BY <1>1, FetchTyped DEF FetchesKnown
  <2> QED
    BY <1>1, <2>1
<1>3. ASSUME NEW d \in Domains \ tangled
      PROVE  Straightforward(routingFetches, switches, routingRevision + 1,
                             [e \in Domains |-> Routing!Idle], d, routed)
  <2>1. Alone(routingFetches, switches, routingRevision, d)
    BY <1>1 DEF Untangled, Straightforward
  <2>2. Alone(routingFetches, switches, routingRevision + 1, d)
    BY <1>2, <2>1 DEF Alone
  <2>3. MeetsNow(routingFetches, routingRevision + 1, d, routed)
    BY <1>2 DEF MeetsNow
  <2>4. ShownNow([e \in Domains |-> Routing!Idle], d, routed)
    BY DEF ShownNow, Routing!Idle
  <2> QED
    BY <2>2, <2>3, <2>4 DEF Straightforward
<1> QED
  BY <1>2, <1>3 DEF FetchesKnown, Covered

\* It asks for domain d, and its refresh goes on to rest.
LEMMA FetchGoes ==
  ASSUME NEW fs \in Seq(Fetches), NEW d \in Domains, NEW r \in Nat, NEW rest \in Seq(Domains),
         NEW before \in [Domains -> RoutingStates], NEW ss \in Seq(Switches),
         Routing!FetchOne(fs, Routing!RoutingFetch(d, r, rest), before), r = routingRevision',
         UNCHANGED <<switches, routed>>, switches = ss, FetchesKnown(fs, r),
         \A e \in Domains \ tangled : Straightforward(fs, switches, r, before, e, routed)
  PROVE  /\ routingFetches' \in Seq(Fetches) /\ states' \in [Domains -> RoutingStates]
         /\ FetchesKnown(routingFetches', r)
         /\ Untangled'
         /\ \A e : e = d \/ e \in Elements(rest) => Covered(routingFetches', r, e)
         /\ \A e : Covered(fs, r, e) => Covered(routingFetches', r, e)
         /\ \A e \in Domains : e # d => states'[e] = before[e]
<1>1. PICK fetch : fetch = Routing!RoutingFetch(d, r, rest)
  OBVIOUS
<1>2. PICK met : met = {d \in routed}
  OBVIOUS
<1>3. met \in SUBSET BOOLEAN
  BY <1>2
<1>4. TRUE \in met => d \in routed
  BY <1>2
<1>5. FALSE \in met => d \notin routed
  BY <1>2
<1>6. fetch = [of |-> d, rev |-> r, rest |-> rest, met |-> met]
  BY <1>1, <1>2 DEF Routing!RoutingFetch
<1>7. /\ fetch \in Fetches /\ fetch.of = d /\ fetch.rev = r /\ fetch.rest = rest
      /\ TRUE \in fetch.met => fetch.of \in routed
      /\ FALSE \in fetch.met => fetch.of \notin routed
  BY <1>3, <1>4, <1>5, <1>6 DEF Fetches
<1>8. Routing!FetchOne(fs, fetch, before)
  BY <1>1
<1>9. /\ fetch.rev = routingRevision' /\ switches \in Seq(Switches) /\ routingRevision' \in Nat
      /\ FetchesKnown(fs, routingRevision')
      /\ \A e \in Domains \ tangled :
           Straightforward(fs, switches, routingRevision', before, e, routed)
  BY <1>7
<1>10. /\ routingFetches' \in Seq(Fetches) /\ states' \in [Domains -> RoutingStates]
       /\ FetchesKnown(routingFetches', routingRevision')
       /\ Untangled'
       /\ \A e : e = fetch.of \/ e \in Elements(fetch.rest) => Covered(routingFetches', routingRevision', e)
       /\ \A e : Covered(fs, routingRevision', e) => Covered(routingFetches', routingRevision', e)
       /\ \A e \in Domains : e # fetch.of => states'[e] = before[e]
  BY <1>7, <1>8, <1>9, FetchBegins
<1> QED
  BY <1>7, <1>10

\* refresh.
LEMMA RoutingRefreshes ==
  ASSUME RoutingInv, NEW ids \in Seq(Domains), Routing!Refresh(ids), listed' = ids,
         UNCHANGED <<switches, target, routed>>
  PROVE  RoutingInv'
<1>1. RoutingTypes
  BY DEF RoutingInv
<1> DEFINE before == [d \in Domains |-> Routing!Idle]
<1>2. /\ routingRevision' = routingRevision + 1
      /\ IF ids # <<>>
         THEN Routing!FetchOne(routingFetches,
                Routing!RoutingFetch(Head(ids), routingRevision + 1, Tail(ids)), before)
         ELSE states' = before /\ UNCHANGED <<routingFetches, tangled>>
  BY DEF Routing!Refresh
<1>3. before \in [Domains -> RoutingStates] /\ routingRevision' \in Nat
  BY <1>1, <1>2 DEF RoutingTypes, RoutingStates, Routing!Idle
<1>4. /\ FetchesKnown(routingFetches, routingRevision')
      /\ \A d \in Domains \ tangled :
              Straightforward(routingFetches, switches, routingRevision', before, d, routed)
  BY <1>2, Forgotten
<1> HIDE DEF before
<1>5. CASE ids = <<>>
  <2>1. states' = before /\ UNCHANGED <<routingFetches, tangled>>
    BY <1>2, <1>5
  <2>2. RoutingTypes'
    BY <1>1, <1>3, <2>1 DEF RoutingTypes
  <2>3. Untangled' /\ FetchesKnown(routingFetches', routingRevision')
    BY <1>4, <2>1 DEF Untangled
  <2>4. Arriving'
    <3>1. Elements(listed') = {}
      BY <1>5 DEF Elements
    <3> QED
      BY <3>1 DEF Arriving
  <2> QED
    BY <2>2, <2>3, <2>4 DEF RoutingInv
<1>6. CASE ids # <<>>
  <2>1. PICK d, rest, r, ss : d = Head(ids) /\ rest = Tail(ids) /\ r = routingRevision' /\ ss = switches
    OBVIOUS
  <2>2. Routing!FetchOne(routingFetches, Routing!RoutingFetch(d, r, rest), before)
    BY <1>2, <1>6, <2>1
  <2>3. /\ d \in Domains /\ rest \in Seq(Domains)
        /\ \A e \in Elements(ids) : e = d \/ e \in Elements(rest)
    BY <1>6, <2>1, HeadOrTail
  <2>4. r \in Nat /\ routingFetches \in Seq(Fetches) /\ ss \in Seq(Switches)
    BY <1>1, <1>3, <2>1 DEF RoutingTypes
  <2>5. /\ FetchesKnown(routingFetches, r)
        /\ \A e \in Domains \ tangled :
              Straightforward(routingFetches, switches, r, before, e, routed)
    BY <1>4, <2>1
  <2>6. r = routingRevision' /\ UNCHANGED <<switches, routed>> /\ switches = ss
    BY <2>1
  <2>7. /\ routingFetches' \in Seq(Fetches) /\ states' \in [Domains -> RoutingStates]
        /\ FetchesKnown(routingFetches', r)
        /\ Untangled'
        /\ \A e : e = d \/ e \in Elements(rest) => Covered(routingFetches', r, e)
    BY <1>3, <2>2, <2>3, <2>4, <2>5, <2>6, FetchGoes
  <2>8. FetchesKnown(routingFetches', routingRevision')
    BY <2>6, <2>7
  <2>9. RoutingTypes'
    BY <1>1, <1>3, <2>7 DEF RoutingTypes
  <2>10. Arriving'
    <3>1. \A e \in Elements(listed') : Covered(routingFetches', routingRevision', e)
      BY <2>3, <2>6, <2>7
    <3> QED
      BY <3>1 DEF Arriving
  <2> QED
    BY <2>7, <2>8, <2>9, <2>10 DEF RoutingInv
<1> QED
  BY <1>5, <1>6

LEMMA RoutingListed ==
  ASSUME RoutingInv, Routing!DomainsArrive \/ Routing!ConnectionChecked
  PROVE  RoutingInv'
<1>1. RoutingTypes
  BY DEF RoutingInv
<1>2. UNCHANGED <<switches, target, routed>>
  BY DEF Routing!DomainsArrive, Routing!ConnectionChecked, Routing!routingDialogs
<1>3. /\ listed' \in Seq(Domains)
      /\ canFetch' => Routing!Refresh(listed')
      /\ Routing!Refresh(listed') \/ UNCHANGED <<states, routingRevision, routingFetches, tangled>>
  <2>1. CASE Routing!DomainsArrive
    <3>1. listed' \in {<<>>} \cup Routing!Orders(Domains)
      BY <2>1 DEF Routing!DomainsArrive
    <3>2. Routing!Cardinality(Domains) \in Nat
      BY ScreensAssumption, FS_CardinalityType DEF ScreensAssumption, Routing!Cardinality, Cardinality
    <3>3. Routing!Orders(Domains) \subseteq [1 .. Routing!Cardinality(Domains) -> Domains]
      BY DEF Routing!Orders
    <3>4. PICK n \in Nat : n = Routing!Cardinality(Domains)
      BY <3>2
    <3>5. listed' = <<>> \/ listed' \in [1 .. n -> Domains]
      BY <3>1, <3>3, <3>4
    <3>6. CASE listed' \in [1 .. n -> Domains]
      <4>1. PICK f \in [1 .. n -> Domains] : f = listed'
        BY <3>6
      <4>2. f \in Seq(Domains)
        BY ListOf
      <4> QED
        BY <2>1, <4>1, <4>2 DEF Routing!DomainsArrive
    <3>7. CASE listed' = <<>>
      <4>1. listed' \in Seq(Domains)
        BY <3>7, EmptySeq
      <4> QED
        BY <2>1, <4>1 DEF Routing!DomainsArrive
    <3> QED
      BY <3>5, <3>6, <3>7
  <2>2. CASE Routing!ConnectionChecked
    BY <1>1, <2>2 DEF Routing!ConnectionChecked, RoutingTypes
  <2> QED
    BY <2>1, <2>2
<1>4. CASE Routing!Refresh(listed')
  <2>1. PICK ids \in Seq(Domains) : ids = listed'
    BY <1>3
  <2>2. Routing!Refresh(ids) /\ listed' = ids
    BY <1>4, <2>1
  <2> QED
    BY <1>2, <2>2, RoutingRefreshes
<1>5. CASE ~canFetch' /\ UNCHANGED <<states, routingRevision, routingFetches, tangled>>
  <2>1. RoutingTypes' /\ Untangled' /\ FetchesKnown(routingFetches', routingRevision')
    BY <1>1, <1>2, <1>3, <1>5 DEF RoutingInv, RoutingTypes, Untangled
  <2>2. Arriving'
    BY <1>5 DEF Arriving
  <2> QED
    BY <2>1, <2>2 DEF RoutingInv
<1> QED
  BY <1>3, <1>4, <1>5

\* The answer of fetch i is dropped.
LEMMA RoutingDropped ==
  ASSUME RoutingInv, NEW i \in DOMAIN routingFetches, routingFetches[i].rev # routingRevision,
         routingFetches' = Without(routingFetches, i),
         UNCHANGED <<states, tangled, listed, canFetch, routingRevision, switches, target, routed>>
  PROVE  RoutingInv'
<1>1. RoutingTypes
  BY DEF RoutingInv
<1>2. PICK ss \in Seq(Switches) : ss = switches
  BY <1>1 DEF RoutingTypes
<1>3. PICK fs \in Seq(Fetches) : fs = routingFetches
  BY <1>1 DEF RoutingTypes
<1>4. PICK r, on : r = routingRevision /\ on = routed
  OBVIOUS
<1>5. i \in DOMAIN fs
  BY <1>3
<1>6. /\ Without(fs, i) \in Seq(Fetches)
      /\ FetchesKnown(fs, r) => FetchesKnown(Without(fs, i), r)
      /\ \A d : Alone(fs, ss, r, d) => Alone(Without(fs, i), ss, r, d)
      /\ \A d : MeetsNow(fs, r, d, on) => MeetsNow(Without(fs, i), r, d, on)
      /\ \A d : Covered(fs, r, d) =>
              \/ Covered(Without(fs, i), r, d)
              \/ fs[i].rev = r /\ (d = fs[i].of \/ d \in Elements(fs[i].rest))
  BY <1>5, OneFewer
<1>7. PICK after : after = Without(fs, i)
  OBVIOUS
<1>8. RoutingTypes'
  BY <1>1, <1>3, <1>6 DEF RoutingTypes
<1>9. FetchesKnown(routingFetches', routingRevision')
  BY <1>3, <1>4, <1>6 DEF RoutingInv
<1>10. Untangled'
  <2> SUFFICES ASSUME NEW d \in Domains \ tangled
               PROVE  Straightforward(after, switches, routingRevision, states, d, routed)
    BY <1>3, <1>7 DEF Untangled
  <2>1. Alone(fs, ss, r, d) /\ MeetsNow(fs, r, d, on) /\ ShownNow(states, d, routed)
    BY <1>2, <1>3, <1>4 DEF RoutingInv, Untangled, Straightforward
  <2> QED
    BY <1>2, <1>4, <1>6, <1>7, <2>1 DEF Straightforward
<1>11. Arriving'
  <2> SUFFICES ASSUME canFetch, NEW d \in Elements(listed), states[d].status \in {"idle", "loading"}
               PROVE  Covered(after, r, d) \/ BeingSwitched(switches, d)
    BY <1>3, <1>4, <1>7 DEF Arriving
  <2>1. Covered(fs, r, d) \/ BeingSwitched(switches, d)
    BY <1>3, <1>4 DEF RoutingInv, Arriving
  <2> QED
    BY <1>3, <1>4, <1>6, <1>7, <2>1
<1> QED
  BY <1>8, <1>9, <1>10, <1>11 DEF RoutingInv

\* The answer of fetch i is shown, and its refresh goes on or has ended.
LEMMA RoutingTaken ==
  ASSUME RoutingInv, NEW i \in DOMAIN routingFetches, routingFetches[i].rev = routingRevision,
         NEW state \in RoutingStates, state.status \in {"ready", "error"},
         state.status = "ready" => state.enabled \in routingFetches[i].met,
         Routing!Fetched(i, state),
         UNCHANGED <<listed, canFetch, routingRevision, switches, target, routed>>
  PROVE  RoutingInv'
<1>1. RoutingTypes
  BY DEF RoutingInv
<1>2. PICK ss \in Seq(Switches) : ss = switches
  BY <1>1 DEF RoutingTypes
<1>3. PICK fs \in Seq(Fetches) : fs = routingFetches
  BY <1>1 DEF RoutingTypes
<1>4. PICK r \in Nat, on \in SUBSET Domains : r = routingRevision /\ on = routed
  BY <1>1 DEF RoutingTypes
<1>5. PICK of, rest, met : of = fs[i].of /\ rest = fs[i].rest /\ met = fs[i].met
  OBVIOUS
<1>6. i \in DOMAIN fs /\ fs[i].rev = r
  BY <1>3, <1>4
<1>7. of \in Domains /\ rest \in Seq(Domains) /\ met \subseteq BOOLEAN
  BY <1>5, <1>6, FetchTyped
<1>8. /\ Without(fs, i) \in Seq(Fetches)
      /\ FetchesKnown(fs, r) => FetchesKnown(Without(fs, i), r)
      /\ \A d : Alone(fs, ss, r, d) => Alone(Without(fs, i), ss, r, d)
      /\ \A d : MeetsNow(fs, r, d, on) => MeetsNow(Without(fs, i), r, d, on)
      /\ \A d : Covered(fs, r, d) =>
              \/ Covered(Without(fs, i), r, d)
              \/ fs[i].rev = r /\ (d = fs[i].of \/ d \in Elements(fs[i].rest))
  BY <1>6, OneFewer
<1>9. PICK others : others = Without(fs, i)
  OBVIOUS
<1>10. PICK known : known = [states EXCEPT ![of] = state]
  OBVIOUS
<1>11. IF rest # <<>>
       THEN Routing!FetchOne(others, Routing!RoutingFetch(Head(rest), r, Tail(rest)), known)
       ELSE routingFetches' = others /\ states' = known /\ UNCHANGED tangled
  BY <1>3, <1>5, <1>6, <1>9, <1>10 DEF Routing!Fetched, Routing!Without, Without
<1>12. /\ known \in [Domains -> RoutingStates]
       /\ known[of] = state
       /\ \A e \in Domains : e # of => known[e] = states[e]
  BY <1>1, <1>7, <1>10 DEF RoutingTypes
<1>13. others \in Seq(Fetches) /\ FetchesKnown(others, r)
  BY <1>3, <1>4, <1>8, <1>9 DEF RoutingInv
<1>14. ASSUME NEW e \in Domains \ tangled
       PROVE  Straightforward(others, switches, r, known, e, routed)
  <2>1. Alone(fs, ss, r, e) /\ MeetsNow(fs, r, e, on) /\ ShownNow(states, e, on)
    BY <1>2, <1>3, <1>4 DEF RoutingInv, Untangled, Straightforward
  <2>2. Alone(others, switches, r, e) /\ MeetsNow(others, r, e, routed)
    BY <1>2, <1>4, <1>8, <1>9, <2>1
  <2>3. CASE e # of
    <3>1. ShownNow(known, e, routed)
      BY <1>4, <1>12, <2>1, <2>3 DEF ShownNow
    <3> QED
      BY <2>2, <3>1 DEF Straightforward
  <2>4. CASE e = of
    <3>1. (TRUE \in met => e \in routed) /\ (FALSE \in met => e \notin routed)
      BY <1>4, <1>5, <1>6, <2>1, <2>4 DEF MeetsNow
    <3>2. state.status = "ready" => state.enabled \in met
      BY <1>3, <1>5
    <3>3. state.status = "ready" =>
            (state.enabled = TRUE /\ e \in routed) \/ (state.enabled = FALSE /\ e \notin routed)
      BY <1>7, <3>1, <3>2
    <3>4. ShownNow(known, e, routed)
      BY <1>12, <2>4, <3>3 DEF ShownNow
    <3> QED
      BY <2>2, <3>4 DEF Straightforward
  <2> QED
    BY <2>3, <2>4
<1>15. ASSUME canFetch, NEW d \in Domains, d \in Elements(listed), known[d].status \in {"idle", "loading"}
       PROVE  \/ Covered(others, r, d) \/ BeingSwitched(switches, d)
              \/ d \in Elements(rest)
  <2>1. d # of
    BY <1>12, <1>15
  <2>2. states[d].status \in {"idle", "loading"}
    BY <1>12, <1>15, <2>1
  <2>3. Covered(fs, r, d) \/ BeingSwitched(switches, d)
    BY <1>3, <1>4, <1>15, <2>2 DEF RoutingInv, Arriving
  <2> QED
    BY <1>5, <1>8, <1>9, <2>1, <2>3
<1>16. ASSUME NEW d \in Elements(listed) PROVE d \in Domains
  <2>1. PICK k \in DOMAIN listed : d = listed[k]
    BY <1>16 DEF Elements
  <2> QED
    BY <1>1, <2>1, ElementOf DEF RoutingTypes
<1>17. CASE rest = <<>>
  <2>1. routingFetches' = others /\ states' = known /\ UNCHANGED tangled
    BY <1>11, <1>17
  <2>2. RoutingTypes'
    BY <1>1, <1>12, <1>13, <2>1 DEF RoutingTypes
  <2>3. FetchesKnown(routingFetches', routingRevision') /\ Untangled'
    BY <1>4, <1>13, <1>14, <2>1 DEF Untangled
  <2>4. Elements(rest) = {}
    BY <1>17 DEF Elements
  <2>5. Arriving'
    BY <1>4, <1>15, <1>16, <2>1, <2>4 DEF Arriving
  <2> QED
    BY <2>2, <2>3, <2>5 DEF RoutingInv
<1>18. CASE rest # <<>>
  <2>1. PICK d, more : d = Head(rest) /\ more = Tail(rest)
    OBVIOUS
  <2>2. Routing!FetchOne(others, Routing!RoutingFetch(d, r, more), known)
    BY <1>11, <1>18, <2>1
  <2>3. /\ d \in Domains /\ more \in Seq(Domains)
        /\ \A e \in Elements(rest) : e = d \/ e \in Elements(more)
    BY <1>7, <1>18, <2>1, HeadOrTail
  <2>4. /\ r = routingRevision' /\ UNCHANGED <<switches, routed>> /\ switches = ss
        /\ FetchesKnown(others, r)
        /\ \A e \in Domains \ tangled : Straightforward(others, switches, r, known, e, routed)
    BY <1>2, <1>4, <1>13, <1>14
  <2>5. /\ routingFetches' \in Seq(Fetches) /\ states' \in [Domains -> RoutingStates]
        /\ FetchesKnown(routingFetches', r)
        /\ Untangled'
        /\ \A e : e = d \/ e \in Elements(more) => Covered(routingFetches', r, e)
        /\ \A e : Covered(others, r, e) => Covered(routingFetches', r, e)
        /\ \A e \in Domains : e # d => states'[e] = known[e]
    BY <1>12, <1>13, <2>2, <2>3, <2>4, FetchGoes
  <2>6. RoutingTypes'
    BY <1>1, <2>5 DEF RoutingTypes
  <2>7. Arriving'
    <3> SUFFICES ASSUME canFetch, NEW e \in Elements(listed), states'[e].status \in {"idle", "loading"}
                 PROVE  Covered(routingFetches', r, e) \/ BeingSwitched(switches, e)
      BY <1>4 DEF Arriving
    <3>1. e \in Domains
      BY <1>16
    <3>2. CASE e = d
      BY <2>5, <3>2
    <3>3. CASE e # d
      <4>1. known[e].status \in {"idle", "loading"}
        BY <2>5, <3>1, <3>3
      <4>2. Covered(others, r, e) \/ BeingSwitched(switches, e) \/ e \in Elements(rest)
        BY <1>15, <3>1, <4>1
      <4> QED
        BY <2>3, <2>5, <4>2
    <3> QED
      BY <3>2, <3>3
  <2>8. FetchesKnown(routingFetches', routingRevision')
    BY <1>4, <2>5
  <2> QED
    BY <2>5, <2>6, <2>7, <2>8 DEF RoutingInv
<1> QED
  BY <1>17, <1>18

LEMMA RoutingAnswered == ASSUME RoutingInv, Routing!FetchAnswered PROVE RoutingInv'
<1>1. PICK i \in DOMAIN routingFetches :
        \E state \in {Routing!Ready(e) : e \in routingFetches[i].met} \cup {Routing!Failed} :
          Routing!EndFetch(i, state)
  BY DEF Routing!FetchAnswered
<1>2. PICK state \in {Routing!Ready(e) : e \in routingFetches[i].met} \cup {Routing!Failed} :
        Routing!EndFetch(i, state)
  BY <1>1
<1>3. UNCHANGED <<listed, canFetch, routingRevision, switches, target, routed>>
  BY DEF Routing!FetchAnswered, Routing!routingDialogs
<1>4. routingFetches[i].met \subseteq BOOLEAN
  BY FetchTyped DEF RoutingInv, RoutingTypes
<1>5. /\ state \in RoutingStates /\ state.status \in {"ready", "error"}
      /\ state.status = "ready" => state.enabled \in routingFetches[i].met
  <2>1. CASE state = Routing!Failed
    BY <2>1 DEF Routing!Failed, RoutingStates
  <2>2. CASE state \in {Routing!Ready(e) : e \in routingFetches[i].met}
    <3>1. PICK e \in routingFetches[i].met : state = [status |-> "ready", enabled |-> e]
      BY <2>2 DEF Routing!Ready
    <3> QED
      BY <1>4, <3>1 DEF RoutingStates
  <2> QED
    BY <1>2, <2>1, <2>2
<1>6. CASE routingFetches[i].rev = routingRevision
  <2>1. Routing!Fetched(i, state)
    BY <1>2, <1>6 DEF Routing!EndFetch, Routing!Live
  <2> QED
    BY <1>3, <1>5, <1>6, <2>1, RoutingTaken
<1>7. CASE routingFetches[i].rev # routingRevision
  <2>1. routingFetches' = Without(routingFetches, i) /\ UNCHANGED <<states, tangled>>
    BY <1>2, <1>7 DEF Routing!EndFetch, Routing!Live, Routing!Without, Without
  <2> QED
    BY <1>3, <1>7, <2>1, RoutingDropped
<1> QED
  BY <1>6, <1>7

LEMMA ListedKnown == ASSUME RoutingTypes, NEW d \in Elements(listed) PROVE d \in Domains
<1>1. PICK k \in DOMAIN listed : d = listed[k]
  BY DEF Elements
<1> QED
  BY <1>1, ElementOf DEF RoutingTypes

LEMMA RoutingRetries == ASSUME RoutingInv, Routing!RetryFetch PROVE RoutingInv'
<1>1. RoutingTypes
  BY DEF RoutingInv
<1>2. PICK d \in Elements(listed) :
        Routing!FetchOne(routingFetches, Routing!RoutingFetch(d, routingRevision, <<>>), states)
  BY DEF Routing!RetryFetch, Routing!Elements, Elements
<1>3. UNCHANGED <<listed, canFetch, routingRevision, switches, target, routed>>
  BY DEF Routing!RetryFetch, Routing!routingDialogs
<1>4. PICK fs \in Seq(Fetches), ss \in Seq(Switches), r \in Nat, before \in [Domains -> RoutingStates] :
        fs = routingFetches /\ ss = switches /\ r = routingRevision /\ before = states
  BY <1>1 DEF RoutingTypes
<1>5. PICK rest \in Seq(Domains) : rest = <<>>
  BY EmptySeq
<1>6. d \in Domains
  BY <1>1, ListedKnown
<1>7. Routing!FetchOne(fs, Routing!RoutingFetch(d, r, rest), before)
  BY <1>2, <1>4, <1>5
<1>8. /\ r = routingRevision' /\ UNCHANGED <<switches, routed>> /\ switches = ss
      /\ FetchesKnown(fs, r)
      /\ \A e \in Domains \ tangled : Straightforward(fs, switches, r, before, e, routed)
  BY <1>3, <1>4 DEF RoutingInv, Untangled
<1>9. /\ routingFetches' \in Seq(Fetches) /\ states' \in [Domains -> RoutingStates]
      /\ FetchesKnown(routingFetches', r)
      /\ Untangled'
      /\ \A e : e = d \/ e \in Elements(rest) => Covered(routingFetches', r, e)
      /\ \A e : Covered(fs, r, e) => Covered(routingFetches', r, e)
      /\ \A e \in Domains : e # d => states'[e] = before[e]
  BY <1>6, <1>7, <1>8, FetchGoes
<1>10. RoutingTypes' /\ FetchesKnown(routingFetches', routingRevision')
  BY <1>1, <1>3, <1>4, <1>9 DEF RoutingTypes
<1>11. Arriving'
  <2> SUFFICES ASSUME canFetch, NEW e \in Elements(listed), states'[e].status \in {"idle", "loading"}
               PROVE  Covered(routingFetches', r, e) \/ BeingSwitched(switches, e)
    BY <1>3, <1>4 DEF Arriving
  <2>1. e \in Domains
    BY <1>1, ListedKnown
  <2>2. CASE e = d
    BY <1>9, <2>2
  <2>3. CASE e # d
    <3>1. states[e].status \in {"idle", "loading"}
      BY <1>4, <1>9, <2>1, <2>3
    <3>2. Covered(fs, r, e) \/ BeingSwitched(switches, e)
      BY <1>4, <3>1 DEF RoutingInv, Arriving
    <3> QED
      BY <1>9, <3>2
  <2> QED
    BY <2>2, <2>3
<1> QED
  BY <1>9, <1>10, <1>11 DEF RoutingInv

\* A dialog opens or closes.
LEMMA RoutingDialogs ==
  ASSUME RoutingInv, Routing!OpenSwitch \/ Routing!CloseSwitch
  PROVE  RoutingInv'
<1>1. RoutingTypes
  BY DEF RoutingInv
<1>2. UNCHANGED <<listed, canFetch, routingRevision, routingFetches, states, switches, routed, tangled>>
  BY DEF Routing!OpenSwitch, Routing!CloseSwitch, Routing!fetchVars
<1>3. target' \in [{"enable", "disable"} -> Domains \cup {None}]
  <2>1. CASE Routing!OpenSwitch
    <3>1. PICK d \in Elements(listed), k \in {"enable", "disable"} : target' = [target EXCEPT ![k] = d]
      BY <2>1 DEF Routing!OpenSwitch, Routing!Elements, Elements
    <3>2. d \in Domains
      BY <1>1, ListedKnown
    <3> QED
      BY <1>1, <3>1, <3>2 DEF RoutingTypes
  <2>2. CASE Routing!CloseSwitch
    BY <1>1, <2>2 DEF Routing!CloseSwitch, RoutingTypes
  <2> QED
    BY <2>1, <2>2
<1>4. RoutingTypes'
  BY <1>1, <1>2, <1>3 DEF RoutingTypes
<1>5. Untangled' /\ Arriving'
  BY <1>2 DEF RoutingInv, Untangled, Arriving
<1> QED
  BY <1>2, <1>4, <1>5 DEF RoutingInv

LEMMA RoutingConfirmed == ASSUME RoutingInv, Routing!ConfirmSwitch PROVE RoutingInv'
<1>1. RoutingTypes
  BY DEF RoutingInv
<1>2. PICK k \in {"enable", "disable"} :
        /\ target[k] # None
        /\ switches' = Append(switches, [of |-> target[k], dialog |-> k])
        /\ states' = [states EXCEPT ![target[k]] = Routing!Loading]
        /\ tangled' = IF Routing!Switched(target[k]) \/ \E i \in DOMAIN routingFetches :
                           routingFetches[i].of = target[k] /\ Routing!Live(routingFetches[i])
                      THEN tangled \cup {target[k]} ELSE tangled
  BY DEF Routing!ConfirmSwitch, Routing!Dialogs
<1>3. UNCHANGED <<listed, canFetch, routingRevision, routingFetches, target, routed>>
  BY DEF Routing!ConfirmSwitch, Routing!fetchVars
<1>4. PICK d \in Domains : d = target[k]
  BY <1>1, <1>2 DEF RoutingTypes
<1>5. PICK ss \in Seq(Switches), s \in Switches : ss = switches /\ s = [of |-> d, dialog |-> k]
  BY <1>1, <1>4 DEF RoutingTypes, Switches
<1>6. PICK n : n = Len(ss) + 1
  OBVIOUS
<1>7. /\ switches' = Append(ss, s) /\ s.of = d
      /\ states' = [states EXCEPT ![d] = [status |-> "loading", enabled |-> None]]
      /\ d \notin tangled' =>
           /\ ~BeingSwitched(ss, d)
           /\ \A i \in DOMAIN routingFetches :
                routingFetches[i].of = d => routingFetches[i].rev # routingRevision
      /\ tangled \subseteq tangled'
  BY <1>2, <1>4, <1>5 DEF Routing!Switched, Routing!Live, BeingSwitched, Routing!Loading
<1>8. /\ switches' \in Seq(Switches) /\ n \in DOMAIN switches' /\ switches'[n] = s
      /\ \A i \in DOMAIN ss : i \in DOMAIN switches' /\ switches'[i] = ss[i]
      /\ \A i \in DOMAIN switches' : i \in DOMAIN ss \/ i = n
  BY <1>6, <1>7, Appended
<1>9. /\ states' \in [Domains -> RoutingStates] /\ states'[d].status = "loading"
      /\ \A e \in Domains : e # d => states'[e] = states[e]
  BY <1>1, <1>7 DEF RoutingTypes, RoutingStates
<1>10. RoutingTypes'
  BY <1>1, <1>3, <1>8, <1>9 DEF RoutingTypes
<1>11. Untangled'
  <2> SUFFICES ASSUME NEW e \in Domains, e \notin tangled'
               PROVE  Straightforward(routingFetches, switches', routingRevision, states', e, routed)
    BY <1>3 DEF Untangled
  <2>1. /\ Alone(routingFetches, ss, routingRevision, e)
        /\ MeetsNow(routingFetches, routingRevision, e, routed) /\ ShownNow(states, e, routed)
    BY <1>5, <1>7 DEF RoutingInv, Untangled, Straightforward
  <2>2. CASE e = d
    <3>1. Alone(routingFetches, switches', routingRevision, e)
      BY <1>7, <1>8, <2>1, <2>2 DEF Alone, BeingSwitched
    <3>2. ShownNow(states', e, routed)
      BY <1>9, <2>2 DEF ShownNow
    <3> QED
      BY <2>1, <3>1, <3>2 DEF Straightforward
  <2>3. CASE e # d
    <3>1. Alone(routingFetches, switches', routingRevision, e)
      BY <1>7, <1>8, <2>1, <2>3 DEF Alone
    <3>2. ShownNow(states', e, routed)
      BY <1>9, <2>1, <2>3 DEF ShownNow
    <3> QED
      BY <2>1, <3>1, <3>2 DEF Straightforward
  <2> QED
    BY <2>2, <2>3
<1>12. Arriving'
  <2> SUFFICES ASSUME canFetch, NEW e \in Elements(listed), states'[e].status \in {"idle", "loading"}
               PROVE  Covered(routingFetches, routingRevision, e) \/ BeingSwitched(switches', e)
    BY <1>3 DEF Arriving
  <2>1. e \in Domains
    BY <1>1, ListedKnown
  <2>2. CASE e = d
    BY <1>7, <1>8, <2>2 DEF BeingSwitched
  <2>3. CASE e # d
    <3>1. Covered(routingFetches, routingRevision, e) \/ BeingSwitched(ss, e)
      BY <1>5, <1>9, <2>1, <2>3 DEF RoutingInv, Arriving
    <3> QED
      BY <1>8, <3>1 DEF BeingSwitched
  <2> QED
    BY <2>2, <2>3
<1> QED
  BY <1>3, <1>10, <1>11, <1>12 DEF RoutingInv

\* One switch fewer.
LEMMA FewerSwitches ==
  ASSUME NEW ss \in Seq(Switches), NEW i \in DOMAIN ss, NEW fs, NEW r
  PROVE  /\ Without(ss, i) \in Seq(Switches)
         /\ \A d : Alone(fs, ss, r, d) => Alone(fs, Without(ss, i), r, d)
         /\ \A d : BeingSwitched(ss, d) => BeingSwitched(Without(ss, i), d) \/ d = ss[i].of
<1> DEFINE after == Without(ss, i)
<1>1. /\ after \in Seq(Switches)
      /\ \A j \in DOMAIN after : Place(i, j) \in DOMAIN ss /\ after[j] = ss[Place(i, j)]
      /\ \A j, k \in DOMAIN after : Place(i, j) = Place(i, k) => j = k
      /\ \A k \in DOMAIN ss : k # i => \E j \in DOMAIN after : Place(i, j) = k
  BY RemovedPlaces
<1> HIDE DEF after
<1>2. ASSUME NEW d, Alone(fs, ss, r, d) PROVE Alone(fs, after, r, d)
  <2>1. ASSUME NEW j \in DOMAIN after, NEW k \in DOMAIN after, after[j].of = d, after[k].of = d
        PROVE  j = k
    <3>1. Place(i, j) = Place(i, k)
      BY <1>1, <1>2, <2>1 DEF Alone
    <3> QED
      BY <1>1, <2>1, <3>1
  <2>2. ASSUME NEW j \in DOMAIN fs, NEW k \in DOMAIN after, fs[j].of = d, fs[j].rev = r
        PROVE  after[k].of # d
    BY <1>1, <1>2, <2>2 DEF Alone
  <2> QED
    BY <1>2, <2>1, <2>2 DEF Alone
<1>3. ASSUME NEW d, BeingSwitched(ss, d) PROVE BeingSwitched(after, d) \/ d = ss[i].of
  <2>1. PICK k \in DOMAIN ss : ss[k].of = d
    BY <1>3 DEF BeingSwitched
  <2>2. CASE k = i
    BY <2>1, <2>2
  <2>3. CASE k # i
    <3>1. PICK j \in DOMAIN after : Place(i, j) = k
      BY <1>1, <2>3
    <3> QED
      BY <1>1, <2>1, <3>1 DEF BeingSwitched
  <2> QED
    BY <2>2, <2>3
<1> QED
  BY <1>1, <1>2, <1>3 DEF after

\* The same fetches, those of d meeting what may have become of it.
Alike(gs, fs, d) ==
  /\ gs \in Seq(Fetches) /\ DOMAIN gs = DOMAIN fs
  /\ \A i \in DOMAIN fs :
       /\ gs[i].of = fs[i].of /\ gs[i].rev = fs[i].rev /\ gs[i].rest = fs[i].rest
       /\ fs[i].of # d => gs[i].met = fs[i].met

LEMMA MetToo ==
  ASSUME NEW fs \in Seq(Fetches), fs = routingFetches, NEW d \in Domains, NEW b \in BOOLEAN,
         NEW gs, gs = Routing!MeetsToo(d, b)
  PROVE  Alike(gs, fs, d)
<1>1. gs = [i \in DOMAIN fs |-> IF fs[i].of = d THEN [fs[i] EXCEPT !.met = @ \cup {b}] ELSE fs[i]]
  BY DEF Routing!MeetsToo
<1>2. ASSUME NEW i \in DOMAIN fs
      PROVE  /\ gs[i] \in Fetches
             /\ gs[i].of = fs[i].of /\ gs[i].rev = fs[i].rev /\ gs[i].rest = fs[i].rest
             /\ fs[i].of # d => gs[i].met = fs[i].met
  <2>1. PICK f \in Fetches : f = fs[i]
    BY <1>2, ElementOf
  <2>2. gs[i] = IF f.of = d THEN [f EXCEPT !.met = @ \cup {b}] ELSE f
    BY <1>1, <1>2, <2>1
  <2>3. CASE f.of # d
    BY <2>1, <2>2, <2>3
  <2>4. CASE f.of = d
    <3>1. gs[i] = [f EXCEPT !.met = f.met \cup {b}] /\ f.met \cup {b} \in SUBSET BOOLEAN
      BY <2>2, <2>4 DEF Fetches
    <3>2. gs[i] \in Fetches
      BY <3>1 DEF Fetches
    <3>3. gs[i].of = f.of /\ gs[i].rev = f.rev /\ gs[i].rest = f.rest
      BY <3>1 DEF Fetches
    <3> QED
      BY <2>1, <2>4, <3>2, <3>3
  <2> QED
    BY <2>3, <2>4
<1>3. gs \in Seq(Fetches) /\ DOMAIN gs = DOMAIN fs
  <2>1. PICK n \in Nat : n = Len(fs) /\ DOMAIN fs = 1 .. n
    BY LenProperties
  <2>2. DOMAIN gs = 1 .. n /\ gs \in [1 .. n -> Fetches]
    BY <1>1, <1>2, <2>1
  <2> QED
    BY <2>1, <2>2, ListOf
<1> QED
  BY <1>2, <1>3 DEF Alike

LEMMA AlikeCounts ==
  ASSUME NEW fs \in Seq(Fetches), NEW d, NEW gs, Alike(gs, fs, d), NEW ss, NEW r, NEW on, NEW off
  PROVE  /\ FetchesKnown(fs, r) => FetchesKnown(gs, r)
         /\ \A e : Alone(fs, ss, r, e) => Alone(gs, ss, r, e)
         /\ \A e : Covered(fs, r, e) => Covered(gs, r, e)
         /\ \A e : e # d /\ (e \in on <=> e \in off) /\ MeetsNow(fs, r, e, on) => MeetsNow(gs, r, e, off)
<1>1. FetchesKnown(fs, r) => FetchesKnown(gs, r)
  BY DEF Alike, FetchesKnown
<1>2. \A e : Alone(fs, ss, r, e) => Alone(gs, ss, r, e)
  BY DEF Alike, Alone
<1>3. \A e : Covered(fs, r, e) => Covered(gs, r, e)
  BY DEF Alike, Covered
<1>4. \A e : e # d /\ (e \in on <=> e \in off) /\ MeetsNow(fs, r, e, on) => MeetsNow(gs, r, e, off)
  BY DEF Alike, MeetsNow
<1> QED
  BY <1>1, <1>2, <1>3, <1>4

\* Switch i is answered, carried out or not.
LEMMA RoutingSwitched ==
  ASSUME RoutingInv, NEW i \in DOMAIN switches, NEW d \in Domains, d = switches[i].of,
         NEW b \in BOOLEAN, NEW state \in RoutingStates, state.status \in {"ready", "error"},
         \/ Alike(routingFetches', routingFetches, d) /\ routed' = (IF b THEN routed \cup {d} ELSE routed \ {d})
         \/ state.status = "error" /\ UNCHANGED <<routed, routingFetches>>,
         state.status = "ready" => state.enabled = b,
         switches' = Without(switches, i), states' = [states EXCEPT ![d] = state],
         target' \in [{"enable", "disable"} -> Domains \cup {None}],
         UNCHANGED <<listed, canFetch, routingRevision, tangled>>
  PROVE  RoutingInv'
<1>1. RoutingTypes
  BY DEF RoutingInv
<1>2. PICK ss \in Seq(Switches), fs \in Seq(Fetches), r \in Nat, on \in SUBSET Domains :
        ss = switches /\ fs = routingFetches /\ r = routingRevision /\ on = routed
  BY <1>1 DEF RoutingTypes
<1>3. PICK left, gs, off : left = Without(ss, i) /\ gs = routingFetches' /\ off = routed'
  OBVIOUS
<1>4. i \in DOMAIN ss
  BY <1>2
<1>5. /\ Without(ss, i) \in Seq(Switches)
      /\ \A e : Alone(gs, ss, r, e) => Alone(gs, Without(ss, i), r, e)
      /\ \A e : BeingSwitched(ss, e) => BeingSwitched(Without(ss, i), e) \/ e = ss[i].of
  BY <1>4, FewerSwitches
<1>6. Alike(gs, fs, d)
  BY <1>2, <1>3 DEF Alike
<1>7. /\ FetchesKnown(fs, r) => FetchesKnown(gs, r)
      /\ \A e : Alone(fs, ss, r, e) => Alone(gs, ss, r, e)
      /\ \A e : Covered(fs, r, e) => Covered(gs, r, e)
      /\ \A e : e # d /\ (e \in on <=> e \in off) /\ MeetsNow(fs, r, e, on) => MeetsNow(gs, r, e, off)
  BY <1>6, AlikeCounts, ZenonT(60)
<1>8. /\ \A e \in Domains : e # d => (e \in on <=> e \in off)
      /\ off \subseteq Domains
      /\ state.status = "ready" =>
           (state.enabled = TRUE /\ d \in off) \/ (state.enabled = FALSE /\ d \notin off)
  BY <1>1, <1>2, <1>3 DEF RoutingTypes
<1>9. /\ states' \in [Domains -> RoutingStates] /\ states'[d] = state
      /\ \A e \in Domains : e # d => states'[e] = states[e]
  BY <1>1 DEF RoutingTypes
<1>10. RoutingTypes' /\ FetchesKnown(routingFetches', routingRevision')
  BY <1>1, <1>2, <1>3, <1>5, <1>6, <1>7, <1>8, <1>9 DEF RoutingTypes, RoutingInv, Alike
<1>11. Untangled'
  <2> SUFFICES ASSUME NEW e \in Domains \ tangled
               PROVE  Straightforward(gs, left, r, states', e, off)
    BY <1>2, <1>3 DEF Untangled
  <2>1. Alone(fs, ss, r, e) /\ MeetsNow(fs, r, e, on) /\ ShownNow(states, e, on)
    BY <1>2 DEF RoutingInv, Untangled, Straightforward
  <2>2. Alone(gs, left, r, e)
    BY <1>3, <1>5, <1>7, <2>1
  <2>3. CASE e = d
    <3>1. \A j \in DOMAIN gs : ~(gs[j].of = d /\ gs[j].rev = r)
      BY <1>2, <1>4, <1>6, <2>1, <2>3 DEF Alone, Alike
    <3>2. MeetsNow(gs, r, e, off)
      BY <2>3, <3>1 DEF MeetsNow
    <3>3. ShownNow(states', e, off)
      BY <1>8, <1>9, <2>3 DEF ShownNow
    <3> QED
      BY <2>2, <3>2, <3>3 DEF Straightforward
  <2>4. CASE e # d
    <3>1. MeetsNow(gs, r, e, off)
      BY <1>7, <1>8, <2>1, <2>4
    <3>2. ShownNow(states', e, off)
      BY <1>8, <1>9, <2>1, <2>4 DEF ShownNow
    <3> QED
      BY <2>2, <3>1, <3>2 DEF Straightforward
  <2> QED
    BY <2>3, <2>4
<1>12. Arriving'
  <2> SUFFICES ASSUME canFetch, NEW e \in Elements(listed), states'[e].status \in {"idle", "loading"}
               PROVE  Covered(gs, r, e) \/ BeingSwitched(left, e)
    BY <1>2, <1>3 DEF Arriving
  <2>1. e \in Domains
    BY <1>1, ListedKnown
  <2>2. e # d
    BY <1>9
  <2>3. Covered(fs, r, e) \/ BeingSwitched(ss, e)
    BY <1>2, <1>9, <2>1, <2>2 DEF RoutingInv, Arriving
  <2> QED
    BY <1>2, <1>3, <1>5, <1>7, <2>2, <2>3
<1> QED
  BY <1>10, <1>11, <1>12 DEF RoutingInv

LEMMA RoutingSwitches ==
  ASSUME RoutingInv, Routing!SwitchDone \/ Routing!SwitchFails
  PROVE  RoutingInv'
<1>1. RoutingTypes
  BY DEF RoutingInv
<1>2. UNCHANGED <<listed, canFetch, routingRevision, tangled>>
  BY DEF Routing!SwitchDone, Routing!SwitchFails
<1>3. PICK fs \in Seq(Fetches) : fs = routingFetches
  BY <1>1 DEF RoutingTypes
<1>4. CASE Routing!SwitchDone
  <2>1. PICK i \in DOMAIN switches :
          /\ Routing!Answered(i) /\ Routing!Carried(switches[i])
          /\ states' = [states EXCEPT ![switches[i].of] = Routing!Ready(switches[i].dialog = "enable")]
          /\ target' = [target EXCEPT ![switches[i].dialog] = None]
    BY <1>4 DEF Routing!SwitchDone
  <2>2. switches[i] \in Switches
    BY <1>1, ElementOf DEF RoutingTypes
  <2>3. PICK d \in Domains, k \in {"enable", "disable"} : d = switches[i].of /\ k = switches[i].dialog
    BY <2>2 DEF Switches
  <2>4. PICK b \in BOOLEAN : b = (k = "enable")
    <3>1. CASE k = "enable"
      BY <3>1
    <3>2. CASE k # "enable"
      BY <3>2
    <3> QED
      BY <3>1, <3>2
  <2>5. PICK state : state = [status |-> "ready", enabled |-> b]
    OBVIOUS
  <2>6. state \in RoutingStates /\ state.status = "ready" /\ state.enabled = b
    BY <2>5 DEF RoutingStates
  <2>7. /\ switches' = Without(switches, i)
        /\ routed' = IF b THEN routed \cup {d} ELSE routed \ {d}
        /\ routingFetches' = Routing!MeetsToo(d, k = "enable")
    BY <2>1, <2>3, <2>4
       DEF Routing!Answered, Routing!Carried, Routing!Routes, Routing!Without, Without
  <2>8. routingFetches' = Routing!MeetsToo(d, b)
    BY <2>4, <2>7
  <2>9. Alike(routingFetches', fs, d)
    BY <1>3, <2>8, MetToo
  <2>10. states' = [states EXCEPT ![d] = state]
    BY <2>1, <2>3, <2>4, <2>5 DEF Routing!Ready
  <2>11. target' \in [{"enable", "disable"} -> Domains \cup {None}]
    BY <1>1, <2>1, <2>3 DEF RoutingTypes
  <2>12. Alike(routingFetches', routingFetches, d)
    BY <1>3, <2>9
  <2> QED
    BY <1>2, <2>3, <2>6, <2>7, <2>10, <2>11, <2>12, RoutingSwitched
<1>5. CASE Routing!SwitchFails
  <2>1. PICK i \in DOMAIN switches :
          /\ Routing!Answered(i)
          /\ Routing!Carried(switches[i]) \/ UNCHANGED <<routed, routingFetches>>
          /\ states' = [states EXCEPT ![switches[i].of] = Routing!Failed]
    BY <1>5 DEF Routing!SwitchFails
  <2>2. switches[i] \in Switches
    BY <1>1, ElementOf DEF RoutingTypes
  <2>3. PICK d \in Domains, k \in {"enable", "disable"} : d = switches[i].of /\ k = switches[i].dialog
    BY <2>2 DEF Switches
  <2>4. PICK b \in BOOLEAN : b = (k = "enable")
    <3>1. CASE k = "enable"
      BY <3>1
    <3>2. CASE k # "enable"
      BY <3>2
    <3> QED
      BY <3>1, <3>2
  <2>5. PICK state : state = [status |-> "error", enabled |-> None]
    OBVIOUS
  <2>6. state \in RoutingStates /\ state.status = "error"
    BY <2>5 DEF RoutingStates
  <2>7. /\ switches' = Without(switches, i)
        /\ \/ /\ routed' = IF b THEN routed \cup {d} ELSE routed \ {d}
              /\ routingFetches' = Routing!MeetsToo(d, k = "enable")
           \/ UNCHANGED <<routed, routingFetches>>
    BY <2>1, <2>3, <2>4
       DEF Routing!Answered, Routing!Carried, Routing!Routes, Routing!Without, Without
  <2>8. \/ /\ routed' = IF b THEN routed \cup {d} ELSE routed \ {d}
           /\ routingFetches' = Routing!MeetsToo(d, b)
        \/ UNCHANGED <<routed, routingFetches>>
    BY <2>4, <2>7
  <2>9. \/ Alike(routingFetches', routingFetches, d) /\ routed' = (IF b THEN routed \cup {d} ELSE routed \ {d})
        \/ state.status = "error" /\ UNCHANGED <<routed, routingFetches>>
    <3>1. CASE routed' = (IF b THEN routed \cup {d} ELSE routed \ {d}) /\ routingFetches' = Routing!MeetsToo(d, b)
      <4>1. Alike(routingFetches', fs, d)
        BY <1>3, <3>1, MetToo
      <4> QED
        BY <1>3, <3>1, <4>1
    <3>2. CASE UNCHANGED <<routed, routingFetches>>
      BY <2>6, <3>2
    <3> QED
      BY <2>8, <3>1, <3>2
  <2>10. states' = [states EXCEPT ![d] = state]
    BY <2>1, <2>3, <2>5 DEF Routing!Failed
  <2>11. target' \in [{"enable", "disable"} -> Domains \cup {None}]
    BY <1>1, <1>5 DEF RoutingTypes, Routing!SwitchFails
  <2> QED
    BY <1>2, <2>3, <2>6, <2>7, <2>9, <2>10, <2>11, RoutingSwitched
<1> QED
  BY <1>4, <1>5

LEMMA RoutingElsewhere == ASSUME RoutingInv, Routing!SwitchedElsewhere PROVE RoutingInv'
<1>1. RoutingTypes
  BY DEF RoutingInv
<1>2. UNCHANGED <<listed, canFetch, states, routingRevision, switches, target>>
  BY DEF Routing!SwitchedElsewhere, Routing!routingDialogs
<1>3. PICK d \in Domains, b \in BOOLEAN :
        /\ routed' = IF b THEN routed \cup {d} ELSE routed \ {d}
        /\ routingFetches' = Routing!MeetsToo(d, b)
        /\ tangled' = tangled \cup {d}
  BY DEF Routing!SwitchedElsewhere
<1>4. PICK ss \in Seq(Switches), fs \in Seq(Fetches), r \in Nat, on \in SUBSET Domains :
        ss = switches /\ fs = routingFetches /\ r = routingRevision /\ on = routed
  BY <1>1 DEF RoutingTypes
<1>5. PICK gs, off : gs = routingFetches' /\ off = routed'
  OBVIOUS
<1>6. Alike(gs, fs, d)
  BY <1>3, <1>4, <1>5, MetToo
<1>7. /\ FetchesKnown(fs, r) => FetchesKnown(gs, r)
      /\ \A e : Alone(fs, ss, r, e) => Alone(gs, ss, r, e)
      /\ \A e : Covered(fs, r, e) => Covered(gs, r, e)
      /\ \A e : e # d /\ (e \in on <=> e \in off) /\ MeetsNow(fs, r, e, on) => MeetsNow(gs, r, e, off)
  BY <1>6, AlikeCounts
<1>8. off \subseteq Domains /\ \A e \in Domains : e # d => (e \in on <=> e \in off)
  BY <1>1, <1>3, <1>4, <1>5 DEF RoutingTypes
<1>9. RoutingTypes' /\ FetchesKnown(routingFetches', routingRevision')
  BY <1>1, <1>2, <1>4, <1>5, <1>6, <1>7, <1>8 DEF RoutingTypes, RoutingInv, Alike
<1>10. Untangled'
  <2> SUFFICES ASSUME NEW e \in Domains, e \notin tangled, e # d
               PROVE  Straightforward(gs, ss, r, states, e, off)
    BY <1>2, <1>3, <1>4, <1>5 DEF Untangled
  <2>1. Alone(fs, ss, r, e) /\ MeetsNow(fs, r, e, on) /\ ShownNow(states, e, on)
    BY <1>4 DEF RoutingInv, Untangled, Straightforward
  <2>2. Alone(gs, ss, r, e) /\ MeetsNow(gs, r, e, off)
    BY <1>7, <1>8, <2>1
  <2>3. ShownNow(states, e, off)
    BY <1>8, <2>1 DEF ShownNow
  <2> QED
    BY <2>2, <2>3 DEF Straightforward
<1>11. Arriving'
  <2> SUFFICES ASSUME canFetch, NEW e \in Elements(listed), states[e].status \in {"idle", "loading"}
               PROVE  Covered(gs, r, e) \/ BeingSwitched(switches, e)
    BY <1>2, <1>4, <1>5 DEF Arriving
  <2>1. Covered(fs, r, e) \/ BeingSwitched(switches, e)
    BY <1>4 DEF RoutingInv, Arriving
  <2> QED
    BY <1>7, <2>1
<1> QED
  BY <1>9, <1>10, <1>11 DEF RoutingInv

LEMMA RoutingSteps == ASSUME RoutingInv, Routing!Next PROVE RoutingInv'
<1> USE DEF Routing!Next
<1>1. CASE Routing!DomainsArrive \/ Routing!ConnectionChecked
  BY <1>1, RoutingListed
<1>2. CASE Routing!FetchAnswered
  BY <1>2, RoutingAnswered
<1>3. CASE Routing!RetryFetch
  BY <1>3, RoutingRetries
<1>4. CASE Routing!OpenSwitch \/ Routing!CloseSwitch
  BY <1>4, RoutingDialogs
<1>5. CASE Routing!ConfirmSwitch
  BY <1>5, RoutingConfirmed
<1>6. CASE Routing!SwitchDone \/ Routing!SwitchFails
  BY <1>6, RoutingSwitches
<1>7. CASE Routing!SwitchedElsewhere
  BY <1>7, RoutingElsewhere
<1> QED
  BY <1>1, <1>2, <1>3, <1>4, <1>5, <1>6, <1>7

LEMMA RoutingStays == ASSUME RoutingInv, UNCHANGED routingState PROVE RoutingInv'
BY DEF routingState, RoutingInv, RoutingTypes, FetchesKnown, Untangled, Arriving

LEMMA RoutingHolds == RoutingInv => Routing!RoutingShown /\ Routing!RoutingArrives
<1> SUFFICES ASSUME RoutingInv PROVE Routing!RoutingShown /\ Routing!RoutingArrives
  OBVIOUS
<1>1. RoutingTypes
  BY DEF RoutingInv
<1>2. ASSUME NEW d \in Domains \ tangled, states[d].status = "ready"
      PROVE  states[d].enabled = (d \in routed)
  <2>1. ShownNow(states, d, routed)
    BY <1>2 DEF RoutingInv, Untangled, Straightforward
  <2>2. (states[d].enabled = TRUE /\ d \in routed) \/ (states[d].enabled = FALSE /\ d \notin routed)
    BY <1>2, <2>1 DEF ShownNow
  <2>3. CASE d \in routed
    <3>1. states[d].enabled = TRUE /\ (d \in routed) = TRUE
      BY <2>2, <2>3
    <3> QED
      BY <3>1, Zenon
  <2>4. CASE d \notin routed
    <3>1. states[d].enabled = FALSE /\ (d \in routed) = FALSE
      BY <2>2, <2>4
    <3> QED
      BY <3>1, Zenon
  <2> QED
    BY <2>3, <2>4
<1>3. Routing!RoutingShown
  BY <1>2 DEF Routing!RoutingShown
<1>4. \A d : Covered(routingFetches, routingRevision, d) \/ BeingSwitched(switches, d)
        => Routing!Pending(d)
  BY DEF Covered, BeingSwitched, Routing!Pending, Routing!Live, Routing!Switched, Routing!Elements, Elements
<1>5. Routing!RoutingArrives
  BY <1>4 DEF RoutingInv, Arriving, Routing!RoutingArrives, Routing!Elements, Elements
<1> QED
  BY <1>3, <1>5

-----------------------------------------------------------------------------
(* The administration                                                      *)

Servers == [rev : Nat, active : [Rows -> BOOLEAN], deleted : BOOLEAN]
ShownLists == [page : Nat, rev : Nat, active : [Rows -> BOOLEAN]]
Tables == [shown : {None} \cup ShownLists, index : Nat, cursors : Seq(Nat),
           loading : BOOLEAN, error : BOOLEAN]
TableLoads == [page : Nat, rev : Nat, active : [Rows -> BOOLEAN], overtaken : BOOLEAN,
              frees : {"create", "edit", "delete", None}]
FormKinds == {"create", "edit", "delete", "manage"}
Dialogues == [kind : FormKinds \cup {None}, of : [FormKinds -> Rows \cup {None}],
              active : BOOLEAN, was : BOOLEAN, confirm : BOOLEAN, confirmed : BOOLEAN]
Changes == [kind : FormKinds \cup {"toggle"}, of : Rows \cup {None},
            list : {"users", "teams", None}, active : BOOLEAN, was : BOOLEAN,
            confirmed : BOOLEAN, shown : BOOLEAN]

TableTypes ==
  /\ server \in Servers /\ table \in Tables /\ table.index < Len(table.cursors)
  /\ loads \in Seq(TableLoads) /\ own \in Nat /\ raced \in BOOLEAN /\ crossed \in BOOLEAN
FormTypes == dialog \in Dialogues /\ requests \in Seq(Changes)
ManageTypes ==
  /\ linked \in [{"users", "teams"} -> Rows \cup {None}] /\ hasty \in BOOLEAN
  /\ \A f \in fetches : f.of \in Rows \cup {None} /\ f.frees \in BOOLEAN

\* A row is toggled in a list that is shown.
TogglesShown(rs, shown) == \A i \in DOMAIN rs : rs[i].kind = "toggle" => shown \in ShownLists

\* A row that was active is switched off only after asking.
Unasked(x) == x.kind = "edit" /\ x.active = FALSE /\ x.was = TRUE /\ x.confirmed = FALSE
AskedFirst ==
  /\ \A i \in DOMAIN requests : ~Unasked(requests[i])
  /\ view \in {"users", "mailboxes"} => ~Unasked(dialog)

\* What keeps a kind of dialog submitting is one request, or what it waits for.
OneEach(rs, sub, ls, fs) ==
  /\ \A i \in DOMAIN rs : rs[i].kind \in sub
  /\ \A i, j \in DOMAIN rs : rs[i].kind = rs[j].kind => i = j
  /\ \A i \in DOMAIN ls : ls[i].frees # None =>
       ls[i].frees \in sub /\ \A j \in DOMAIN rs : rs[j].kind # ls[i].frees
  /\ \A i, j \in DOMAIN ls : ls[i].frees # None /\ ls[i].frees = ls[j].frees => i = j
  /\ \A f \in fs : f.frees = TRUE =>
       /\ "manage" \in sub /\ \A j \in DOMAIN rs : rs[j].kind # "manage"
       /\ \A g \in fs : g.frees = TRUE => g = f

\* The cursors lead from page to page, and every request is for the page to show.
InStep(cursors, index, ls) ==
  /\ cursors = [i \in DOMAIN cursors |-> i - 1]
  /\ \A i \in DOMAIN ls : ls[i].page = cursors[index + 1]

\* The list is as new as own, and the page to show.
Settled(shown, cursors, index, o, straight) ==
  shown.rev >= o /\ (straight => shown.page = cursors[index + 1])

\* Either an error is shown, or the newest request is still to come, or was the last.
NoneCounts(ls) == \A i \in DOMAIN ls : ls[i].overtaken = TRUE
LastCounts(ls, o) == Len(ls) > 0 /\ ls[Len(ls)].overtaken = FALSE /\ ls[Len(ls)].rev >= o
NewestCounts(tab, ls, o, rc, straight) ==
  \/ tab.error = TRUE
  \/ NoneCounts(ls) /\ (rc = TRUE \/ Settled(tab.shown, tab.cursors, tab.index, o, straight))
  \/ LastCounts(ls, o)

Uncrossed(sv, cr) == cr = FALSE /\ sv.deleted = FALSE
ListFollows ==
  /\ own <= server.rev
  /\ Uncrossed(server, crossed) => InStep(table.cursors, table.index, loads)
  /\ NewestCounts(table, loads, own, raced, Uncrossed(server, crossed))

\* What is linked, or will be, is that of the row in the manage dialog.
LinksBelong ==
  /\ hasty = FALSE =>
       /\ \A l \in {"users", "teams"} : linked[l] \in {None, dialog.of["manage"]}
       /\ \A f \in fetches : f.list \in {"users", "teams"} => f.of = dialog.of["manage"]
  /\ view = "teams" =>
       /\ linked["teams"] = None /\ \A f \in fetches : f.list # "teams"
       /\ \A i \in DOMAIN requests : requests[i].kind = "manage" => requests[i].list # "teams"

AdminInv ==
  /\ TableTypes /\ FormTypes /\ ManageTypes /\ TogglesShown(requests, table.shown)
  /\ AskedFirst /\ OneEach(requests, submitting, loads, fetches) /\ ListFollows /\ LinksBelong

\* A list request fewer, the others at most marked as overtaken.
LEMMA LoadFewer ==
  ASSUME NEW ls \in Seq(TableLoads), NEW i \in DOMAIN ls,
         NEW over \in Seq(TableLoads), DOMAIN over = DOMAIN ls,
         \A j \in DOMAIN ls : over[j].page = ls[j].page /\ over[j].frees = ls[j].frees,
         NEW after, after = Without(over, i)
  PROVE  /\ after \in Seq(TableLoads)
         /\ \A rs, sub, fs, left : left = (IF ls[i].frees = None THEN sub ELSE sub \ {ls[i].frees})
              /\ OneEach(rs, sub, ls, fs) => OneEach(rs, left, after, fs)
         /\ \A cursors, index : InStep(cursors, index, ls) => InStep(cursors, index, after)
<1>1. i \in DOMAIN over
  OBVIOUS
<1>2. /\ after \in Seq(TableLoads)
      /\ \A j \in DOMAIN after :
           Place(i, j) \in DOMAIN over /\ Place(i, j) # i /\ after[j] = over[Place(i, j)]
      /\ \A j, k \in DOMAIN after : Place(i, j) = Place(i, k) => j = k
  BY <1>1, RemovedPlaces
<1>3. \A j \in DOMAIN after :
        /\ Place(i, j) \in DOMAIN ls /\ Place(i, j) # i
        /\ after[j].page = ls[Place(i, j)].page /\ after[j].frees = ls[Place(i, j)].frees
  BY <1>2
<1>4. ASSUME NEW rs, NEW sub, NEW fs, NEW left,
             left = (IF ls[i].frees = None THEN sub ELSE sub \ {ls[i].frees}),
             OneEach(rs, sub, ls, fs)
      PROVE  OneEach(rs, left, after, fs)
  <2>1. ASSUME NEW j \in DOMAIN rs PROVE rs[j].kind \in left
    BY <1>4, <2>1 DEF OneEach
  <2>2. ASSUME NEW j \in DOMAIN after, after[j].frees # None
        PROVE  after[j].frees \in left /\ \A k \in DOMAIN rs : rs[k].kind # after[j].frees
    <3>1. PICK k \in DOMAIN ls : k # i /\ after[j].frees = ls[k].frees
      BY <1>3, <2>2
    <3>2. ls[k].frees # ls[i].frees
      BY <1>4, <2>2, <3>1 DEF OneEach
    <3> QED
      BY <1>4, <2>2, <3>1, <3>2 DEF OneEach
  <2>3. ASSUME NEW j \in DOMAIN after, NEW k \in DOMAIN after, after[j].frees # None,
               after[j].frees = after[k].frees
        PROVE  j = k
    <3>1. Place(i, j) = Place(i, k)
      BY <1>3, <1>4, <2>3 DEF OneEach
    <3> QED
      BY <1>2, <2>3, <3>1
  <2>4. ASSUME NEW f \in fs, f.frees = TRUE
        PROVE  /\ "manage" \in left /\ \A j \in DOMAIN rs : rs[j].kind # "manage"
               /\ \A g \in fs : g.frees = TRUE => g = f
    <3>1. ls[i].frees \in {"create", "edit", "delete", None}
      <4>1. ls[i] \in TableLoads
        BY ElementOf
      <4> QED
        BY <4>1 DEF TableLoads
    <3>2. ls[i].frees # None => ls[i].frees # "manage"
      BY <3>1
    <3> QED
      BY <1>4, <2>4, <3>2 DEF OneEach
  <2> QED
    BY <1>4, <2>1, <2>2, <2>3, <2>4 DEF OneEach
<1>5. ASSUME NEW cursors, NEW index, InStep(cursors, index, ls)
      PROVE  InStep(cursors, index, after)
  BY <1>3, <1>5 DEF InStep
<1> QED
  BY <1>2, <1>4, <1>5

\* Answer i arrives: those that began before it are overtaken.
Overrun(ls, i) ==
  [j \in DOMAIN ls |-> IF j < i THEN [ls[j] EXCEPT !.overtaken = TRUE] ELSE ls[j]]

LEMMA LoadMarks ==
  ASSUME NEW ls \in Seq(TableLoads), NEW i \in DOMAIN ls, NEW j \in DOMAIN ls
  PROVE  /\ Overrun(ls, i)[j] \in TableLoads
         /\ Overrun(ls, i)[j].page = ls[j].page /\ Overrun(ls, i)[j].frees = ls[j].frees
         /\ j < i \/ ls[j].overtaken = TRUE => Overrun(ls, i)[j].overtaken = TRUE
         /\ ~(j < i) => Overrun(ls, i)[j] = ls[j]
<1>1. PICK x \in TableLoads : x = ls[j]
  BY ElementOf
<1>2. Overrun(ls, i)[j] = IF j < i THEN [x EXCEPT !.overtaken = TRUE] ELSE x
  BY <1>1 DEF Overrun
<1>3. CASE j < i
  BY <1>1, <1>2, <1>3 DEF TableLoads
<1>4. CASE ~(j < i)
  BY <1>1, <1>2, <1>4 DEF TableLoads
<1> QED
  BY <1>3, <1>4

LEMMA LoadOvertakes ==
  ASSUME NEW ls \in Seq(TableLoads), NEW i \in DOMAIN ls, NEW over, over = Overrun(ls, i)
  PROVE  /\ over \in Seq(TableLoads) /\ DOMAIN over = DOMAIN ls /\ Len(over) = Len(ls)
         /\ \A j \in DOMAIN ls : over[j].page = ls[j].page /\ over[j].frees = ls[j].frees
<1>1. \A j \in DOMAIN ls : /\ over[j] \in TableLoads
                           /\ over[j].page = ls[j].page /\ over[j].frees = ls[j].frees
  BY LoadMarks
<1>2. PICK n \in Nat : n = Len(ls) /\ DOMAIN ls = 1 .. n
  BY LenProperties
<1>3. DOMAIN over = 1 .. n /\ over \in [1 .. n -> TableLoads]
  BY <1>1, <1>2 DEF Overrun
<1>4. over \in Seq(TableLoads) /\ Len(over) = n
  BY <1>3, ListOf
<1> QED
  BY <1>1, <1>2, <1>3, <1>4

\* The newest request still comes last, or all that are left are overtaken.
LEMMA LoadNewest ==
  ASSUME NEW ls \in Seq(TableLoads), NEW i \in DOMAIN ls, NEW o \in Nat,
         NEW over, over = Overrun(ls, i), NEW after, after = Without(over, i)
  PROVE  /\ NoneCounts(ls) => NoneCounts(after)
         /\ i = Len(ls) => NoneCounts(after)
         /\ i # Len(ls) /\ LastCounts(ls, o) => LastCounts(after, o)
<1>1. /\ over \in Seq(TableLoads) /\ DOMAIN over = DOMAIN ls /\ Len(over) = Len(ls)
      /\ \A j \in DOMAIN ls : /\ j < i \/ ls[j].overtaken = TRUE => over[j].overtaken = TRUE
                              /\ ~(j < i) => over[j] = ls[j]
  BY LoadOvertakes, LoadMarks
<1>2. PICK n \in Nat : n = Len(ls) /\ DOMAIN ls = 1 .. n /\ n = Len(over) /\ i \in 1 .. n
  <2>1. DOMAIN ls = 1 .. Len(ls) /\ Len(ls) \in Nat /\ DOMAIN over = 1 .. Len(over) /\ Len(over) \in Nat
    BY <1>1, LenProperties
  <2> QED
    BY <1>1, <2>1
<1> HIDE DEF Place
<1>3. i \in DOMAIN over
  BY <1>1
<1>4. /\ DOMAIN after = 1 .. n - 1 /\ Len(after) = n - 1
      /\ \A j \in 1 .. n - 1 : after[j] = IF j < i THEN over[j] ELSE over[j + 1]
  BY <1>1, <1>2, <1>3, Removed
<1>5. ASSUME \A j \in DOMAIN ls : ls[j].overtaken = TRUE, NEW j \in DOMAIN after
      PROVE  after[j].overtaken = TRUE
  <2>1. j \in DOMAIN ls /\ j + 1 \in DOMAIN ls
    BY <1>2, <1>4, <1>5
  <2> QED
    BY <1>1, <1>4, <1>5, <2>1
<1>6. ASSUME i = Len(ls), NEW j \in DOMAIN after PROVE after[j].overtaken = TRUE
  <2>1. j \in DOMAIN ls /\ j < i
    BY <1>2, <1>4, <1>6
  <2> QED
    BY <1>1, <1>4, <2>1
<1>7. ASSUME i # Len(ls), ls[Len(ls)].overtaken = FALSE, ls[Len(ls)].rev >= o
      PROVE  Len(after) > 0 /\ after[Len(after)].overtaken = FALSE /\ after[Len(after)].rev >= o
  <2>1. n - 1 \in 1 .. n - 1 /\ ~(n - 1 < i) /\ (n - 1) + 1 = n /\ n \in DOMAIN ls /\ ~(n < i)
    BY <1>2, <1>7
  <2>2. after[n - 1] = ls[n]
    BY <1>1, <1>4, <2>1
  <2> QED
    BY <1>2, <1>4, <1>7, <2>1, <2>2
<1> QED
  BY <1>5, <1>6, <1>7 DEF NoneCounts, LastCounts

\* OneEach is about the kinds of requests.
LEMMA SameKinds ==
  ASSUME NEW rs, NEW qs, DOMAIN qs = DOMAIN rs, \A i \in DOMAIN rs : qs[i].kind = rs[i].kind,
         NEW sub, NEW ls, NEW fs, OneEach(rs, sub, ls, fs)
  PROVE  OneEach(qs, sub, ls, fs)
BY DEF OneEach

LEMMA AdminStarts == Admin!Init => AdminInv
<1> SUFFICES ASSUME Admin!Init PROVE AdminInv
  OBVIOUS
<1>1. PICK load : load = [page |-> 0, rev |-> 0, active |-> [r \in Rows |-> TRUE],
                          overtaken |-> FALSE, frees |-> None]
  OBVIOUS
<1>2. loads = <<load>>
  BY <1>1 DEF Admin!Init, Admin!Request
<1>3. load \in TableLoads
  BY <1>1 DEF TableLoads
<1>4. loads \in Seq(TableLoads) /\ DOMAIN loads = {1} /\ Len(loads) = 1 /\ loads[1] = load
  BY <1>2, <1>3
<1>5. /\ server = [rev |-> 0, active |-> [r \in Rows |-> TRUE], deleted |-> FALSE]
      /\ table = [shown |-> None, index |-> 0, cursors |-> <<0>>, loading |-> TRUE, error |-> FALSE]
      /\ own = 0 /\ raced = FALSE /\ crossed = FALSE /\ hasty = FALSE
      /\ requests = <<>> /\ submitting = {} /\ fetches = {}
      /\ linked = [l \in {"users", "teams"} |-> None]
      /\ dialog = [kind |-> None, of |-> [k \in FormKinds |-> None], active |-> TRUE,
                   was |-> TRUE, confirm |-> FALSE, confirmed |-> FALSE]
  BY DEF Admin!Init, Admin!Kinds, Admin!Lists, FormKinds
<1>6. <<0>> \in Seq(Nat) /\ Len(<<0>>) = 1 /\ <<0>>[1] = 0 /\ DOMAIN <<0>> = {1}
  OBVIOUS
<1>7. TableTypes
  <2>1. server \in Servers
    BY <1>5 DEF Servers
  <2>2. table \in Tables
    BY <1>5, <1>6 DEF Tables
  <2>3. table.index < Len(table.cursors)
    BY <1>5, <1>6
  <2> QED
    BY <1>4, <1>5, <2>1, <2>2, <2>3 DEF TableTypes
<1>8. requests \in Seq(Changes) /\ DOMAIN requests = {}
  BY <1>5, EmptySeq
<1>9. FormTypes
  BY <1>5, <1>8 DEF FormTypes, Dialogues
<1>10. ManageTypes /\ LinksBelong
  BY <1>5, <1>8 DEF ManageTypes, LinksBelong
<1>11. TogglesShown(requests, table.shown) /\ AskedFirst
  BY <1>5, <1>8 DEF TogglesShown, AskedFirst, Unasked
<1>12. OneEach(requests, submitting, loads, fetches)
  BY <1>1, <1>4, <1>5, <1>8 DEF OneEach
<1>13. InStep(table.cursors, table.index, loads)
  <2>1. <<0>> = [i \in {1} |-> i - 1]
    <3>1. <<0>> = [i \in {1} |-> 0] /\ 1 - 1 = 0
      BY <1>6
    <3> QED
      BY <3>1
  <2> QED
    BY <1>1, <1>4, <1>5, <1>6, <2>1 DEF InStep
<1>14. ListFollows
  BY <1>1, <1>4, <1>5, <1>13 DEF ListFollows, NewestCounts, LastCounts
<1> QED
  BY <1>7, <1>9, <1>10, <1>11, <1>12, <1>14 DEF AdminInv

\* What a list request finds.
LEMMA TableKnown ==
  ASSUME TableTypes
  PROVE  /\ table.index \in Nat /\ table.cursors \in Seq(Nat) /\ table.shown \in {None} \cup ShownLists
         /\ table.index + 1 \in DOMAIN table.cursors /\ table.cursors[table.index + 1] \in Nat
         /\ server.rev \in Nat /\ server.active \in [Rows -> BOOLEAN] /\ server.deleted \in BOOLEAN
         /\ table.error \in BOOLEAN /\ table.loading \in BOOLEAN
<1>1. /\ table.index \in Nat /\ table.cursors \in Seq(Nat) /\ table.index < Len(table.cursors)
      /\ table.shown \in {None} \cup ShownLists /\ table.error \in BOOLEAN /\ table.loading \in BOOLEAN
  BY DEF TableTypes, Tables
<1>2. DOMAIN table.cursors = 1 .. Len(table.cursors) /\ Len(table.cursors) \in Nat
  BY <1>1, LenProperties
<1>3. table.index + 1 \in DOMAIN table.cursors
  BY <1>1, <1>2
<1>4. PICK cursors, i : cursors \in Seq(Nat) /\ cursors = table.cursors /\ i = table.index + 1
  BY <1>1
<1>5. cursors[i] \in Nat
  BY <1>3, <1>4, ElementOf
<1> QED
  BY <1>1, <1>3, <1>4, <1>5 DEF TableTypes, Servers

\* The forms and the manage dialog, when only the list moves on.
LEMMA FormsStay ==
  ASSUME AdminInv, UNCHANGED <<view, dialog, linked, fetches, hasty>>,
         requests' \in Seq(Changes), DOMAIN requests' = DOMAIN requests,
         \A i \in DOMAIN requests :
           /\ requests'[i].kind = requests[i].kind /\ requests'[i].list = requests[i].list
           /\ Unasked(requests'[i]) => Unasked(requests[i])
  PROVE  FormTypes' /\ ManageTypes' /\ AskedFirst' /\ LinksBelong'
<1>1. FormTypes /\ ManageTypes /\ AskedFirst /\ LinksBelong
  BY DEF AdminInv
<1>2. FormTypes' /\ ManageTypes'
  BY <1>1 DEF FormTypes, ManageTypes
<1>3. AskedFirst'
  BY <1>1 DEF AskedFirst
<1>4. LinksBelong'
  BY <1>1 DEF LinksBelong
<1> QED
  BY <1>2, <1>3, <1>4

LEMMA AdminLoadArrives == ASSUME AdminInv, Admin!LoadArrives PROVE AdminInv'
<1>1. TableTypes /\ FormTypes /\ ListFollows /\ OneEach(requests, submitting, loads, fetches)
      /\ TogglesShown(requests, table.shown)
  BY DEF AdminInv
<1>0. PICK i \in DOMAIN loads : \E pg \in Admin!ListedPages(loads[i].page) :
        /\ loads' = Admin!Without([j \in DOMAIN loads |->
                      IF j < i THEN [loads[j] EXCEPT !.overtaken = TRUE] ELSE loads[j]], i)
        /\ raced' = loads[i].overtaken
        /\ submitting' = Admin!Freed(loads[i].frees)
        /\ table' = [table EXCEPT !.loading = FALSE, !.cursors = Admin!Pushed(pg),
                                  !.shown = [page |-> pg, rev |-> loads[i].rev,
                                             active |-> loads[i].active]]
  BY DEF Admin!LoadArrives
<1>2. PICK pg \in Admin!ListedPages(loads[i].page) :
        /\ loads' = Admin!Without([j \in DOMAIN loads |->
                      IF j < i THEN [loads[j] EXCEPT !.overtaken = TRUE] ELSE loads[j]], i)
        /\ raced' = loads[i].overtaken
        /\ submitting' = Admin!Freed(loads[i].frees)
        /\ table' = [table EXCEPT !.loading = FALSE, !.cursors = Admin!Pushed(pg),
                                  !.shown = [page |-> pg, rev |-> loads[i].rev,
                                             active |-> loads[i].active]]
  BY <1>0
<1>3. /\ UNCHANGED <<view, server, crossed, dialog, linked, fetches, hasty, own>>
      /\ requests' = [j \in DOMAIN requests |-> [requests[j] EXCEPT !.shown = FALSE]]
  BY DEF Admin!LoadArrives, Admin!manageVars
<1>4. PICK ls \in Seq(TableLoads), rs \in Seq(Changes) : ls = loads /\ rs = requests
  BY <1>1 DEF TableTypes, FormTypes
<1>5. PICK over : over = Overrun(ls, i)
  OBVIOUS
<1>6. PICK after : after = Without(over, i)
  OBVIOUS
<1>7. loads' = after /\ i \in DOMAIN ls
  BY <1>2, <1>4, <1>5, <1>6 DEF Admin!Without, Without, Overrun
<1>8. PICK load : load = ls[i]
  OBVIOUS
<1>9. /\ load \in TableLoads /\ load.page \in Nat /\ load.rev \in Nat
      /\ load.active \in [Rows -> BOOLEAN] /\ load.overtaken \in BOOLEAN
  <2>1. load \in TableLoads
    BY <1>7, <1>8, ElementOf
  <2> QED
    BY <2>1 DEF TableLoads
<1>10. PICK cursors \in Seq(Nat), index \in Nat, o \in Nat :
         cursors = table.cursors /\ index = table.index /\ o = own
  BY <1>1, TableKnown DEF TableTypes
<1>11. index + 1 \in DOMAIN cursors /\ cursors[index + 1] \in Nat
  BY <1>1, <1>10, TableKnown
<1>12. pg \in Nat /\ (server.deleted = FALSE => pg = load.page)
  BY <1>1, <1>2, <1>4, <1>8, <1>9, TableKnown DEF Admin!ListedPages
<1>13. PICK more : more = Admin!Pushed(pg)
  OBVIOUS
<1>14. more = cursors \/ (more = Append(cursors, pg + 1) /\ Len(cursors) = index + 1)
  BY <1>10, <1>13 DEF Admin!Pushed
<1>15. /\ more \in Seq(Nat) /\ index < Len(more) /\ more[index + 1] = cursors[index + 1]
       /\ more = cursors \/
            (/\ Len(cursors) = index + 1 /\ DOMAIN more = 1 .. index + 2
             /\ more[index + 2] = pg + 1 /\ \A j \in DOMAIN cursors : more[j] = cursors[j])
  <2>1. DOMAIN cursors = 1 .. Len(cursors) /\ Len(cursors) \in Nat
    BY LenProperties
  <2>2. pg + 1 \in Nat
    BY <1>12
  <2>3. CASE more = cursors
    BY <1>11, <2>1, <2>3
  <2>4. CASE more = Append(cursors, pg + 1) /\ Len(cursors) = index + 1
    <3>1. /\ more \in Seq(Nat) /\ Len(more) = Len(cursors) + 1 /\ DOMAIN more = 1 .. Len(cursors) + 1
          /\ \A j \in DOMAIN cursors : more[j] = cursors[j]
          /\ more[Len(cursors) + 1] = pg + 1
      BY <2>2, <2>4, Appended
    <3> QED
      BY <1>11, <2>1, <2>4, <3>1
  <2> QED
    BY <1>14, <2>3, <2>4
<1>16. PICK shown : shown = [page |-> pg, rev |-> load.rev, active |-> load.active]
  OBVIOUS
<1>17. shown \in ShownLists /\ shown.page = pg /\ shown.rev = load.rev
  BY <1>9, <1>12, <1>16 DEF ShownLists
<1>18. /\ table' \in Tables /\ table'.index = index /\ table'.cursors = more
       /\ table'.shown = shown /\ table'.error = table.error
  <2>1. table' = [table EXCEPT !.loading = FALSE, !.cursors = more, !.shown = shown]
    BY <1>2, <1>4, <1>8, <1>13, <1>16
  <2> QED
    BY <1>1, <1>10, <1>15, <1>17, <2>1 DEF TableTypes, Tables
<1>19. /\ over \in Seq(TableLoads) /\ DOMAIN over = DOMAIN ls
       /\ \A j \in DOMAIN ls : over[j].page = ls[j].page /\ over[j].frees = ls[j].frees
  BY <1>5, <1>7, LoadOvertakes
<1>20. /\ after \in Seq(TableLoads)
       /\ \A qs, sub, fs, left : left = (IF ls[i].frees = None THEN sub ELSE sub \ {ls[i].frees})
              /\ OneEach(qs, sub, ls, fs) => OneEach(qs, left, after, fs)
       /\ \A cs, n : InStep(cs, n, ls) => InStep(cs, n, after)
  BY <1>6, <1>7, <1>19, LoadFewer
<1>21. /\ NoneCounts(ls) => NoneCounts(after)
       /\ i = Len(ls) => NoneCounts(after)
       /\ i # Len(ls) /\ LastCounts(ls, o) => LastCounts(after, o)
  BY <1>5, <1>6, <1>7, LoadNewest
<1>22. TableTypes'
  BY <1>1, <1>2, <1>3, <1>4, <1>7, <1>8, <1>9, <1>15, <1>18, <1>20 DEF TableTypes
<1>23. OneEach(rs, submitting', after, fetches)
  <2>1. submitting' = (IF ls[i].frees = None THEN submitting ELSE submitting \ {ls[i].frees})
    BY <1>2, <1>4 DEF Admin!Freed
  <2> QED
    BY <1>1, <1>4, <1>20, <2>1
<1>24. /\ requests' \in Seq(Changes) /\ DOMAIN requests' = DOMAIN rs
       /\ \A j \in DOMAIN rs : /\ requests'[j].kind = rs[j].kind /\ requests'[j].list = rs[j].list
                               /\ Unasked(requests'[j]) => Unasked(rs[j])
  <2>1. ASSUME NEW j \in DOMAIN rs
        PROVE  /\ requests'[j] \in Changes
               /\ requests'[j].kind = rs[j].kind /\ requests'[j].list = rs[j].list
               /\ Unasked(requests'[j]) => Unasked(rs[j])
    <3>1. PICK x \in Changes : x = rs[j]
      BY <2>1, ElementOf
    <3>2. requests'[j] = [x EXCEPT !.shown = FALSE]
      BY <1>3, <1>4, <2>1, <3>1
    <3> QED
      BY <3>1, <3>2 DEF Changes, Unasked
  <2>2. PICK n \in Nat : n = Len(rs) /\ DOMAIN rs = 1 .. n
    BY LenProperties
  <2>3. DOMAIN requests' = 1 .. n /\ requests' \in [1 .. n -> Changes]
    BY <1>3, <1>4, <2>1, <2>2
  <2>4. requests' \in Seq(Changes)
    BY <2>3, ListOf
  <2> QED
    BY <2>1, <2>2, <2>3, <2>4
<1>25. OneEach(requests', submitting', loads', fetches')
  BY <1>3, <1>7, <1>23, <1>24, SameKinds
<1>26. TogglesShown(requests', table'.shown)
  BY <1>17, <1>18 DEF TogglesShown
<1>27. FormTypes' /\ ManageTypes' /\ AskedFirst' /\ LinksBelong'
  BY <1>3, <1>4, <1>24, FormsStay
<1>28. ListFollows'
  <2>1. own' <= server'.rev
    BY <1>1, <1>3 DEF ListFollows
  <2>2. ASSUME Uncrossed(server, crossed)
        PROVE  /\ InStep(more, index, after) /\ shown.page = more[index + 1]
    <3>1. InStep(cursors, index, ls)
      BY <1>1, <1>4, <1>10, <2>2 DEF ListFollows
    <3>2. pg = cursors[index + 1]
      BY <1>7, <1>8, <1>12, <2>2, <3>1 DEF InStep, Uncrossed
    <3>3. cursors[index + 1] = (index + 1) - 1
      BY <1>11, <3>1 DEF InStep
    <3>4. pg = index
      BY <1>10, <3>2, <3>3
    <3>5. InStep(cursors, index, after)
      BY <1>20, <3>1
    <3>6. more = [j \in DOMAIN more |-> j - 1]
      <4>1. CASE more = cursors
        BY <3>1, <4>1 DEF InStep
      <4>2. CASE more # cursors
        <5>1. /\ Len(cursors) = index + 1 /\ DOMAIN more = 1 .. index + 2
              /\ more[index + 2] = pg + 1 /\ \A j \in DOMAIN cursors : more[j] = cursors[j]
          BY <1>15, <4>2
        <5>2. DOMAIN cursors = 1 .. index + 1
          BY <5>1, LenProperties
        <5>3. ASSUME NEW j \in DOMAIN more PROVE more[j] = j - 1
          <6>1. CASE j = index + 2
            BY <1>10, <3>4, <5>1, <6>1
          <6>2. CASE j # index + 2
            <7>1. j \in DOMAIN cursors
              BY <1>10, <5>1, <5>2, <5>3, <6>2
            <7>2. cursors[j] = j - 1
              BY <3>1, <7>1 DEF InStep
            <7> QED
              BY <5>1, <7>1, <7>2
          <6> QED
            BY <6>1, <6>2
        <5>4. \E n \in Nat : more \in [1 .. n -> Nat]
          BY <1>15
        <5> QED
          BY <5>3, <5>4
      <4> QED
        BY <4>1, <4>2
    <3> QED
      BY <1>15, <1>17, <3>2, <3>5, <3>6 DEF InStep
  <2>3. NewestCounts(table', after, o, raced', Uncrossed(server, crossed))
    <3>1. NewestCounts(table, ls, o, raced, Uncrossed(server, crossed))
      BY <1>1, <1>4, <1>10 DEF ListFollows
    <3>2. CASE table.error = TRUE
      BY <1>18, <3>2 DEF NewestCounts
    <3>3. CASE NoneCounts(ls)
      <4>1. raced' = TRUE
        BY <1>2, <1>4, <1>7, <3>3 DEF NoneCounts
      <4> QED
        BY <1>21, <3>3, <4>1 DEF NewestCounts
    <3>4. CASE LastCounts(ls, o)
      <4>1. CASE i # Len(ls)
        BY <1>21, <3>4, <4>1 DEF NewestCounts
      <4>2. CASE i = Len(ls)
        <5>1. shown.rev >= o
          BY <1>8, <1>17, <3>4, <4>2 DEF LastCounts
        <5>2. Settled(table'.shown, table'.cursors, table'.index, o, Uncrossed(server, crossed))
          BY <1>18, <2>2, <5>1 DEF Settled
        <5> QED
          BY <1>21, <4>2, <5>2 DEF NewestCounts
      <4> QED
        BY <4>1, <4>2
    <3> QED
      BY <3>1, <3>2, <3>3, <3>4 DEF NewestCounts
  <2>4. Uncrossed(server', crossed') <=> Uncrossed(server, crossed)
    BY <1>3
  <2>5. Uncrossed(server', crossed') => InStep(table'.cursors, table'.index, loads')
    BY <1>7, <1>18, <2>2, <2>4
  <2>6. NewestCounts(table', loads', own', raced', Uncrossed(server', crossed'))
    BY <1>3, <1>7, <1>10, <2>3
  <2> QED
    BY <2>1, <2>5, <2>6 DEF ListFollows
<1> QED
  BY <1>22, <1>25, <1>26, <1>27, <1>28 DEF AdminInv

\* A list request more.
LEMMA LoadAdded ==
  ASSUME NEW ls \in Seq(TableLoads), NEW load \in TableLoads, load.overtaken = FALSE,
         NEW o \in Nat, load.rev >= o, NEW more, more = Append(ls, load)
  PROVE  /\ more \in Seq(TableLoads) /\ LastCounts(more, o)
         /\ \A cursors, index, before :
              /\ cursors = [i \in DOMAIN cursors |-> i - 1] /\ load.page = cursors[index + 1]
              /\ before = index \/ ls = <<>>
              /\ InStep(cursors, before, ls)
              => InStep(cursors, index, more)
         /\ \A rs, sub, fs :
              /\ OneEach(rs, sub, ls, fs)
              /\ \/ load.frees = None
                 \/ /\ load.frees \in sub /\ \A j \in DOMAIN rs : rs[j].kind # load.frees
                    /\ \A i \in DOMAIN ls : ls[i].frees # load.frees
              => OneEach(rs, sub, more, fs)
<1>1. PICK n : n = Len(ls) + 1
  OBVIOUS
<1>2. /\ more \in Seq(TableLoads) /\ Len(more) = n /\ more[n] = load /\ n \in DOMAIN more
      /\ \A i \in DOMAIN ls : more[i] = ls[i]
      /\ \A i \in DOMAIN more : i \in DOMAIN ls \/ i = n
  BY <1>1, Appended
<1>3. n > 0
  BY <1>1, LenProperties
<1>4. LastCounts(more, o)
  BY <1>2, <1>3 DEF LastCounts
<1>5. ASSUME NEW cursors, NEW index, NEW before, cursors = [i \in DOMAIN cursors |-> i - 1],
             load.page = cursors[index + 1], before = index \/ ls = <<>>, InStep(cursors, before, ls)
      PROVE  InStep(cursors, index, more)
  <2>1. \A i \in DOMAIN ls : ls[i].page = cursors[index + 1]
    <3>1. CASE before = index
      BY <1>5, <3>1 DEF InStep
    <3>2. CASE ls = <<>>
      BY <3>2
    <3> QED
      BY <1>5, <3>1, <3>2
  <2> QED
    BY <1>2, <1>5, <2>1 DEF InStep
<1>6. ASSUME NEW rs, NEW sub, NEW fs, OneEach(rs, sub, ls, fs),
             \/ load.frees = None
             \/ /\ load.frees \in sub /\ \A j \in DOMAIN rs : rs[j].kind # load.frees
                /\ \A i \in DOMAIN ls : ls[i].frees # load.frees
      PROVE  OneEach(rs, sub, more, fs)
  BY <1>2, <1>6 DEF OneEach
<1> QED
  BY <1>2, <1>4, <1>5, <1>6

\* load begins for the page to show, which may be another than before.
LEMMA ListBegins ==
  ASSUME AdminInv, NEW load \in TableLoads, load.overtaken = FALSE, load.rev = server'.rev,
         loads' = Append(loads, load), server' \in Servers, own' \in Nat, own' <= server'.rev,
         server'.deleted = FALSE => server.deleted = FALSE, raced' \in BOOLEAN, crossed' \in BOOLEAN,
         table' \in Tables, table'.cursors = table.cursors, table'.index < Len(table.cursors),
         load.page = table.cursors[table'.index + 1],
         crossed' = FALSE => crossed = FALSE /\ (table'.index = table.index \/ loads = <<>>)
  PROVE  TableTypes' /\ ListFollows'
<1>1. TableTypes /\ ListFollows
  BY DEF AdminInv
<1>20. PICK o \in Nat : o = own'
  OBVIOUS
<1>21. PICK ls \in Seq(TableLoads) : ls = loads
  BY <1>1 DEF TableTypes
<1>22. PICK more : more = loads'
  OBVIOUS
<1>2. ls = loads /\ more = loads' /\ o = own'
  BY <1>20, <1>21, <1>22
<1>3. load.rev >= o /\ more = Append(ls, load)
  BY <1>2 DEF Servers
<1>4. /\ more \in Seq(TableLoads) /\ LastCounts(more, o)
      /\ \A cursors, index, before :
              /\ cursors = [i \in DOMAIN cursors |-> i - 1] /\ load.page = cursors[index + 1]
              /\ before = index \/ ls = <<>>
              /\ InStep(cursors, before, ls)
              => InStep(cursors, index, more)
  BY <1>3, LoadAdded
<1>5. TableTypes'
  BY <1>2, <1>4 DEF TableTypes
<1>6. ASSUME Uncrossed(server', crossed')
      PROVE  InStep(table'.cursors, table'.index, loads')
  <2>1. Uncrossed(server, crossed)
    BY <1>6 DEF Uncrossed
  <2>2. PICK cursors, before, index :
          cursors = table.cursors /\ before = table.index /\ index = table'.index
    OBVIOUS
  <2>3. InStep(cursors, before, ls)
    BY <1>1, <1>2, <2>1, <2>2 DEF ListFollows
  <2>4. cursors = [i \in DOMAIN cursors |-> i - 1]
    BY <2>3 DEF InStep
  <2>5. load.page = cursors[index + 1] /\ (before = index \/ ls = <<>>)
    BY <1>2, <1>6, <2>2 DEF Uncrossed
  <2>6. InStep(cursors, index, more)
    BY <1>4, <2>3, <2>4, <2>5
  <2> QED
    BY <1>2, <2>2, <2>6
<1>7. NewestCounts(table', loads', own', raced', Uncrossed(server', crossed'))
  BY <1>2, <1>4 DEF NewestCounts
<1> QED
  BY <1>5, <1>6, <1>7 DEF ListFollows

LEMMA AdminLoadFails == ASSUME AdminInv, Admin!LoadFails PROVE AdminInv'
<1>1. TableTypes /\ FormTypes /\ ListFollows /\ OneEach(requests, submitting, loads, fetches)
      /\ TogglesShown(requests, table.shown)
  BY DEF AdminInv
<1>2. PICK i \in DOMAIN loads :
        /\ loads' = Admin!Without(loads, i)
        /\ submitting' = Admin!Freed(loads[i].frees)
        /\ table' = [table EXCEPT !.loading = FALSE, !.error = TRUE]
  BY DEF Admin!LoadFails
<1>3. UNCHANGED <<view, server, raced, crossed, dialog, requests, linked, fetches, hasty, own>>
  BY DEF Admin!LoadFails, Admin!manageVars
<1>4. PICK ls \in Seq(TableLoads) : ls = loads
  BY <1>1 DEF TableTypes
<1>5. PICK after : after = Without(ls, i)
  OBVIOUS
<1>6. loads' = after /\ i \in DOMAIN ls
  BY <1>2, <1>4, <1>5 DEF Admin!Without, Without
<1>7. /\ after \in Seq(TableLoads)
      /\ \A rs, sub, fs, left : left = (IF ls[i].frees = None THEN sub ELSE sub \ {ls[i].frees})
              /\ OneEach(rs, sub, ls, fs) => OneEach(rs, left, after, fs)
      /\ \A cursors, index : InStep(cursors, index, ls) => InStep(cursors, index, after)
  BY <1>5, <1>6, LoadFewer
<1>8. /\ table' \in Tables /\ table'.index = table.index /\ table'.cursors = table.cursors
      /\ table'.shown = table.shown /\ table'.error = TRUE
  BY <1>1, <1>2 DEF TableTypes, Tables
<1>9. TableTypes'
  BY <1>1, <1>3, <1>6, <1>7, <1>8 DEF TableTypes
<1>10. OneEach(requests', submitting', loads', fetches')
  <2>1. submitting' = (IF ls[i].frees = None THEN submitting ELSE submitting \ {ls[i].frees})
    BY <1>2, <1>4 DEF Admin!Freed
  <2>2. OneEach(requests, submitting, ls, fetches)
    BY <1>1, <1>4
  <2> QED
    BY <1>3, <1>6, <1>7, <2>1, <2>2
<1>11. ListFollows'
  <2>1. NewestCounts(table', loads', own', raced', Uncrossed(server', crossed'))
    BY <1>8 DEF NewestCounts
  <2>2. own' <= server'.rev
    BY <1>1, <1>3 DEF ListFollows
  <2>3. Uncrossed(server', crossed') => InStep(table'.cursors, table'.index, loads')
    BY <1>1, <1>3, <1>4, <1>6, <1>7, <1>8 DEF ListFollows
  <2> QED
    BY <2>1, <2>2, <2>3 DEF ListFollows
<1>12. TogglesShown(requests', table'.shown)
  BY <1>1, <1>3, <1>8 DEF TogglesShown
<1>13. FormTypes' /\ ManageTypes' /\ AskedFirst' /\ LinksBelong'
  BY <1>1, <1>3, FormsStay DEF FormTypes
<1> QED
  BY <1>9, <1>10, <1>11, <1>12, <1>13 DEF AdminInv

\* A click asks for the list: the next or the previous page, or the same again.
LEMMA AdminAsks ==
  ASSUME AdminInv, NEW load, load = Admin!Request(table.cursors[table'.index + 1], None),
         loads' = Append(loads, load), table' \in Tables,
         table'.cursors = table.cursors, table'.index < Len(table.cursors),
         table'.shown = table.shown, crossed' \in BOOLEAN,
         crossed' = FALSE => crossed = FALSE /\ (table'.index = table.index \/ loads = <<>>),
         UNCHANGED <<view, server, raced, dialog, submitting, requests, linked, fetches, hasty, own>>
  PROVE  AdminInv'
<1>1. TableTypes /\ FormTypes /\ ListFollows /\ OneEach(requests, submitting, loads, fetches)
      /\ TogglesShown(requests, table.shown)
  BY DEF AdminInv
<1>2. PICK cursors, index, pg :
        cursors \in Seq(Nat) /\ index \in Nat
        /\ cursors = table.cursors /\ index = table'.index /\ pg = cursors[index + 1]
  BY <1>1 DEF TableTypes, Tables
<1>3. pg \in Nat
  <2>1. DOMAIN cursors = 1 .. Len(cursors) /\ Len(cursors) \in Nat
    BY LenProperties
  <2>2. index + 1 \in DOMAIN cursors
    BY <1>2, <2>1
  <2> QED
    BY <1>2, <2>2, ElementOf
<1>4. load = [page |-> pg, rev |-> server.rev, active |-> server.active, overtaken |-> FALSE,
              frees |-> None]
  BY <1>2 DEF Admin!Request
<1>5. server.rev \in Nat /\ server.active \in [Rows -> BOOLEAN]
  BY <1>1, TableKnown
<1>6. load \in TableLoads /\ load.overtaken = FALSE /\ load.rev = server.rev /\ load.page = pg
      /\ load.frees = None
  BY <1>3, <1>4, <1>5 DEF TableLoads
<1>7. TableTypes' /\ ListFollows'
  <2>1. /\ load.rev = server'.rev /\ server' \in Servers /\ own' \in Nat /\ own' <= server'.rev
        /\ (server'.deleted = FALSE => server.deleted = FALSE) /\ raced' \in BOOLEAN
        /\ load.page = table.cursors[table'.index + 1]
    BY <1>1, <1>2, <1>6 DEF TableTypes, ListFollows
  <2> QED
    BY <1>6, <2>1, ListBegins
<1>8. OneEach(requests', submitting', loads', fetches')
  <2>10. PICK o \in Nat : o = 0
    OBVIOUS
  <2>11. PICK ls \in Seq(TableLoads) : ls = loads
    BY <1>1 DEF TableTypes
  <2>12. PICK more : more = Append(ls, load)
    OBVIOUS
  <2>1. ls = loads /\ more = Append(ls, load) /\ o = 0
    BY <2>10, <2>11, <2>12
  <2>2. load.rev >= o
    BY <1>5, <1>6, <2>1
  <2>3. \A rs, sub, fs :
              /\ OneEach(rs, sub, ls, fs)
              /\ \/ load.frees = None
                 \/ /\ load.frees \in sub /\ \A j \in DOMAIN rs : rs[j].kind # load.frees
                    /\ \A i \in DOMAIN ls : ls[i].frees # load.frees
              => OneEach(rs, sub, more, fs)
    BY <1>6, <2>1, <2>2, LoadAdded
  <2>4. OneEach(requests, submitting, ls, fetches)
    BY <1>1, <2>1
  <2>5. OneEach(requests, submitting, more, fetches)
    BY <1>6, <2>3, <2>4
  <2> QED
    BY <2>1, <2>5
<1>9. TogglesShown(requests', table'.shown)
  BY <1>1
<1>10. FormTypes' /\ ManageTypes' /\ AskedFirst' /\ LinksBelong'
  BY <1>1, FormsStay DEF FormTypes
<1> QED
  BY <1>7, <1>8, <1>9, <1>10 DEF AdminInv

LEMMA AdminTurns ==
  ASSUME AdminInv, Admin!GoNext \/ Admin!GoPrev \/ Admin!Retry
  PROVE  AdminInv'
<1>1. TableTypes
  BY DEF AdminInv
<1>2. /\ table \in Tables /\ table.index \in Nat /\ Len(table.cursors) \in Nat
      /\ table.index < Len(table.cursors) /\ crossed \in BOOLEAN
  BY <1>1, LenProperties DEF TableTypes, Tables
<1>3. ASSUME NEW index \in Nat, index < Len(table.cursors), Admin!Turned(index)
      PROVE  AdminInv'
  <2>1. /\ loads' = Append(loads, Admin!Request(table.cursors[index + 1], None))
        /\ table' = [table EXCEPT !.index = index, !.loading = TRUE]
        /\ crossed' = (crossed \/ loads # <<>>)
        /\ UNCHANGED <<view, server, raced, dialog, submitting, requests, linked, fetches, hasty, own>>
    BY <1>3 DEF Admin!Turned, Admin!manageVars
  <2>2. /\ table' \in Tables /\ table'.index = index /\ table'.cursors = table.cursors
        /\ table'.shown = table.shown
    BY <1>2, <1>3, <2>1 DEF Tables
  <2>3. PICK load : load = Admin!Request(table.cursors[table'.index + 1], None)
    OBVIOUS
  <2>4. loads' = Append(loads, load) /\ table'.index < Len(table.cursors)
    BY <1>3, <2>1, <2>2, <2>3
  <2>5. crossed' \in BOOLEAN /\ (crossed' = FALSE => crossed = FALSE /\ loads = <<>>)
    BY <1>2, <2>1
  <2> QED
    BY <2>1, <2>2, <2>3, <2>4, <2>5, AdminAsks
<1>4. CASE Admin!GoNext
  <2>1. Len(table.cursors) > table.index + 1 /\ Admin!Turned(table.index + 1)
    BY <1>4 DEF Admin!GoNext
  <2>2. PICK index \in Nat : index = table.index + 1
    BY <1>2
  <2>3. index < Len(table.cursors) /\ Admin!Turned(index)
    BY <1>2, <2>1, <2>2
  <2> QED
    BY <1>3, <2>3
<1>5. CASE Admin!GoPrev
  <2>1. table.index > 0 /\ Admin!Turned(table.index - 1)
    BY <1>5 DEF Admin!GoPrev
  <2>2. PICK index \in Nat : index = table.index - 1
    BY <1>2, <2>1
  <2>3. index < Len(table.cursors) /\ Admin!Turned(index)
    BY <1>2, <2>1, <2>2
  <2> QED
    BY <1>3, <2>3
<1>6. CASE Admin!Retry
  <2>1. /\ loads' = Append(loads, Admin!Request(table.cursors[table.index + 1], None))
        /\ table' = [table EXCEPT !.loading = TRUE, !.error = FALSE]
        /\ UNCHANGED <<view, server, raced, dialog, submitting, requests, linked, fetches, hasty, own, crossed>>
    BY <1>6 DEF Admin!Retry, Admin!Reload, Admin!BeginLoad, Admin!Cursor, Admin!manageVars
  <2>2. /\ table' \in Tables /\ table'.index = table.index /\ table'.cursors = table.cursors
        /\ table'.shown = table.shown
    BY <1>2, <2>1 DEF Tables
  <2>3. PICK load : load = Admin!Request(table.cursors[table'.index + 1], None)
    OBVIOUS
  <2>4. loads' = Append(loads, load) /\ table'.index < Len(table.cursors)
    BY <1>2, <2>1, <2>2, <2>3
  <2>5. crossed' \in BOOLEAN /\ (crossed' = FALSE => crossed = FALSE /\ table'.index = table.index)
    BY <1>2, <2>1, <2>2
  <2> QED
    BY <2>1, <2>2, <2>3, <2>4, <2>5, AdminAsks
<1> QED
  BY <1>4, <1>5, <1>6

LEMMA AdminOthers == ASSUME AdminInv, Admin!OtherChanges PROVE AdminInv'
<1>1. TableTypes /\ FormTypes /\ ListFollows /\ OneEach(requests, submitting, loads, fetches)
      /\ TogglesShown(requests, table.shown)
  BY DEF AdminInv
<1>12. PICK r \in Rows : \E active \in {server.active[r], server.active[r] # Admin!Switched} :
         \E deleted \in {server.deleted, view \in {"teams", "folders", "rulesets"}} :
           server' = [server EXCEPT !.rev = @ + 1, !.active[r] = active, !.deleted = @ \/ deleted]
  BY DEF Admin!OtherChanges
<1>13. PICK active \in {server.active[r], server.active[r] # Admin!Switched} :
         \E deleted \in {server.deleted, view \in {"teams", "folders", "rulesets"}} :
           server' = [server EXCEPT !.rev = @ + 1, !.active[r] = active, !.deleted = @ \/ deleted]
  BY <1>12
<1>2. PICK deleted \in {server.deleted, view \in {"teams", "folders", "rulesets"}} :
        server' = [server EXCEPT !.rev = @ + 1, !.active[r] = active, !.deleted = @ \/ deleted]
  BY <1>13
<1>3. UNCHANGED <<view, table, loads, raced, crossed, dialog, submitting, requests, linked, fetches, hasty, own>>
  BY DEF Admin!OtherChanges, Admin!listVars, Admin!manageVars
<1>4. server.active[r] \in BOOLEAN /\ server.rev \in Nat /\ server.deleted \in BOOLEAN
  BY <1>1, TableKnown
<1>5. active \in BOOLEAN
  BY <1>4
<1>6. /\ server' \in Servers /\ server'.rev = server.rev + 1
      /\ server'.deleted = FALSE => server.deleted = FALSE
  <2>1. PICK gone : gone = (server.deleted \/ deleted)
    OBVIOUS
  <2>2. gone \in BOOLEAN /\ (gone = FALSE => server.deleted = FALSE)
    BY <1>4, <2>1
  <2>3. PICK now : now = [server.active EXCEPT ![r] = active]
    OBVIOUS
  <2>4. now \in [Rows -> BOOLEAN]
    BY <1>1, <1>5, <2>3, TableKnown
  <2>5. server' = [server EXCEPT !.rev = server.rev + 1, !.active = now, !.deleted = gone]
    BY <1>2, <2>1, <2>3
  <2>6. PICK sv \in Servers, n \in Nat : sv = server /\ n = server.rev + 1
    BY <1>1, <1>4 DEF TableTypes
  <2>7. server' = [sv EXCEPT !.rev = n, !.active = now, !.deleted = gone]
    BY <2>5, <2>6
  <2>8. server' \in Servers /\ server'.rev = n /\ server'.deleted = gone
    BY <2>2, <2>4, <2>7 DEF Servers
  <2> QED
    BY <2>2, <2>6, <2>8
<1>7. TableTypes'
  BY <1>1, <1>3, <1>6 DEF TableTypes
<1>8. Uncrossed(server', crossed') => Uncrossed(server, crossed)
  BY <1>3, <1>6 DEF Uncrossed
<1>9. ListFollows'
  <2>1. own' <= server'.rev
    BY <1>1, <1>3, <1>4, <1>6 DEF ListFollows, TableTypes
  <2>2. Uncrossed(server', crossed') => InStep(table'.cursors, table'.index, loads')
    BY <1>1, <1>3, <1>8 DEF ListFollows
  <2>3. NewestCounts(table', loads', own', raced', Uncrossed(server', crossed'))
    BY <1>1, <1>3, <1>8 DEF ListFollows, NewestCounts, Settled
  <2> QED
    BY <2>1, <2>2, <2>3 DEF ListFollows
<1>10. OneEach(requests', submitting', loads', fetches') /\ TogglesShown(requests', table'.shown)
  BY <1>1, <1>3
<1>11. FormTypes' /\ ManageTypes' /\ AskedFirst' /\ LinksBelong'
  BY <1>1, <1>3, FormsStay DEF FormTypes
<1> QED
  BY <1>7, <1>9, <1>10, <1>11 DEF AdminInv

\* A dialog opens, changes or closes; the domains may be asked for.
LEMMA DialogMoves ==
  ASSUME AdminInv, dialog' \in Dialogues, view \in {"users", "mailboxes"} => ~Unasked(dialog'),
         dialog'.of["manage"] = dialog.of["manage"],
         \A f \in fetches' : f \in fetches \/ (f.list = "domains" /\ f.of = None /\ f.frees = FALSE),
         UNCHANGED <<view, server, table, loads, raced, crossed, own, submitting, requests, linked, hasty>>
  PROVE  AdminInv'
<1>1. /\ TableTypes /\ FormTypes /\ ManageTypes /\ TogglesShown(requests, table.shown)
      /\ AskedFirst /\ OneEach(requests, submitting, loads, fetches) /\ ListFollows /\ LinksBelong
  BY DEF AdminInv
<1>2. TableTypes' /\ ListFollows'
  BY <1>1 DEF TableTypes, ListFollows
<1>3. FormTypes' /\ AskedFirst' /\ TogglesShown(requests, table.shown)'
  BY <1>1 DEF FormTypes, AskedFirst, TogglesShown
<1>4. ManageTypes'
  BY <1>1 DEF ManageTypes
<1>5. OneEach(requests, submitting, loads, fetches')
  BY <1>1 DEF OneEach
<1>6. LinksBelong'
  BY <1>1 DEF LinksBelong
<1> QED
  BY <1>2, <1>3, <1>4, <1>5, <1>6 DEF AdminInv

LEMMA DialogKnown ==
  ASSUME FormTypes
  PROVE  /\ dialog.kind \in FormKinds \cup {None} /\ dialog.of \in [FormKinds -> Rows \cup {None}]
         /\ dialog.active \in BOOLEAN /\ dialog.was \in BOOLEAN /\ dialog.confirm \in BOOLEAN
         /\ dialog.confirmed \in BOOLEAN
         /\ \A k \in FormKinds : dialog.of[k] \in Rows \cup {None}
BY DEF FormTypes, Dialogues

LEMMA AdminOpens ==
  ASSUME AdminInv, NEW kind \in {"create", "edit", "delete"}, NEW row \in Rows \cup {None},
         kind = "edit" => view \notin {"users", "mailboxes"},
         Admin!Opened(kind, row),
         \A f \in fetches' : f \in fetches \/ (f.list = "domains" /\ f.of = None /\ f.frees = FALSE),
         UNCHANGED <<linked, hasty>>
  PROVE  AdminInv'
<1>1. FormTypes
  BY DEF AdminInv
<1>2. /\ dialog' = [dialog EXCEPT !.kind = kind, !.of[kind] = row]
      /\ UNCHANGED <<view, server, table, loads, raced, crossed, own, submitting, requests>>
  BY DEF Admin!Opened, Admin!listVars
<1>3. PICK of : of = [dialog.of EXCEPT ![kind] = row]
  OBVIOUS
<1>4. of \in [FormKinds -> Rows \cup {None}] /\ of["manage"] = dialog.of["manage"] /\ kind \in FormKinds
  BY <1>1, <1>3, DialogKnown DEF FormKinds
<1>5. dialog' = [dialog EXCEPT !.kind = kind, !.of = of]
  BY <1>2, <1>3
<1>6. dialog' \in Dialogues /\ dialog'.kind = kind /\ dialog'.of = of
  BY <1>1, <1>4, <1>5 DEF FormTypes, Dialogues
<1> QED
  BY <1>2, <1>4, <1>6, DialogMoves DEF Unasked

LEMMA AdminOpensEdit ==
  ASSUME AdminInv, Admin!OpenEdit
  PROVE  AdminInv'
<1>1. FormTypes /\ TableTypes
  BY DEF AdminInv
<1>2. PICK row \in Rows :
         dialog' = [dialog EXCEPT !.kind = "edit", !.of["edit"] = row,
                                !.active = table.shown.active[row],
                                !.was = table.shown.active[row], !.confirmed = FALSE]
  BY DEF Admin!OpenEdit
<1>3. /\ table.shown # None
      /\ UNCHANGED <<view, server, table, loads, raced, crossed, own, submitting, requests,
                     linked, fetches, hasty>>
  BY DEF Admin!OpenEdit, Admin!Visible, Admin!listVars, Admin!manageVars
<1>4. table.shown.active[row] \in BOOLEAN
  BY <1>1, <1>3, TableKnown DEF ShownLists
<1>5. PICK active \in BOOLEAN : active = table.shown.active[row]
  BY <1>4
<1>6. PICK of : of = [dialog.of EXCEPT !["edit"] = row]
  OBVIOUS
<1>7. of \in [FormKinds -> Rows \cup {None}] /\ of["manage"] = dialog.of["manage"]
  BY <1>1, <1>6, DialogKnown DEF FormKinds
<1>8. dialog' = [dialog EXCEPT !.kind = "edit", !.of = of, !.active = active, !.was = active,
                               !.confirmed = FALSE]
  BY <1>2, <1>5, <1>6
<1>9. /\ dialog' \in Dialogues /\ dialog'.of = of /\ dialog'.active = active /\ dialog'.was = active
  BY <1>1, <1>7, <1>8 DEF FormTypes, Dialogues, FormKinds
<1>10. ~Unasked(dialog')
  BY <1>9 DEF Unasked
<1> QED
  BY <1>3, <1>7, <1>9, <1>10, DialogMoves

\* Closed.
LEMMA ClosedKnown ==
  ASSUME FormTypes
  PROVE  /\ Admin!Closed \in Dialogues /\ ~Unasked(Admin!Closed)
         /\ Admin!Closed.of["manage"] = dialog.of["manage"]
<1>1. PICK of : of = [k \in FormKinds |-> IF k = "manage" THEN dialog.of[k] ELSE None]
  OBVIOUS
<1>2. of \in [FormKinds -> Rows \cup {None}] /\ of["manage"] = dialog.of["manage"]
  BY <1>1, DialogKnown DEF FormKinds
<1>3. Admin!Closed = [dialog EXCEPT !.kind = None, !.was = TRUE, !.confirmed = FALSE, !.of = of]
  BY <1>1 DEF Admin!Closed, Admin!Kinds, FormKinds
<1>4. PICK shut : shut = Admin!Closed
  OBVIOUS
<1>5. shut \in Dialogues /\ shut.of = of /\ shut.kind = None
  BY <1>2, <1>3, <1>4 DEF FormTypes, Dialogues
<1>6. ~Unasked(shut)
  BY <1>5, ScreensAssumption DEF ScreensAssumption, Unasked
<1> QED
  BY <1>2, <1>4, <1>5, <1>6

LEMMA AdminCloses ==
  ASSUME AdminInv, Admin!CloseDialog
  PROVE  AdminInv'
<1>1. FormTypes /\ AskedFirst
  BY DEF AdminInv
<1>2. UNCHANGED <<view, server, table, loads, raced, crossed, own, submitting, requests,
                  linked, fetches, hasty>>
  BY DEF Admin!CloseDialog, Admin!quietVars, Admin!listVars, Admin!manageVars
<1>3. CASE dialog' = [dialog EXCEPT !.confirm = FALSE]
  <2>1. dialog' \in Dialogues /\ dialog'.of = dialog.of /\ (Unasked(dialog') => Unasked(dialog))
    BY <1>1, <1>3 DEF FormTypes, Dialogues, Unasked
  <2>2. view \in {"users", "mailboxes"} => ~Unasked(dialog')
    BY <1>1, <2>1 DEF AskedFirst
  <2> QED
    BY <1>2, <2>1, <2>2, DialogMoves
<1>4. CASE dialog' = Admin!Closed
  <2>1. /\ dialog' \in Dialogues /\ ~Unasked(dialog') /\ dialog'.of["manage"] = dialog.of["manage"]
    BY <1>1, <1>4, ClosedKnown
  <2> QED
    BY <1>2, <2>1, DialogMoves
<1> QED
  BY <1>3, <1>4 DEF Admin!CloseDialog

LEMMA AdminToggles ==
  ASSUME AdminInv, Admin!Toggle
  PROVE  AdminInv'
<1>1. FormTypes /\ AskedFirst
  BY DEF AdminInv
<1>2. UNCHANGED <<view, server, table, loads, raced, crossed, own, submitting, requests,
                  linked, fetches, hasty>>
  BY DEF Admin!Toggle, Admin!quietVars, Admin!listVars, Admin!manageVars
<1>3. CASE dialog.active /\ dialog.was
  <2>1. dialog' = [dialog EXCEPT !.confirm = TRUE]
    BY <1>3 DEF Admin!Toggle
  <2>2. dialog' \in Dialogues /\ dialog'.of = dialog.of /\ (Unasked(dialog') => Unasked(dialog))
    BY <1>1, <2>1 DEF FormTypes, Dialogues, Unasked
  <2>3. view \in {"users", "mailboxes"} => ~Unasked(dialog')
    BY <1>1, <2>2 DEF AskedFirst
  <2> QED
    BY <1>2, <2>2, <2>3, DialogMoves
<1>4. CASE ~(dialog.active /\ dialog.was)
  <2>1. PICK flipped : flipped = ~dialog.active
    OBVIOUS
  <2>2. flipped \in BOOLEAN /\ (flipped = FALSE => dialog.active = TRUE)
    BY <1>1, <2>1, DialogKnown
  <2>3. dialog' = [dialog EXCEPT !.active = flipped]
    BY <1>4, <2>1 DEF Admin!Toggle
  <2>4. dialog' \in Dialogues /\ dialog'.of = dialog.of /\ dialog'.active = flipped
        /\ dialog'.was = dialog.was
    BY <1>1, <2>2, <2>3 DEF FormTypes, Dialogues
  <2>5. ~Unasked(dialog')
    BY <1>4, <2>2, <2>4 DEF Unasked
  <2> QED
    BY <1>2, <2>4, <2>5, DialogMoves
<1> QED
  BY <1>3, <1>4

\* A request leaves a form, or the switch of a row.
LEMMA AdminSends ==
  ASSUME AdminInv, NEW r \in Changes, r.kind \notin submitting,
         submitting' = submitting \cup {r.kind}, requests' = Append(requests, r), ~Unasked(r),
         r.kind = "toggle" => table.shown \in ShownLists,
         view = "teams" /\ r.kind = "manage" => r.list # "teams",
         dialog' \in Dialogues, view \in {"users", "mailboxes"} => ~Unasked(dialog'),
         dialog'.of["manage"] = dialog.of["manage"],
         table' \in Tables, table'.index = table.index, table'.cursors = table.cursors,
         table'.error = table.error,
         table'.shown.page = table.shown.page, table'.shown.rev = table.shown.rev,
         table.shown \in ShownLists => table'.shown \in ShownLists,
         UNCHANGED <<view, server, loads, raced, crossed, own, linked, fetches, hasty>>
  PROVE  AdminInv'
<1>1. /\ TableTypes /\ FormTypes /\ ManageTypes /\ TogglesShown(requests, table.shown)
      /\ AskedFirst /\ OneEach(requests, submitting, loads, fetches) /\ ListFollows /\ LinksBelong
  BY DEF AdminInv
<1>2. TableTypes'
  BY <1>1 DEF TableTypes
<1>3. ListFollows'
  BY <1>1 DEF ListFollows, NewestCounts, Settled
<1>4. PICK rs \in Seq(Changes) : rs = requests
  BY <1>1 DEF FormTypes
<1>5. PICK qs, n : qs = Append(rs, r) /\ n = Len(rs) + 1
  OBVIOUS
<1>6. /\ qs \in Seq(Changes) /\ n \in DOMAIN qs /\ qs[n] = r
      /\ \A i \in DOMAIN rs : i \in DOMAIN qs /\ qs[i] = rs[i]
      /\ \A i \in DOMAIN qs : i \in DOMAIN rs \/ i = n
  BY <1>5, Appended
<1>7. requests' = qs
  BY <1>4, <1>5
<1>8. FormTypes'
  BY <1>6, <1>7 DEF FormTypes
<1>9. ManageTypes'
  BY <1>1 DEF ManageTypes
<1>10. TogglesShown(qs, table'.shown)
  BY <1>1, <1>4, <1>6 DEF TogglesShown
<1>11. AskedFirst'
  BY <1>1, <1>4, <1>6, <1>7 DEF AskedFirst
<1>12. OneEach(qs, submitting', loads, fetches)
  <2>1. OneEach(rs, submitting, loads, fetches)
    BY <1>1, <1>4
  <2>2. \A i \in DOMAIN qs : qs[i].kind \in submitting'
    BY <1>6, <2>1 DEF OneEach
  <2>3. \A i, j \in DOMAIN qs : qs[i].kind = qs[j].kind => i = j
    BY <1>6, <2>1 DEF OneEach
  <2>4. \A i \in DOMAIN loads : loads[i].frees # None =>
          loads[i].frees \in submitting' /\ \A j \in DOMAIN qs : qs[j].kind # loads[i].frees
    BY <1>6, <2>1 DEF OneEach
  <2>5. \A f \in fetches : f.frees = TRUE =>
          "manage" \in submitting' /\ \A j \in DOMAIN qs : qs[j].kind # "manage"
    BY <1>6, <2>1 DEF OneEach
  <2> QED
    BY <2>1, <2>2, <2>3, <2>4, <2>5 DEF OneEach
<1>13. LinksBelong'
  BY <1>1, <1>4, <1>6, <1>7 DEF LinksBelong
<1> QED
  BY <1>2, <1>3, <1>7, <1>8, <1>9, <1>10, <1>11, <1>12, <1>13 DEF AdminInv

\* Send, with the form as it is left.
LEMMA AdminForms ==
  ASSUME AdminInv, NEW kind \in FormKinds, NEW list \in {"users", "teams", None},
         NEW active \in BOOLEAN, NEW confirmed \in BOOLEAN,
         Admin!Send(kind, list, active, confirmed),
         kind = "edit" /\ active = FALSE /\ dialog.was = TRUE => confirmed = TRUE,
         view = "teams" /\ kind = "manage" => list # "teams",
         dialog' \in Dialogues, view \in {"users", "mailboxes"} => ~Unasked(dialog'),
         dialog'.of["manage"] = dialog.of["manage"],
         UNCHANGED <<view, server, table, loads, raced, crossed, own, linked, fetches, hasty>>
  PROVE  AdminInv'
<1>1. TableTypes /\ FormTypes
  BY DEF AdminInv
<1>2. PICK of \in Rows \cup {None}, was \in BOOLEAN : of = dialog.of[kind] /\ was = dialog.was
  BY <1>1, DialogKnown
<1>3. PICK r : r = [kind |-> kind, of |-> of, list |-> list, active |-> active, was |-> was,
                    confirmed |-> confirmed, shown |-> FALSE]
  OBVIOUS
<1>4. /\ r.kind \notin submitting /\ submitting' = submitting \cup {r.kind}
      /\ requests' = Append(requests, r)
  BY <1>2, <1>3 DEF Admin!Send
<1>5. r \in Changes /\ r.kind # "toggle" /\ r.list = list
  BY <1>3 DEF Changes, FormKinds
<1>6. ~Unasked(r)
  BY <1>2, <1>3 DEF Unasked
<1>7. table' \in Tables
  BY <1>1 DEF TableTypes
<1>8. r.kind = kind
  BY <1>3
<1>9. view = "teams" /\ r.kind = "manage" => r.list # "teams"
  BY <1>5, <1>8
<1> QED
  BY <1>4, <1>5, <1>6, <1>7, <1>9, AdminSends

LEMMA AdminSubmits ==
  ASSUME AdminInv, NEW kind \in {"create", "edit", "delete"}, Admin!Submit(kind)
  PROVE  AdminInv'
<1>1. /\ Admin!Send(kind, None, TRUE, FALSE) /\ dialog' = dialog
      /\ UNCHANGED <<view, server, table, loads, raced, crossed, own, linked, fetches, hasty>>
  BY DEF Admin!Submit, Admin!quietVars, Admin!listVars, Admin!manageVars
<1>2. FormTypes /\ AskedFirst
  BY DEF AdminInv
<1>3. /\ dialog' \in Dialogues /\ (view \in {"users", "mailboxes"} => ~Unasked(dialog'))
      /\ dialog'.of["manage"] = dialog.of["manage"]
  BY <1>1, <1>2 DEF FormTypes, AskedFirst
<1>4. PICK list \in {"users", "teams", None}, active \in BOOLEAN, confirmed \in BOOLEAN :
        list = None /\ active = TRUE /\ confirmed = FALSE
  OBVIOUS
<1>5. Admin!Send(kind, list, active, confirmed)
  BY <1>1, <1>4
<1>6. kind \in FormKinds /\ kind # "manage"
  BY DEF FormKinds
<1> QED
  BY <1>1, <1>3, <1>4, <1>5, <1>6, AdminForms

LEMMA AdminSubmitsEdit ==
  ASSUME AdminInv, Admin!SubmitEdit, view \in {"users", "mailboxes"}
  PROVE  AdminInv'
<1>1. /\ Admin!Send("edit", None, dialog.active, dialog.confirmed) /\ dialog' = dialog
      /\ UNCHANGED <<view, server, table, loads, raced, crossed, own, linked, fetches, hasty>>
  BY DEF Admin!SubmitEdit, Admin!quietVars, Admin!listVars, Admin!manageVars
<1>2. FormTypes /\ AskedFirst
  BY DEF AdminInv
<1>3. /\ dialog' \in Dialogues /\ (view \in {"users", "mailboxes"} => ~Unasked(dialog'))
      /\ dialog'.of["manage"] = dialog.of["manage"]
  BY <1>1, <1>2 DEF FormTypes, AskedFirst
<1>4. PICK list \in {"users", "teams", None}, active \in BOOLEAN, confirmed \in BOOLEAN :
        list = None /\ active = dialog.active /\ confirmed = dialog.confirmed
  BY <1>2, DialogKnown
<1>5. PICK kind \in FormKinds : kind = "edit"
  BY DEF FormKinds
<1>6. Admin!Send(kind, list, active, confirmed) /\ kind # "manage"
  BY <1>1, <1>4, <1>5
<1>7. kind = "edit" /\ active = FALSE /\ dialog.was = TRUE => confirmed = TRUE
  <2>1. dialog.kind = "edit" /\ ~Unasked(dialog)
    BY <1>1, <1>2 DEF Admin!Send, AskedFirst
  <2> QED
    BY <1>4, <2>1 DEF Unasked
<1> QED
  BY <1>1, <1>3, <1>6, <1>7, AdminForms

LEMMA AdminConfirms ==
  ASSUME AdminInv, Admin!Confirm
  PROVE  AdminInv'
<1>1. /\ Admin!Send("edit", None, FALSE, TRUE)
      /\ dialog' = [dialog EXCEPT !.active = FALSE, !.confirm = FALSE, !.confirmed = TRUE]
      /\ UNCHANGED <<view, server, table, loads, raced, crossed, own, linked, fetches, hasty>>
  BY DEF Admin!Confirm, Admin!quietVars, Admin!listVars, Admin!manageVars
<1>2. FormTypes /\ AskedFirst
  BY DEF AdminInv
<1>3. /\ dialog' \in Dialogues /\ ~Unasked(dialog') /\ dialog'.of["manage"] = dialog.of["manage"]
  BY <1>1, <1>2 DEF FormTypes, Dialogues, Unasked
<1>4. PICK list \in {"users", "teams", None}, active \in BOOLEAN, confirmed \in BOOLEAN :
        list = None /\ active = FALSE /\ confirmed = TRUE
  OBVIOUS
<1>5. PICK kind \in FormKinds : kind = "edit"
  BY DEF FormKinds
<1>6. Admin!Send(kind, list, active, confirmed) /\ kind # "manage"
  BY <1>1, <1>4, <1>5
<1> QED
  BY <1>1, <1>3, <1>4, <1>6, AdminForms

LEMMA AdminLinks ==
  ASSUME AdminInv, NEW list \in {"users", "teams"}, view = "teams" => list # "teams",
         Admin!Link(list) \/ Admin!Unlink(list)
  PROVE  AdminInv'
<1>1. PICK active \in BOOLEAN : Admin!Send("manage", list, active, FALSE)
  <2>1. CASE Admin!Link(list)
    <3>1. Admin!Send("manage", list, TRUE, FALSE)
      BY <2>1 DEF Admin!Link
    <3> QED
      BY <3>1
  <2>2. CASE Admin!Unlink(list)
    <3>1. Admin!Send("manage", list, FALSE, FALSE)
      BY <2>2 DEF Admin!Unlink
    <3> QED
      BY <3>1
  <2> QED
    BY <2>1, <2>2
<1>2. /\ dialog' = dialog
      /\ UNCHANGED <<view, server, table, loads, raced, crossed, own, linked, fetches, hasty>>
  BY DEF Admin!Link, Admin!Unlink, Admin!quietVars, Admin!listVars, Admin!manageVars
<1>3. FormTypes /\ AskedFirst
  BY DEF AdminInv
<1>4. /\ dialog' \in Dialogues /\ (view \in {"users", "mailboxes"} => ~Unasked(dialog'))
      /\ dialog'.of["manage"] = dialog.of["manage"]
  BY <1>2, <1>3 DEF FormTypes, AskedFirst
<1>5. PICK kind \in FormKinds, confirmed \in BOOLEAN : kind = "manage" /\ confirmed = FALSE
  BY DEF FormKinds
<1>6. Admin!Send(kind, list, active, confirmed) /\ list \in {"users", "teams", None} /\ kind # "edit"
  BY <1>1, <1>5
<1> QED
  BY <1>2, <1>4, <1>6, AdminForms

LEMMA AdminSwitchesRow ==
  ASSUME AdminInv, Admin!ToggleRuleset
  PROVE  AdminInv'
<1>1. TableTypes /\ FormTypes /\ AskedFirst
  BY DEF AdminInv
<1>2. /\ table.shown # None /\ "toggle" \notin submitting
      /\ submitting' = submitting \cup {"toggle"} /\ view = "rulesets"
      /\ UNCHANGED <<view, server, loads, raced, crossed, dialog, own, linked, fetches, hasty>>
  BY DEF Admin!ToggleRuleset, Admin!Visible, Admin!manageVars
<1>3. PICK row \in Rows :
        /\ table' = [table EXCEPT !.shown.active[row] = ~table.shown.active[row]]
        /\ requests' = Append(requests, [kind |-> "toggle", of |-> row, list |-> None,
                                         active |-> ~table.shown.active[row],
                                         was |-> table.shown.active[row],
                                         confirmed |-> TRUE, shown |-> TRUE])
  BY DEF Admin!ToggleRuleset
<1>4. PICK shown \in ShownLists : shown = table.shown
  BY <1>1, <1>2, TableKnown
<1>5. PICK was \in BOOLEAN : was = table.shown.active[row]
  BY <1>4 DEF ShownLists
<1>6. PICK active : active = ~was
  OBVIOUS
<1>7. active \in BOOLEAN
  BY <1>6
<1>8. PICK r : r = [kind |-> "toggle", of |-> row, list |-> None, active |-> active, was |-> was,
                    confirmed |-> TRUE, shown |-> TRUE]
  OBVIOUS
<1>9. r \in Changes /\ r.kind = "toggle"
  BY <1>7, <1>8 DEF Changes
<1>10. requests' = Append(requests, r)
  BY <1>3, <1>5, <1>6, <1>8
<1>11. PICK now : now = [shown EXCEPT !.active[row] = active]
  OBVIOUS
<1>12. now \in ShownLists /\ now.page = shown.page /\ now.rev = shown.rev
  <2>1. PICK on : on = [shown.active EXCEPT ![row] = active]
    OBVIOUS
  <2>2. on \in [Rows -> BOOLEAN]
    BY <1>7, <2>1 DEF ShownLists
  <2>3. now = [shown EXCEPT !.active = on]
    BY <1>11, <2>1
  <2> QED
    BY <2>2, <2>3 DEF ShownLists
<1>13. table' = [table EXCEPT !.shown = now]
  BY <1>3, <1>4, <1>5, <1>6, <1>11
<1>14. /\ table' \in Tables /\ table'.index = table.index /\ table'.cursors = table.cursors
       /\ table'.error = table.error /\ table'.shown = now
  BY <1>1, <1>12, <1>13 DEF TableTypes, Tables
<1>15. /\ dialog' \in Dialogues /\ (view \in {"users", "mailboxes"} => ~Unasked(dialog'))
       /\ dialog'.of["manage"] = dialog.of["manage"]
  BY <1>1, <1>2 DEF FormTypes, AskedFirst
<1>16. ~Unasked(r) /\ r.kind \notin submitting /\ submitting' = submitting \cup {r.kind}
  BY <1>2, <1>9 DEF Unasked
<1> QED
  BY <1>2, <1>4, <1>9, <1>10, <1>12, <1>14, <1>15, <1>16, AdminSends

\* What a change leaves of the rows.
LEMMA ChangedKnown ==
  ASSUME TableTypes, NEW r \in Changes
  PROVE  /\ Admin!Changed(r) \in Servers /\ Admin!Changed(r).rev = server.rev + 1
         /\ Admin!Changed(r).deleted = FALSE => server.deleted = FALSE
<1>1. PICK sv \in Servers, n \in Nat : sv = server /\ n = server.rev + 1
  BY TableKnown DEF TableTypes
<1>2. PICK now : now = IF \/ r.kind = "edit" /\ view \in {"users", "mailboxes"}
                         \/ r.kind = "toggle"
                       THEN [server.active EXCEPT ![r.of] = r.active] ELSE server.active
  OBVIOUS
<1>3. now \in [Rows -> BOOLEAN]
  <2>1. server.active \in [Rows -> BOOLEAN] /\ r.active \in BOOLEAN
    BY TableKnown DEF Changes
  <2> QED
    BY <1>2, <2>1
<1>4. PICK gone : gone = (server.deleted \/ r.kind = "delete")
  OBVIOUS
<1>5. gone \in BOOLEAN /\ (gone = FALSE => server.deleted = FALSE)
  BY <1>4, TableKnown
<1>6. Admin!Changed(r) = [sv EXCEPT !.rev = n, !.active = now, !.deleted = gone]
  BY <1>1, <1>2, <1>4 DEF Admin!Changed
<1>7. PICK after : after = Admin!Changed(r)
  OBVIOUS
<1>8. after \in Servers /\ after.rev = n /\ after.deleted = gone
  BY <1>3, <1>5, <1>6, <1>7 DEF Servers
<1> QED
  BY <1>1, <1>5, <1>7, <1>8

\* What is known when request i of rs has been answered.
Fewer(after, rs, i) ==
  \A sub, ls, fs : OneEach(rs, sub, ls, fs) =>
              /\ OneEach(after, sub, ls, fs) /\ OneEach(after, sub \ {rs[i].kind}, ls, fs)
              /\ rs[i].kind \in sub /\ \A j \in DOMAIN after : after[j].kind # rs[i].kind
              /\ rs[i].kind # None => \A j \in DOMAIN ls : ls[j].frees # rs[i].kind
              /\ rs[i].kind = "manage" => \A f \in fs : f.frees # TRUE

\* A request fewer: its kind of dialog may go on, or be submitting no more.
LEMMA RequestFewer ==
  ASSUME NEW rs \in Seq(Changes), NEW i \in DOMAIN rs, NEW after, after = Without(rs, i)
  PROVE  /\ after \in Seq(Changes)
         /\ \A j \in DOMAIN after : \E k \in DOMAIN rs : k # i /\ after[j] = rs[k]
         /\ Fewer(after, rs, i)
<1> HIDE DEF Place
<1>1. /\ after \in Seq(Changes)
      /\ \A j \in DOMAIN after :
           Place(i, j) \in DOMAIN rs /\ Place(i, j) # i /\ after[j] = rs[Place(i, j)]
      /\ \A j, k \in DOMAIN after : Place(i, j) = Place(i, k) => j = k
  BY RemovedPlaces
<1>2. ASSUME NEW sub, NEW ls, NEW fs, OneEach(rs, sub, ls, fs)
      PROVE  /\ OneEach(after, sub, ls, fs) /\ OneEach(after, sub \ {rs[i].kind}, ls, fs)
             /\ rs[i].kind \in sub /\ \A j \in DOMAIN after : after[j].kind # rs[i].kind
             /\ rs[i].kind # None => \A j \in DOMAIN ls : ls[j].frees # rs[i].kind
             /\ rs[i].kind = "manage" => \A f \in fs : f.frees # TRUE
  <2>1. \A j \in DOMAIN after : after[j].kind \in sub /\ after[j].kind # rs[i].kind
    BY <1>1, <1>2 DEF OneEach
  <2>2. \A j, k \in DOMAIN after : after[j].kind = after[k].kind => j = k
    BY <1>1, <1>2 DEF OneEach
  <2>3. \A j \in DOMAIN ls : ls[j].frees # None =>
          /\ ls[j].frees \in sub /\ ls[j].frees # rs[i].kind
          /\ \A k \in DOMAIN after : after[k].kind # ls[j].frees
    BY <1>1, <1>2 DEF OneEach
  <2>4. \A f \in fs : f.frees = TRUE =>
          /\ "manage" \in sub /\ rs[i].kind # "manage"
          /\ \A j \in DOMAIN after : after[j].kind # "manage"
          /\ \A g \in fs : g.frees = TRUE => g = f
    BY <1>1, <1>2 DEF OneEach
  <2>5. \A j, k \in DOMAIN ls : ls[j].frees # None /\ ls[j].frees = ls[k].frees => j = k
    BY <1>2 DEF OneEach
  <2>6. OneEach(after, sub, ls, fs)
    BY <2>1, <2>2, <2>3, <2>4, <2>5 DEF OneEach
  <2>7. OneEach(after, sub \ {rs[i].kind}, ls, fs)
    BY <2>1, <2>2, <2>3, <2>4, <2>5 DEF OneEach
  <2> QED
    BY <1>2, <2>1, <2>3, <2>4, <2>6, <2>7 DEF OneEach
<1> QED
  BY <1>1, <1>2 DEF Fewer

\* A request is answered: what holds of the others and of the dialogs.
LEMMA RequestLeaves ==
  ASSUME AdminInv, NEW i \in DOMAIN requests, requests' = Admin!Without(requests, i)
  PROVE  /\ requests' \in Seq(Changes)
         /\ \A j \in DOMAIN requests' : \E k \in DOMAIN requests : k # i /\ requests'[j] = requests[k]
         /\ OneEach(requests', submitting, loads, fetches)
         /\ OneEach(requests', submitting \ {requests[i].kind}, loads, fetches)
         /\ requests[i].kind \in submitting
         /\ \A j \in DOMAIN requests' : requests'[j].kind # requests[i].kind
         /\ requests[i].kind # None => \A j \in DOMAIN loads : loads[j].frees # requests[i].kind
         /\ requests[i].kind = "manage" => \A f \in fetches : f.frees # TRUE
         /\ requests[i] \in Changes
<1>1. PICK rs \in Seq(Changes) : rs = requests
  BY DEF AdminInv, FormTypes
<1>2. PICK after : after = Without(rs, i)
  OBVIOUS
<1>3. requests' = after /\ i \in DOMAIN rs
  BY <1>1, <1>2 DEF Admin!Without, Without
<1>4. OneEach(rs, submitting, loads, fetches)
  BY <1>1 DEF AdminInv
<1>5. rs[i] \in Changes
  BY <1>3, ElementOf
<1>6. /\ after \in Seq(Changes)
      /\ \A j \in DOMAIN after : \E k \in DOMAIN rs : k # i /\ after[j] = rs[k]
      /\ Fewer(after, rs, i)
  BY <1>2, <1>3, RequestFewer
<1>7. /\ OneEach(after, submitting, loads, fetches)
      /\ OneEach(after, submitting \ {rs[i].kind}, loads, fetches)
      /\ rs[i].kind \in submitting /\ \A j \in DOMAIN after : after[j].kind # rs[i].kind
      /\ rs[i].kind # None => \A j \in DOMAIN loads : loads[j].frees # rs[i].kind
      /\ rs[i].kind = "manage" => \A f \in fetches : f.frees # TRUE
  BY <1>4, <1>6 DEF Fewer
<1> QED
  BY <1>1, <1>3, <1>5, <1>6, <1>7

LEMMA FormsAnswered ==
  ASSUME AdminInv, NEW i \in DOMAIN requests, requests' = Admin!Without(requests, i),
         dialog' = dialog \/ dialog' = Admin!Closed, UNCHANGED <<view, linked, fetches, hasty>>,
         table.shown \in ShownLists => table'.shown \in ShownLists
  PROVE  FormTypes' /\ ManageTypes' /\ AskedFirst' /\ LinksBelong'
         /\ TogglesShown(requests', table'.shown)
<1>1. FormTypes /\ ManageTypes /\ AskedFirst /\ LinksBelong /\ TogglesShown(requests, table.shown)
  BY DEF AdminInv
<1>2. /\ requests' \in Seq(Changes)
      /\ \A j \in DOMAIN requests' : \E k \in DOMAIN requests : k # i /\ requests'[j] = requests[k]
  BY RequestLeaves
<1>3. /\ dialog' \in Dialogues /\ dialog'.of["manage"] = dialog.of["manage"]
      /\ Unasked(dialog') => Unasked(dialog)
  BY <1>1, ClosedKnown DEF FormTypes
<1>4. FormTypes' /\ ManageTypes'
  BY <1>1, <1>2, <1>3 DEF FormTypes, ManageTypes
<1>5. AskedFirst'
  BY <1>1, <1>2, <1>3 DEF AskedFirst
<1>6. LinksBelong'
  BY <1>1, <1>2, <1>3 DEF LinksBelong
<1>7. TogglesShown(requests', table'.shown)
  BY <1>1, <1>2 DEF TogglesShown
<1> QED
  BY <1>4, <1>5, <1>6, <1>7

\* An answer that does not ask for the list again.
LEMMA AdminAnswered ==
  ASSUME AdminInv, NEW i \in DOMAIN requests, requests' = Admin!Without(requests, i),
         submitting' = submitting \ {requests[i].kind},
         server' = server \/ server' = Admin!Changed(requests[i]),
         table' \in Tables, table'.index = table.index, table'.cursors = table.cursors,
         table.error = TRUE => table'.error = TRUE,
         table'.shown.page = table.shown.page, table'.shown.rev = table.shown.rev,
         table.shown \in ShownLists => table'.shown \in ShownLists,
         UNCHANGED <<view, loads, raced, crossed, dialog, own, linked, fetches, hasty>>
  PROVE  AdminInv'
<1>1. TableTypes /\ ListFollows
  BY DEF AdminInv
<1>2. FormTypes' /\ ManageTypes' /\ AskedFirst' /\ LinksBelong' /\ TogglesShown(requests', table'.shown)
  BY FormsAnswered
<1>3. OneEach(requests', submitting \ {requests[i].kind}, loads, fetches) /\ requests[i] \in Changes
  BY RequestLeaves
<1>4. /\ server' \in Servers /\ server'.rev >= server.rev
      /\ server'.deleted = FALSE => server.deleted = FALSE
  <2>1. CASE server' = server
    BY <1>1, <2>1 DEF TableTypes, Servers
  <2>2. CASE server' = Admin!Changed(requests[i])
    <3>1. PICK r \in Changes : r = requests[i]
      BY <1>3
    <3>2. /\ server' \in Servers /\ server'.rev = server.rev + 1
          /\ server'.deleted = FALSE => server.deleted = FALSE
      BY <1>1, <2>2, <3>1, ChangedKnown
    <3> QED
      BY <1>1, <3>2, TableKnown
  <2> QED
    BY <2>1, <2>2
<1>5. TableTypes'
  BY <1>1, <1>4 DEF TableTypes
<1>6. Uncrossed(server', crossed') => Uncrossed(server, crossed)
  BY <1>4 DEF Uncrossed
<1>7. ListFollows'
  <2>1. own' <= server'.rev
    BY <1>1, <1>4, TableKnown DEF ListFollows, TableTypes, Servers
  <2>2. Uncrossed(server', crossed') => InStep(table'.cursors, table'.index, loads')
    BY <1>1, <1>6 DEF ListFollows
  <2>3. NewestCounts(table', loads', own', raced', Uncrossed(server', crossed'))
    BY <1>1, <1>6 DEF ListFollows, NewestCounts, Settled
  <2> QED
    BY <2>1, <2>2, <2>3 DEF ListFollows
<1> QED
  BY <1>2, <1>3, <1>5, <1>7 DEF AdminInv

LEMMA AdminRefuses ==
  ASSUME AdminInv, NEW i \in DOMAIN requests, Admin!NotAccepted(i)
  PROVE  AdminInv'
<1>1. TableTypes
  BY DEF AdminInv
<1>2. /\ server' = server \/ server' = Admin!Changed(requests[i])
      /\ requests' = Admin!Without(requests, i)
      /\ submitting' = submitting \ {requests[i].kind}
      /\ table' = [table EXCEPT !.error = TRUE] \/ table' = table
      /\ UNCHANGED <<view, loads, raced, crossed, dialog, own, linked, fetches, hasty>>
  BY DEF Admin!NotAccepted, Admin!manageVars
<1>3. /\ table' \in Tables /\ table'.index = table.index /\ table'.cursors = table.cursors
      /\ table.error = TRUE => table'.error = TRUE
      /\ table'.shown = table.shown
  BY <1>1, <1>2 DEF TableTypes, Tables
<1> QED
  BY <1>2, <1>3, AdminAnswered

LEMMA AdminSwitched ==
  ASSUME AdminInv, Admin!AnswerToggle
  PROVE  AdminInv'
<1>1. TableTypes /\ TogglesShown(requests, table.shown)
  BY DEF AdminInv
<1>2. PICK i \in DOMAIN requests :
        /\ requests[i].kind = "toggle" /\ requests' = Admin!Without(requests, i)
        /\ \/ server' = Admin!Changed(requests[i]) /\ table' = table
           \/ /\ server' = server \/ server' = Admin!Changed(requests[i])
              /\ table' = [table EXCEPT !.error = TRUE,
                            !.shown.active = IF requests[i].shown
                                THEN [table.shown.active EXCEPT ![requests[i].of] = requests[i].was]
                                ELSE table.shown.active]
  BY DEF Admin!AnswerToggle
<1>3. /\ submitting' = submitting \ {requests[i].kind}
      /\ UNCHANGED <<view, loads, raced, crossed, dialog, own, linked, fetches, hasty>>
  BY <1>2 DEF Admin!AnswerToggle, Admin!manageVars
<1>4. PICK shown \in ShownLists : shown = table.shown
  BY <1>1, <1>2 DEF TogglesShown
<1>5. CASE table' = table
  <2>1. table' \in Tables
    BY <1>1, <1>5 DEF TableTypes
  <2> QED
    BY <1>2, <1>3, <1>5, <2>1, AdminAnswered
<1>6. CASE table' = [table EXCEPT !.error = TRUE,
                       !.shown.active = IF requests[i].shown
                                THEN [table.shown.active EXCEPT ![requests[i].of] = requests[i].was]
                                ELSE table.shown.active]
  <2>1. PICK on : on = IF requests[i].shown
                       THEN [shown.active EXCEPT ![requests[i].of] = requests[i].was]
                       ELSE shown.active
    OBVIOUS
  <2>2. requests[i].was \in BOOLEAN /\ shown.active \in [Rows -> BOOLEAN]
    <3>1. requests[i] \in Changes
      BY <1>2, RequestLeaves
    <3> QED
      BY <3>1 DEF Changes, ShownLists
  <2>3. on \in [Rows -> BOOLEAN]
    BY <2>1, <2>2
  <2>4. PICK now : now = [shown EXCEPT !.active = on]
    OBVIOUS
  <2>5. now \in ShownLists /\ now.page = shown.page /\ now.rev = shown.rev
    BY <2>3, <2>4 DEF ShownLists
  <2>6. table' = [table EXCEPT !.error = TRUE, !.shown = now]
    BY <1>4, <1>6, <2>1, <2>4
  <2>7. /\ table' \in Tables /\ table'.index = table.index /\ table'.cursors = table.cursors
        /\ table'.error = TRUE /\ table'.shown = now
    BY <1>1, <2>5, <2>6 DEF TableTypes, Tables
  <2> QED
    BY <1>2, <1>3, <1>4, <2>5, <2>7, AdminAnswered
<1> QED
  BY <1>2, <1>5, <1>6

LEMMA RequestKnown ==
  ASSUME FormTypes, NEW i \in DOMAIN requests
  PROVE  requests[i] \in Changes
<1>1. PICK rs \in Seq(Changes) : rs = requests
  BY DEF FormTypes
<1> QED
  BY <1>1, ElementOf

\* Done: the list is asked for again.
LEMMA AdminAccepts ==
  ASSUME AdminInv, NEW i \in DOMAIN requests, requests[i].kind \notin {"manage", "toggle"},
         Admin!Accepted(i)
  PROVE  AdminInv'
<1>1. TableTypes /\ FormTypes /\ ListFollows
  BY DEF AdminInv
<1>2. PICK r \in Changes : r = requests[i]
  BY <1>1, RequestKnown
<1>3. r.kind \in {"create", "edit", "delete"}
  BY <1>2 DEF Changes, FormKinds
<1>4. /\ server' = Admin!Changed(r) /\ own' = server'.rev /\ requests' = Admin!Without(requests, i)
      /\ dialog' = dialog \/ dialog' = Admin!Closed
      /\ table' = [table EXCEPT !.loading = TRUE, !.error = FALSE]
      /\ UNCHANGED <<view, raced, crossed, linked, fetches, hasty>>
  BY <1>2 DEF Admin!Accepted, Admin!manageVars
<1>5. PICK waits : waits = (view \in {"folders", "rulesets"})
  OBVIOUS
<1>6. PICK frees : frees = IF waits THEN r.kind ELSE None
  OBVIOUS
<1>7. PICK pg \in Nat : pg = table.cursors[table.index + 1]
  BY <1>1, TableKnown
<1>81. PICK q : q = Admin!Request(Admin!Cursor, frees)
  OBVIOUS
<1>8. PICK load : load = [q EXCEPT !.rev = server'.rev, !.active = server'.active]
  OBVIOUS
<1>9. /\ loads' = Append(loads, load)
      /\ submitting' = IF waits THEN submitting ELSE submitting \ {r.kind}
  <2>1. /\ loads' = Append(loads, [Admin!Request(Admin!Cursor, IF waits THEN requests[i].kind ELSE None)
                     EXCEPT !.rev = server'.rev, !.active = server'.active])
        /\ submitting' = IF waits THEN submitting ELSE submitting \ {requests[i].kind}
    BY <1>5 DEF Admin!Accepted
  <2> QED
    BY <1>2, <1>6, <1>8, <1>81, <2>1
<1>10. /\ server' \in Servers /\ server'.rev = server.rev + 1 /\ server'.rev \in Nat
       /\ server'.active \in [Rows -> BOOLEAN]
       /\ server'.deleted = FALSE => server.deleted = FALSE
  <2>1. /\ server' \in Servers /\ server'.rev = server.rev + 1
        /\ server'.deleted = FALSE => server.deleted = FALSE
    BY <1>1, <1>4, ChangedKnown
  <2> QED
    BY <2>1 DEF Servers
<1>11. /\ load \in TableLoads /\ load.overtaken = FALSE /\ load.rev = server'.rev /\ load.page = pg
       /\ load.frees = frees
  <2>1. q = [page |-> pg, rev |-> server.rev, active |-> server.active, overtaken |-> FALSE, frees |-> frees]
    BY <1>7, <1>81 DEF Admin!Request, Admin!Cursor
  <2>2. /\ q \in TableLoads /\ q.page = pg /\ q.overtaken = FALSE /\ q.frees = frees
    BY <1>1, <1>3, <1>6, <2>1, TableKnown DEF TableLoads
  <2>3. PICK now \in Nat, active \in [Rows -> BOOLEAN] : now = server'.rev /\ active = server'.active
    BY <1>10
  <2>4. load = [q EXCEPT !.rev = now, !.active = active]
    BY <1>8, <2>3
  <2>5. load \in TableLoads /\ load.rev = now /\ load.page = q.page /\ load.overtaken = q.overtaken
        /\ load.frees = q.frees
    BY <2>2, <2>4 DEF TableLoads
  <2> QED
    BY <2>2, <2>3, <2>5
<1>12. /\ table' \in Tables /\ table'.index = table.index /\ table'.cursors = table.cursors
       /\ table'.shown = table.shown
  BY <1>1, <1>4 DEF TableTypes, Tables
<1>13. TableTypes' /\ ListFollows'
  <2>1. /\ own' \in Nat /\ own' <= server'.rev /\ raced' \in BOOLEAN /\ crossed' \in BOOLEAN
        /\ table'.index < Len(table.cursors) /\ load.page = table.cursors[table'.index + 1]
        /\ (crossed' = FALSE => crossed = FALSE /\ (table'.index = table.index \/ loads = <<>>))
    BY <1>1, <1>4, <1>7, <1>10, <1>11, <1>12 DEF TableTypes
  <2> QED
    BY <1>9, <1>10, <1>11, <1>12, <2>1, ListBegins
<1>14. FormTypes' /\ ManageTypes' /\ AskedFirst' /\ LinksBelong' /\ TogglesShown(requests', table'.shown)
  BY <1>4, <1>12, FormsAnswered
<1>15. OneEach(requests', submitting', loads', fetches')
  <2>10. PICK o \in Nat : o = 0
    OBVIOUS
  <2>11. PICK ls \in Seq(TableLoads) : ls = loads
    BY <1>1 DEF TableTypes
  <2>12. PICK more : more = Append(ls, load)
    OBVIOUS
  <2>1. ls = loads /\ more = Append(ls, load) /\ o = 0
    BY <2>10, <2>11, <2>12
  <2>2. load.rev >= o
    BY <1>10, <1>11, <2>1
  <2>3. \A rs, sub, fs :
              /\ OneEach(rs, sub, ls, fs)
              /\ \/ load.frees = None
                 \/ /\ load.frees \in sub /\ \A j \in DOMAIN rs : rs[j].kind # load.frees
                    /\ \A k \in DOMAIN ls : ls[k].frees # load.frees
              => OneEach(rs, sub, more, fs)
    BY <1>11, <2>1, <2>2, LoadAdded
  <2>4. /\ OneEach(requests', submitting, ls, fetches)
        /\ OneEach(requests', submitting \ {r.kind}, ls, fetches)
        /\ r.kind \in submitting
        /\ \A j \in DOMAIN requests' : requests'[j].kind # r.kind
        /\ r.kind # None => \A j \in DOMAIN ls : ls[j].frees # r.kind
    BY <1>2, <1>4, <2>1, RequestLeaves
  <2>5. CASE waits
    <3>1. \/ load.frees = None
          \/ /\ load.frees \in submitting /\ \A j \in DOMAIN requests' : requests'[j].kind # load.frees
             /\ \A k \in DOMAIN ls : ls[k].frees # load.frees
      BY <1>6, <1>11, <2>4, <2>5
    <3>2. OneEach(requests', submitting, more, fetches)
      BY <2>3, <2>4, <3>1
    <3> QED
      BY <1>4, <1>9, <2>1, <2>5, <3>2
  <2>6. CASE ~waits
    <3>1. load.frees = None
      BY <1>6, <1>11, <2>6
    <3>2. OneEach(requests', submitting \ {r.kind}, more, fetches)
      BY <2>3, <2>4, <3>1
    <3> QED
      BY <1>4, <1>9, <2>1, <2>6, <3>2
  <2> QED
    BY <2>5, <2>6
<1> QED
  BY <1>13, <1>14, <1>15 DEF AdminInv

LEMMA AdminAnswers ==
  ASSUME AdminInv, Admin!AnswerRequest
  PROVE  AdminInv'
<1>1. PICK i \in DOMAIN requests :
        /\ requests[i].kind \notin {"manage", "toggle"}
        /\ Admin!Accepted(i) \/ Admin!NotAccepted(i)
  BY DEF Admin!AnswerRequest
<1> QED
  BY <1>1, AdminAccepts, AdminRefuses

\* The requests of the manage dialog, when the list is left alone.
LEMMA LinksMove ==
  ASSUME AdminInv, UNCHANGED <<view, server, table, loads, raced, crossed, own>>,
         FormTypes', AskedFirst', ManageTypes', LinksBelong',
         TogglesShown(requests', table.shown), OneEach(requests', submitting', loads, fetches')
  PROVE  AdminInv'
<1>1. TableTypes /\ ListFollows
  BY DEF AdminInv
<1>2. TableTypes' /\ ListFollows'
  BY <1>1 DEF TableTypes, ListFollows
<1>3. TogglesShown(requests', table'.shown) /\ OneEach(requests', submitting', loads', fetches')
  OBVIOUS
<1> QED
  BY <1>2, <1>3 DEF AdminInv

LEMMA AdminLinkAnswers ==
  ASSUME AdminInv, Admin!AnswerLink
  PROVE  AdminInv'
<1>1. /\ FormTypes /\ ManageTypes /\ TogglesShown(requests, table.shown) /\ AskedFirst /\ LinksBelong
  BY DEF AdminInv
<1>2. PICK i \in DOMAIN requests :
       /\ requests[i].kind = "manage"
       /\ requests' = Admin!Without(requests, i)
       /\ \/ /\ fetches' = fetches \cup {Admin!Fetch(requests[i].list, dialog.of["manage"], TRUE)}
             /\ UNCHANGED submitting
          \/ submitting' = submitting \ {"manage"} /\ UNCHANGED fetches
  BY DEF Admin!AnswerLink
<1>3. UNCHANGED <<view, server, table, loads, raced, crossed, own, dialog, linked, hasty>>
  BY DEF Admin!AnswerLink, Admin!listVars
<1>4. /\ requests' \in Seq(Changes)
      /\ \A j \in DOMAIN requests' : \E k \in DOMAIN requests : k # i /\ requests'[j] = requests[k]
      /\ OneEach(requests', submitting, loads, fetches)
      /\ OneEach(requests', submitting \ {requests[i].kind}, loads, fetches)
      /\ requests[i].kind \in submitting
      /\ \A j \in DOMAIN requests' : requests'[j].kind # requests[i].kind
      /\ requests[i].kind = "manage" => \A f \in fetches : f.frees # TRUE
  BY <1>2, RequestLeaves
<1>5. FormTypes' /\ AskedFirst' /\ TogglesShown(requests', table.shown)
  BY <1>1, <1>3, <1>4 DEF FormTypes, AskedFirst, TogglesShown
<1>6. CASE submitting' = submitting \ {"manage"} /\ UNCHANGED fetches
  <2>1. ManageTypes' /\ LinksBelong'
    BY <1>1, <1>3, <1>4, <1>6 DEF ManageTypes, LinksBelong
  <2>2. OneEach(requests', submitting', loads, fetches')
    BY <1>2, <1>4, <1>6
  <2> QED
    BY <1>3, <1>5, <2>1, <2>2, LinksMove
<1>7. CASE /\ fetches' = fetches \cup {Admin!Fetch(requests[i].list, dialog.of["manage"], TRUE)}
           /\ UNCHANGED submitting
  <2>1. PICK f : f = Admin!Fetch(requests[i].list, dialog.of["manage"], TRUE)
    OBVIOUS
  <2>2. f.list = requests[i].list /\ f.of = dialog.of["manage"] /\ f.frees = TRUE
    BY <2>1 DEF Admin!Fetch
  <2>3. fetches' = fetches \cup {f}
    BY <1>7, <2>1
  <2>4. f.of \in Rows \cup {None}
    BY <1>1, <2>2, DialogKnown DEF FormKinds
  <2>5. ManageTypes'
    BY <1>1, <1>3, <2>2, <2>3, <2>4 DEF ManageTypes
  <2>6. LinksBelong'
    BY <1>1, <1>2, <1>3, <1>4, <2>2, <2>3 DEF LinksBelong
  <2>7. OneEach(requests', submitting, loads, fetches')
    BY <1>2, <1>4, <2>2, <2>3 DEF OneEach
  <2> QED
    BY <1>3, <1>5, <1>7, <2>5, <2>6, <2>7, LinksMove
<1> QED
  BY <1>2, <1>6, <1>7

LEMMA AdminFetchEnds ==
  ASSUME AdminInv, Admin!FetchArrives \/ Admin!FetchFails
  PROVE  AdminInv'
<1>1. /\ FormTypes /\ ManageTypes /\ TogglesShown(requests, table.shown) /\ AskedFirst /\ LinksBelong
      /\ OneEach(requests, submitting, loads, fetches) /\ TableTypes
  BY DEF AdminInv
<1>2. UNCHANGED <<view, server, table, loads, raced, crossed, own, dialog, requests, hasty>>
  BY DEF Admin!FetchArrives, Admin!FetchFails, Admin!listVars
<1>3. PICK f \in fetches :
        /\ fetches' = fetches \ {f}
        /\ submitting' = IF f.frees THEN submitting \ {"manage"} ELSE submitting
        /\ linked' = linked \/ (f.list \in {"users", "teams"} /\ linked' = [linked EXCEPT ![f.list] = f.of])
  BY DEF Admin!FetchArrives, Admin!FetchFails, Admin!Ends, Admin!Lists
<1>4. f.of \in Rows \cup {None} /\ f.frees \in BOOLEAN
  BY <1>1 DEF ManageTypes
<1>5. FormTypes' /\ AskedFirst' /\ TogglesShown(requests', table.shown)
  BY <1>1, <1>2 DEF FormTypes, AskedFirst, TogglesShown
<1>6. ManageTypes'
  BY <1>1, <1>2, <1>3, <1>4 DEF ManageTypes
<1>7. LinksBelong'
  <2>1. linked \in [{"users", "teams"} -> Rows \cup {None}]
    BY <1>1 DEF ManageTypes
  <2>2. \A l \in {"users", "teams"} : linked'[l] = linked[l] \/ (f.list = l /\ linked'[l] = f.of)
    BY <1>3, <2>1
  <2>3. hasty' = FALSE =>
       /\ \A l \in {"users", "teams"} : linked'[l] \in {None, dialog'.of["manage"]}
       /\ \A g \in fetches' : g.list \in {"users", "teams"} => g.of = dialog'.of["manage"]
    BY <1>1, <1>2, <1>3, <2>2 DEF LinksBelong
  <2>4. view' = "teams" =>
       /\ linked'["teams"] = None /\ \A g \in fetches' : g.list # "teams"
       /\ \A i \in DOMAIN requests' : requests'[i].kind = "manage" => requests'[i].list # "teams"
    BY <1>1, <1>2, <1>3, <2>2 DEF LinksBelong
  <2> QED
    BY <2>3, <2>4 DEF LinksBelong
<1>8. OneEach(requests, submitting', loads, fetches')
  <2>1. CASE f.frees = FALSE
    BY <1>1, <1>3, <2>1 DEF OneEach
  <2>2. CASE f.frees = TRUE
    <3>1. submitting' = submitting \ {"manage"}
      BY <1>3, <2>2
    <3>2. \A g \in fetches' : g.frees # TRUE
      BY <1>1, <1>3, <2>2 DEF OneEach
    <3>3. \A j \in DOMAIN requests : requests[j].kind # "manage"
      BY <1>1, <2>2 DEF OneEach
    <3>4. \A j \in DOMAIN loads : loads[j].frees # None => loads[j].frees # "manage"
      <4>1. PICK ls \in Seq(TableLoads) : ls = loads
        BY <1>1 DEF TableTypes
      <4>2. \A j \in DOMAIN ls : ls[j].frees # None => ls[j].frees # "manage"
        <5>1. \A x \in TableLoads : x.frees # None => x.frees # "manage"
          BY DEF TableLoads
        <5> QED
          BY <5>1, ElementOf
      <4> QED
        BY <4>1, <4>2
    <3> QED
      BY <1>1, <3>1, <3>2, <3>3, <3>4 DEF OneEach
  <2> QED
    BY <1>4, <2>1, <2>2
<1> QED
  BY <1>2, <1>5, <1>6, <1>7, <1>8, LinksMove

\* The manage dialog opens: its lists are cleared and asked for.
LEMMA AdminOpensManage ==
  ASSUME AdminInv, NEW lists, lists = {"users", "teams"} \/ lists = {"users"},
         lists = {"users"} => view = "teams", view = "teams" => lists = {"users"},
         Admin!OpenManage(lists)
  PROVE  AdminInv'
<1>1. /\ FormTypes /\ ManageTypes /\ TogglesShown(requests, table.shown) /\ AskedFirst /\ LinksBelong
      /\ OneEach(requests, submitting, loads, fetches)
  BY DEF AdminInv
<1>2. PICK row \in Rows :
        /\ Admin!Opened("manage", row)
        /\ fetches' = fetches \cup {Admin!Fetch(l, row, FALSE) : l \in lists \cup {"all"}}
  BY DEF Admin!OpenManage
<1>3. /\ linked' = [l \in {"users", "teams"} |-> IF l \in lists THEN None ELSE linked[l]]
      /\ hasty' = (fetches # {})
  BY DEF Admin!OpenManage, Admin!Cleared, Admin!Lists
<1>4. /\ dialog' = [dialog EXCEPT !.kind = "manage", !.of["manage"] = row]
      /\ UNCHANGED <<view, server, table, loads, raced, crossed, own, submitting, requests>>
  BY <1>2 DEF Admin!Opened, Admin!listVars
<1>5. \A f \in fetches' : f \in fetches \/
        (f.list \in lists \cup {"all"} /\ f.of = row /\ f.frees = FALSE)
  BY <1>2 DEF Admin!Fetch
<1>6. PICK of : of = [dialog.of EXCEPT !["manage"] = row]
  OBVIOUS
<1>7. of \in [FormKinds -> Rows \cup {None}] /\ of["manage"] = row
  BY <1>1, <1>6, DialogKnown DEF FormKinds
<1>8. dialog' = [dialog EXCEPT !.kind = "manage", !.of = of]
  BY <1>4, <1>6
<1>9. dialog' \in Dialogues /\ dialog'.kind = "manage" /\ dialog'.of["manage"] = row
  BY <1>1, <1>7, <1>8 DEF FormTypes, Dialogues, FormKinds
<1>10. FormTypes' /\ AskedFirst' /\ TogglesShown(requests', table.shown)
  BY <1>1, <1>4, <1>9 DEF FormTypes, AskedFirst, TogglesShown, Unasked
<1>11. ManageTypes'
  BY <1>1, <1>3, <1>5 DEF ManageTypes
<1>12. LinksBelong'
  <2>1. hasty' = FALSE =>
       /\ \A l \in {"users", "teams"} : linked'[l] \in {None, dialog'.of["manage"]}
       /\ \A g \in fetches' : g.list \in {"users", "teams"} => g.of = dialog'.of["manage"]
    BY <1>1, <1>3, <1>5, <1>9 DEF LinksBelong
  <2>2. view' = "teams" =>
       /\ linked'["teams"] = None /\ \A g \in fetches' : g.list # "teams"
       /\ \A i \in DOMAIN requests' : requests'[i].kind = "manage" => requests'[i].list # "teams"
    BY <1>1, <1>3, <1>4, <1>5 DEF LinksBelong
  <2> QED
    BY <2>1, <2>2 DEF LinksBelong
<1>13. OneEach(requests', submitting', loads, fetches')
  BY <1>1, <1>4, <1>5 DEF OneEach
<1> QED
  BY <1>4, <1>10, <1>11, <1>12, <1>13, LinksMove

LEMMA AdminOpensMailbox ==
  ASSUME AdminInv, Admin!OpenCreateMailbox
  PROVE  AdminInv'
<1>1. /\ Admin!Opened("create", None)
      /\ fetches' = fetches \cup {Admin!Fetch("domains", None, FALSE)}
      /\ UNCHANGED <<linked, hasty>>
  BY DEF Admin!OpenCreateMailbox
<1>2. \A f \in fetches' : f \in fetches \/ (f.list = "domains" /\ f.of = None /\ f.frees = FALSE)
  BY <1>1 DEF Admin!Fetch
<1>3. PICK kind \in {"create", "edit", "delete"}, row \in Rows \cup {None} : kind = "create" /\ row = None
  OBVIOUS
<1>4. Admin!Opened(kind, row) /\ kind # "edit"
  BY <1>1, <1>3
<1> QED
  BY <1>1, <1>2, <1>4, AdminOpens

\* A row of a list is opened in a dialog that says what happens to it.
LEMMA AdminOpensRow ==
  ASSUME AdminInv, NEW kind \in {"edit", "delete"}, view \notin {"users", "mailboxes"},
         Admin!OpenRow(kind)
  PROVE  AdminInv'
<1>1. PICK row \in Rows : Admin!Opened(kind, row)
  BY DEF Admin!OpenRow
<1>2. UNCHANGED <<linked, fetches, hasty>>
  BY DEF Admin!OpenRow, Admin!manageVars
<1>3. \A f \in fetches' : f \in fetches \/ (f.list = "domains" /\ f.of = None /\ f.frees = FALSE)
  BY <1>2
<1> QED
  BY <1>1, <1>2, <1>3, AdminOpens

LEMMA AdminOpensCreate ==
  ASSUME AdminInv, Admin!OpenCreate
  PROVE  AdminInv'
<1>1. Admin!Opened("create", None) /\ UNCHANGED <<linked, fetches, hasty>>
  BY DEF Admin!OpenCreate, Admin!manageVars
<1>2. \A f \in fetches' : f \in fetches \/ (f.list = "domains" /\ f.of = None /\ f.frees = FALSE)
  BY <1>1
<1>3. PICK kind \in {"create", "edit", "delete"}, row \in Rows \cup {None} : kind = "create" /\ row = None
  OBVIOUS
<1>4. Admin!Opened(kind, row) /\ kind # "edit"
  BY <1>1, <1>3
<1> QED
  BY <1>1, <1>2, <1>4, AdminOpens

LEMMA AdminSteps == AdminInv /\ Admin!Next => AdminInv'
<1> SUFFICES ASSUME AdminInv, Admin!Next PROVE AdminInv'
  OBVIOUS
<1>1. CASE Admin!LoadArrives
  BY <1>1, AdminLoadArrives
<1>2. CASE Admin!LoadFails
  BY <1>2, AdminLoadFails
<1>3. CASE Admin!GoNext \/ Admin!GoPrev \/ Admin!Retry
  BY <1>3, AdminTurns
<1>4. CASE Admin!OtherChanges
  BY <1>4, AdminOthers
<1>5. CASE Admin!CloseDialog
  BY <1>5, AdminCloses
<1>6. CASE Admin!AnswerRequest
  BY <1>6, AdminAnswers
<1>7. CASE Admin!AnswerLink
  BY <1>7, AdminLinkAnswers
<1>8. CASE Admin!FetchArrives \/ Admin!FetchFails
  BY <1>8, AdminFetchEnds
<1>9. CASE Admin!UsersView
  <2>1. CASE Admin!OpenCreateUser
    BY <2>1, AdminOpensCreate DEF Admin!OpenCreateUser
  <2>2. CASE Admin!SubmitCreateUser
    BY <2>2, AdminSubmits DEF Admin!SubmitCreateUser
  <2>3. CASE Admin!OpenEditUser
    BY <2>3, AdminOpensEdit DEF Admin!OpenEditUser
  <2>4. CASE Admin!ToggleUser
    BY <2>4, AdminToggles DEF Admin!ToggleUser
  <2>5. CASE Admin!ConfirmDeactivateUser
    BY <2>5, AdminConfirms DEF Admin!ConfirmDeactivateUser
  <2>6. CASE Admin!SubmitEditUser
    BY <2>6, AdminSubmitsEdit DEF Admin!SubmitEditUser
  <2> QED
    BY <1>9, <2>1, <2>2, <2>3, <2>4, <2>5, <2>6 DEF Admin!UsersView
<1>10. CASE Admin!MailboxesView
  <2>1. CASE Admin!OpenCreateMailbox
    BY <2>1, AdminOpensMailbox
  <2>2. CASE Admin!SubmitCreateMailbox
    BY <2>2, AdminSubmits DEF Admin!SubmitCreateMailbox
  <2>3. CASE Admin!OpenEditMailbox
    BY <2>3, AdminOpensEdit DEF Admin!OpenEditMailbox
  <2>4. CASE Admin!ToggleMailbox
    BY <2>4, AdminToggles DEF Admin!ToggleMailbox
  <2>5. CASE Admin!ConfirmDeactivateMailbox
    BY <2>5, AdminConfirms DEF Admin!ConfirmDeactivateMailbox
  <2>6. CASE Admin!SubmitEditMailbox
    BY <2>6, AdminSubmitsEdit DEF Admin!SubmitEditMailbox
  <2>7. CASE Admin!OpenManageUsers
    <3>1. PICK lists : lists = {"users", "teams"}
      OBVIOUS
    <3>2. Admin!OpenManage(lists) /\ view = "mailboxes"
      BY <2>7, <3>1 DEF Admin!OpenManageUsers, Admin!Lists
    <3>3. (lists = {"users"} => view = "teams") /\ view # "teams"
      <4>1. "teams" \in lists /\ "teams" \notin {"users"}
        BY <3>1
      <4> QED
        BY <3>2, <4>1
    <3> QED
      BY <3>1, <3>2, <3>3, AdminOpensManage
  <2>8. CASE Admin!LinkUser \/ Admin!UnlinkUser
    <3>1. PICK list \in {"users", "teams"} : list = "users"
      OBVIOUS
    <3>2. view # "teams" /\ (Admin!Link(list) \/ Admin!Unlink(list))
      BY <2>8, <3>1 DEF Admin!LinkUser, Admin!UnlinkUser
    <3> QED
      BY <3>2, AdminLinks
  <2>9. CASE Admin!LinkTeam \/ Admin!UnlinkTeam
    <3>1. PICK list \in {"users", "teams"} : list = "teams"
      OBVIOUS
    <3>2. view # "teams" /\ (Admin!Link(list) \/ Admin!Unlink(list))
      BY <2>9, <3>1 DEF Admin!LinkTeam, Admin!UnlinkTeam
    <3> QED
      BY <3>2, AdminLinks
  <2> QED
    BY <1>10, <2>1, <2>2, <2>3, <2>4, <2>5, <2>6, <2>7, <2>8, <2>9 DEF Admin!MailboxesView
<1>11. CASE Admin!TeamsView
  <2>1. CASE Admin!OpenCreateTeam
    BY <2>1, AdminOpensCreate DEF Admin!OpenCreateTeam
  <2>2. CASE Admin!SubmitCreateTeam
    BY <2>2, AdminSubmits DEF Admin!SubmitCreateTeam
  <2>3. CASE Admin!OpenRenameTeam
    BY <2>3, AdminOpensRow DEF Admin!OpenRenameTeam
  <2>4. CASE Admin!SubmitRenameTeam
    BY <2>4, AdminSubmits DEF Admin!SubmitRenameTeam
  <2>5. CASE Admin!OpenDeleteTeam
    BY <2>5, AdminOpensRow DEF Admin!OpenDeleteTeam
  <2>6. CASE Admin!ConfirmDeleteTeam
    BY <2>6, AdminSubmits DEF Admin!ConfirmDeleteTeam
  <2>7. CASE Admin!OpenManageMembers
    <3>1. PICK lists : lists = {"users"}
      OBVIOUS
    <3>2. Admin!OpenManage(lists) /\ view = "teams"
      BY <2>7, <3>1 DEF Admin!OpenManageMembers
    <3> QED
      BY <3>1, <3>2, AdminOpensManage
  <2>8. CASE Admin!AddMember \/ Admin!RemoveMember
    <3>1. PICK list \in {"users", "teams"} : list = "users"
      OBVIOUS
    <3>2. list # "teams" /\ (Admin!Link(list) \/ Admin!Unlink(list))
      BY <2>8, <3>1 DEF Admin!AddMember, Admin!RemoveMember
    <3> QED
      BY <3>2, AdminLinks
  <2> QED
    BY <1>11, <2>1, <2>2, <2>3, <2>4, <2>5, <2>6, <2>7, <2>8 DEF Admin!TeamsView
<1>12. CASE Admin!FoldersView
  <2>1. CASE Admin!OpenCreateFolder
    BY <2>1, AdminOpensCreate DEF Admin!OpenCreateFolder
  <2>2. CASE Admin!SubmitCreateFolder
    BY <2>2, AdminSubmits DEF Admin!SubmitCreateFolder
  <2>3. CASE Admin!OpenEditFolder
    BY <2>3, AdminOpensRow DEF Admin!OpenEditFolder
  <2>4. CASE Admin!SubmitEditFolder
    BY <2>4, AdminSubmits DEF Admin!SubmitEditFolder
  <2>5. CASE Admin!OpenDeleteFolder
    BY <2>5, AdminOpensRow DEF Admin!OpenDeleteFolder
  <2>6. CASE Admin!ConfirmDeleteFolder
    BY <2>6, AdminSubmits DEF Admin!ConfirmDeleteFolder
  <2> QED
    BY <1>12, <2>1, <2>2, <2>3, <2>4, <2>5, <2>6 DEF Admin!FoldersView
<1>13. CASE Admin!RulesetsView
  <2>1. CASE Admin!OpenDeleteRuleset
    BY <2>1, AdminOpensRow DEF Admin!OpenDeleteRuleset
  <2>2. CASE Admin!ConfirmDeleteRuleset
    BY <2>2, AdminSubmits DEF Admin!ConfirmDeleteRuleset
  <2>3. CASE Admin!ToggleRuleset
    BY <2>3, AdminSwitchesRow
  <2>4. CASE Admin!AnswerToggle
    BY <2>4, AdminSwitched
  <2> QED
    BY <1>13, <2>1, <2>2, <2>3, <2>4 DEF Admin!RulesetsView
<1> QED
  BY <1>1, <1>2, <1>3, <1>4, <1>5, <1>6, <1>7, <1>8, <1>9, <1>10, <1>11, <1>12, <1>13 DEF Admin!Next

LEMMA AdminStays == AdminInv /\ UNCHANGED adminState => AdminInv'
<1> SUFFICES ASSUME AdminInv, UNCHANGED adminState PROVE AdminInv'
  OBVIOUS
<1>1. UNCHANGED <<view, server, table, loads, raced, crossed, dialog, submitting, requests,
                  linked, fetches, hasty, own>>
  BY DEF adminState
<1>2. /\ TableTypes /\ FormTypes /\ ManageTypes /\ TogglesShown(requests, table.shown)
      /\ AskedFirst /\ OneEach(requests, submitting, loads, fetches) /\ ListFollows /\ LinksBelong
  BY DEF AdminInv
<1>3. FormTypes' /\ AskedFirst'
  BY <1>1, <1>2 DEF FormTypes, AskedFirst
<1>4. ManageTypes'
  BY <1>1, <1>2 DEF ManageTypes
<1>5. LinksBelong'
  BY <1>1, <1>2 DEF LinksBelong
<1>6. TogglesShown(requests', table.shown) /\ OneEach(requests', submitting', loads, fetches')
  BY <1>1, <1>2
<1> QED
  BY <1>1, <1>3, <1>4, <1>5, <1>6, LinksMove

LEMMA AdminHolds ==
  AdminInv => /\ Admin!DeactivationConfirmed /\ Admin!SingleSubmission
              /\ Admin!ListIsCurrent /\ Admin!ManageListBelongs
<1> SUFFICES ASSUME AdminInv
             PROVE  /\ Admin!DeactivationConfirmed /\ Admin!SingleSubmission
                    /\ Admin!ListIsCurrent /\ Admin!ManageListBelongs
  OBVIOUS
<1>1. /\ TableTypes /\ FormTypes /\ AskedFirst /\ OneEach(requests, submitting, loads, fetches)
      /\ ListFollows /\ LinksBelong
  BY DEF AdminInv
<1>2. Admin!DeactivationConfirmed
  <2>1. ASSUME NEW i \in DOMAIN requests, requests[i].kind = "edit", ~requests[i].active,
               requests[i].was
        PROVE  requests[i].confirmed
    <3>1. PICK r \in Changes : r = requests[i]
      BY <1>1, <2>1, RequestKnown
    <3>2. r.active \in BOOLEAN /\ r.was \in BOOLEAN /\ r.confirmed \in BOOLEAN
      BY DEF Changes
    <3>3. ~Unasked(r) /\ r.kind = "edit" /\ r.active = FALSE /\ r.was = TRUE
      BY <1>1, <2>1, <3>1, <3>2 DEF AskedFirst
    <3> QED
      BY <3>1, <3>2, <3>3 DEF Unasked
  <2> QED
    BY <2>1 DEF Admin!DeactivationConfirmed
<1>3. Admin!SingleSubmission
  BY <1>1 DEF Admin!SingleSubmission, OneEach
<1>4. Admin!ManageListBelongs
  BY <1>1 DEF Admin!ManageListBelongs, LinksBelong, Admin!Lists, AdminInv, ManageTypes
<1>5. Admin!ListIsCurrent
  <2> SUFFICES ASSUME loads = <<>>, ~table.error, ~raced
               PROVE  /\ table.shown.rev >= own
                      /\ ~crossed /\ ~server.deleted =>
                           /\ table.shown.page = Admin!Cursor
                           /\ table.cursors = [i \in DOMAIN table.cursors |-> i - 1]
    BY DEF Admin!ListIsCurrent
  <2>1. /\ table.error = FALSE /\ raced = FALSE /\ crossed \in BOOLEAN /\ server.deleted \in BOOLEAN
    BY <1>1, TableKnown DEF TableTypes
  <2>2. ~LastCounts(loads, own)
    BY EmptySeq DEF LastCounts
  <2>3. Settled(table.shown, table.cursors, table.index, own, Uncrossed(server, crossed))
    BY <1>1, <2>1, <2>2 DEF ListFollows, NewestCounts
  <2>4. ASSUME ~crossed, ~server.deleted
        PROVE  /\ table.shown.page = Admin!Cursor
               /\ table.cursors = [i \in DOMAIN table.cursors |-> i - 1]
    <3>1. Uncrossed(server, crossed)
      BY <2>1, <2>4 DEF Uncrossed
    <3> QED
      BY <1>1, <2>3, <3>1 DEF ListFollows, InStep, Settled, Admin!Cursor
  <2> QED
    BY <2>3, <2>4 DEF Settled
<1> QED
  BY <1>2, <1>3, <1>4, <1>5

-----------------------------------------------------------------------------
(* The editor of rulesets                                                  *)

Ids == 1 .. MaxIds
TwoLists == {"conditions", "actions"}
FormRows == [TwoLists -> Seq(Ids)]
RouteValues == RulesetIds \cup {New, None, "blank"}
Forms == [of : RouteValues, rows : FormRows]
SentForms == [id : RouteValues, of : RouteValues, rows : FormRows, live : BOOLEAN,
              mistaken : BOOLEAN, early : BOOLEAN]
DetailLoads ==
  {d \in [stage : {"folders", "get"}, of : RouteValues] : d.stage = "get" => d.of # New}

\* The rows of a form, whatever list they are in.
RowsIn(rs) == {x \in Ids : \E l \in TwoLists : \E i \in DOMAIN rs[l] : rs[l][i] = x}

\* Every row of a list has a place for its error, which is not that of another row.
TidyList(e, q, all) ==
  /\ e \in Seq(Ids \cup {None}) /\ Len(e) = Len(q)
  /\ \A i \in DOMAIN e : e[i] = None \/ e[i] = q[i] \/ e[i] \notin all
Tidy(errs, rs) == \A l \in TwoLists : TidyList(errs[l], rs[l], RowsIn(rs))

\* A form that was sent has the rows of the form shown, or none of them.
Apart(rs, qs) == rs = qs \/ RowsIn(rs) \cap RowsIn(qs) = {}

EditorTypes ==
  /\ editing \in RulesetIds \cup {New, None} /\ form \in Forms
  /\ isLoading \in BOOLEAN /\ isSaving \in BOOLEAN /\ notFound \in BOOLEAN /\ mistaken \in BOOLEAN
  /\ details \in Seq(DetailLoads) /\ saves \subseteq SentForms
ErrorTypes == errors \in [TwoLists -> Seq(Ids \cup {None})]
\* A view that is left leaves nothing behind.
NothingLeft ==
  editing = None =>
    /\ form.of = "blank" /\ isLoading = FALSE /\ isSaving = FALSE /\ notFound = FALSE
    /\ mistaken = FALSE /\ details = <<>>
\* The values are those of the ruleset in the route, or on their way; or the folders are
\* being loaded, and the form is blank.
Wanted(id) == IF id = New THEN "blank" ELSE id
OwnValues ==
  editing # None /\ isLoading = FALSE /\ mistaken = FALSE =>
    form.of = Wanted(editing) \/ (Editor!Early /\ form.of = "blank")
SavesBelong ==
  \A s \in saves : s.mistaken = FALSE =>
    s.of = Wanted(s.id) \/ (s.early = TRUE /\ s.of = "blank")
\* One save at a time is that of the form shown.
OneSave ==
  /\ \A s \in saves : s.live = TRUE => isSaving = TRUE /\ Apart(s.rows, form.rows)
  /\ \A s, t \in saves : s.live = TRUE /\ t.live = TRUE => s = t
LoadToCome == isLoading = TRUE => \E i \in DOMAIN details : details[i].stage = "get"

EditorInv ==
  /\ EditorTypes /\ ErrorTypes /\ NothingLeft /\ OwnValues /\ SavesBelong /\ OneSave /\ LoadToCome
  /\ Tidy(errors, form.rows)

\* New ids, if there are as many left.
LEMMA NewIdsAre ==
  ASSUME NEW n \in Nat, NEW used, n <= Cardinality(Editor!FreeIds(used)) \/ n = 0
  PROVE  /\ Editor!NewIds(n, used) \in [1 .. n -> Editor!FreeIds(used)]
         /\ Editor!FreeIds(used) \subseteq Ids /\ Editor!FreeIds(used) \cap used = {}
<1>1. PICK free : free = Editor!FreeIds(used)
  OBVIOUS
<1>2. free \subseteq Ids /\ free \cap used = {}
  BY <1>1 DEF Editor!FreeIds, Ids
<1>3. IsFiniteSet(free)
  <2>1. IsFiniteSet(Ids)
    BY FS_Interval, ScreensAssumption DEF ScreensAssumption, Ids
  <2> QED
    BY <1>2, <2>1, FS_Subset
<1>4. \E ids \in [1 .. n -> free] : \A i, j \in 1 .. n : i # j => ids[i] # ids[j]
  <2>1. CASE n = 0
    <3>1. PICK ids : ids = [i \in 1 .. n |-> i]
      OBVIOUS
    <3>2. 1 .. n = {}
      BY <2>1
    <3>3. ids \in [1 .. n -> free]
      BY <3>1, <3>2
    <3> QED
      BY <3>2, <3>3
  <2>2. CASE n <= Cardinality(free)
    <3>1. PICK m \in Nat : m = Cardinality(free)
      BY <1>3, FS_CardinalityType
    <3>2. PICK f : f \in Bijection(1 .. m, free)
      BY <1>3, <3>1, FS_CardinalityType DEF ExistsBijection
    <3>3. f \in [1 .. m -> free] /\ \A i, j \in 1 .. m : f[i] = f[j] => i = j
      BY <3>2 DEF Bijection, Injection, IsInjective
    <3>4. \A i \in 1 .. n : i \in 1 .. m
      BY <2>2, <3>1
    <3>5. PICK ids : ids = [i \in 1 .. n |-> f[i]]
      OBVIOUS
    <3>6. ids \in [1 .. n -> free]
      BY <3>3, <3>4, <3>5
    <3> QED
      BY <3>3, <3>4, <3>5, <3>6
  <2> QED
    BY <1>1, <2>1, <2>2
<1>5. Editor!NewIds(n, used) \in [1 .. n -> free]
  BY <1>1, <1>4 DEF Editor!NewIds
<1> QED
  BY <1>1, <1>2, <1>5

LEMMA SavedIdsAre ==
  ASSUME EditorTypes, NEW s \in saves
  PROVE  RowsIn(s.rows) \subseteq Editor!SavedIds
<1>1. ASSUME NEW x \in RowsIn(s.rows) PROVE x \in Editor!SavedIds
  <2>1. PICK l \in TwoLists : \E i \in DOMAIN s.rows[l] : s.rows[l][i] = x
    BY <1>1 DEF RowsIn
  <2>2. x \in Editor!Elements(s.rows[l])
    BY <2>1 DEF Editor!Elements
  <2>3. x \in Editor!RowsOf(s)
    BY <2>1, <2>2 DEF Editor!RowsOf, Editor!FormLists, TwoLists
  <2> QED
    BY <2>3 DEF Editor!SavedIds
<1> QED
  BY <1>1

\* Rows for a whole form are those of no form that was sent.
LEMMA FreshRowsAre ==
  ASSUME EditorTypes, NEW n \in Nat, NEW rs \in Editor!FreshRows(n)
  PROVE  rs \in FormRows /\ \A s \in saves : RowsIn(s.rows) \cap RowsIn(rs) = {}
<1>1. PICK c \in {counts \in (1 .. n) \X (1 .. n) :
                    counts[1] + counts[2] <= Cardinality(Editor!FreeIds(Editor!SavedIds))} :
        rs = LET ids == Editor!NewIds(c[1] + c[2], Editor!SavedIds)
             IN [l \in Editor!FormLists |-> IF l = "conditions" THEN SubSeq(ids, 1, c[1])
                           ELSE SubSeq(ids, c[1] + 1, c[1] + c[2])]
  <2>1. Editor!Cardinality(Editor!FreeIds(Editor!SavedIds)) = Cardinality(Editor!FreeIds(Editor!SavedIds))
    BY DEF Editor!Cardinality, Cardinality
  <2> QED
    BY <2>1 DEF Editor!FreshRows
<1>2. PICK a \in 1 .. n, b \in 1 .. n : a = c[1] /\ b = c[2]
  BY <1>1
<1>3. PICK both \in Nat : both = a + b
  BY <1>2
<1>4. PICK free : free = Editor!FreeIds(Editor!SavedIds)
  OBVIOUS
<1>5. PICK ids : ids = Editor!NewIds(both, Editor!SavedIds)
  OBVIOUS
<1>6. both <= Cardinality(Editor!FreeIds(Editor!SavedIds))
  BY <1>1, <1>2, <1>3
<1>7. ids \in [1 .. both -> free] /\ free \subseteq Ids /\ free \cap Editor!SavedIds = {}
  BY <1>4, <1>5, <1>6, NewIdsAre
<1>8. rs = [l \in TwoLists |-> IF l = "conditions" THEN SubSeq(ids, 1, a) ELSE SubSeq(ids, a + 1, both)]
  BY <1>1, <1>2, <1>3, <1>5 DEF Editor!FormLists, TwoLists
<1>9. SubSeq(ids, 1, a) \in Seq(free)
  <2>1. \A i \in 1 .. a : ids[i] \in free
    BY <1>2, <1>3, <1>7
  <2>2. 1 \in Int /\ a \in Int
    BY <1>2
  <2> QED
    BY <2>1, <2>2, SubSeqProperties
<1>10. SubSeq(ids, a + 1, both) \in Seq(free)
  <2>1. \A i \in a + 1 .. both : ids[i] \in free
    BY <1>2, <1>3, <1>7
  <2>2. a + 1 \in Int /\ both \in Int
    BY <1>2, <1>3
  <2> QED
    BY <2>1, <2>2, SubSeqProperties
<1>11. rs \in [TwoLists -> Seq(free)]
  BY <1>8, <1>9, <1>10
<1>12. Seq(free) \subseteq Seq(Ids)
  <2>1. ASSUME NEW q \in Seq(free) PROVE q \in Seq(Ids)
    <3>1. q \in [1 .. Len(q) -> free] /\ Len(q) \in Nat
      BY LenProperties
    <3>2. q \in [1 .. Len(q) -> Ids]
      BY <1>7, <3>1
    <3>3. PICK m \in Nat : m = Len(q)
      BY <3>1
    <3> QED
      BY <3>2, <3>3, ListOf
  <2> QED
    BY <2>1
<1>13. rs \in FormRows
  BY <1>11, <1>12 DEF FormRows
<1>14. ASSUME NEW x \in RowsIn(rs) PROVE x \in free
  <2>1. PICK l \in TwoLists : \E i \in DOMAIN rs[l] : rs[l][i] = x
    BY <1>14 DEF RowsIn
  <2>2. PICK q \in Seq(free) : q = rs[l]
    BY <1>11
  <2> QED
    BY <2>1, <2>2, ElementOf
<1> QED
  BY <1>7, <1>13, <1>14, SavedIdsAre

\* A place for the error of every row.
LEMMA NoErrorsAre ==
  ASSUME NEW rs \in FormRows
  PROVE  /\ Editor!NoErrors(rs) \in [TwoLists -> Seq(Ids \cup {None})]
         /\ Tidy(Editor!NoErrors(rs), rs)
<1>1. PICK errs : errs = Editor!NoErrors(rs)
  OBVIOUS
<1>2. errs = [l \in TwoLists |-> [i \in DOMAIN rs[l] |-> None]]
  BY <1>1 DEF Editor!NoErrors, Editor!FormLists, TwoLists
<1>3. ASSUME NEW l \in TwoLists
      PROVE  /\ errs[l] \in Seq(Ids \cup {None}) /\ Len(errs[l]) = Len(rs[l])
             /\ \A i \in DOMAIN errs[l] : errs[l][i] = None
  <2>1. PICK q \in Seq(Ids) : q = rs[l]
    BY DEF FormRows
  <2>2. PICK n \in Nat : n = Len(q) /\ DOMAIN q = 1 .. n
    BY LenProperties
  <2>3. PICK e : e = [i \in 1 .. n |-> None]
    OBVIOUS
  <2>4. errs[l] = e
    BY <1>2, <2>1, <2>2, <2>3
  <2>5. e \in [1 .. n -> Ids \cup {None}]
    BY <2>3
  <2>6. e \in Seq(Ids \cup {None}) /\ Len(e) = n /\ DOMAIN e = 1 .. n
    BY <2>5, ListOf
  <2> QED
    BY <2>1, <2>2, <2>3, <2>4, <2>6
<1>4. DOMAIN errs = TwoLists
  BY <1>2
<1>5. errs \in [TwoLists -> Seq(Ids \cup {None})]
  BY <1>2, <1>3, <1>4
<1> QED
  BY <1>1, <1>3, <1>5 DEF Tidy, TidyList

\* The form gets other values.
LEMMA EditorFills ==
  ASSUME EditorInv, NEW of \in RouteValues, NEW n \in Nat, NEW rs \in Editor!FreshRows(n),
         Editor!Filled(of, rs), UNCHANGED <<isSaving, saves>>
  PROVE  /\ form' \in Forms /\ form'.of = of /\ ErrorTypes' /\ Tidy(errors', form'.rows) /\ OneSave'
<1>1. EditorTypes /\ OneSave
  BY DEF EditorInv
<1>2. rs \in FormRows /\ \A s \in saves : RowsIn(s.rows) \cap RowsIn(rs) = {}
  BY <1>1, FreshRowsAre
<1>3. form' = [of |-> of, rows |-> rs] /\ errors' = Editor!NoErrors(rs)
  BY DEF Editor!Filled
<1>4. form' \in Forms /\ form'.of = of /\ form'.rows = rs
  BY <1>2, <1>3 DEF Forms
<1>5. ErrorTypes' /\ Tidy(errors', form'.rows)
  BY <1>2, <1>3, <1>4, NoErrorsAre DEF ErrorTypes
<1>6. OneSave'
  BY <1>1, <1>2, <1>4 DEF OneSave, Apart
<1> QED
  BY <1>4, <1>5, <1>6

LEMMA EditorLoads ==
  ASSUME EditorInv, NEW rest \in Seq(DetailLoads), NEW to \in RulesetIds \cup {New},
         Editor!LoadRuleset(rest, to), editing' = to, UNCHANGED <<isSaving, saves, mistaken>>,
         \A i \in DOMAIN details : details[i].stage = "get" =>
           \E j \in DOMAIN rest : rest[j].stage = "get"
  PROVE  EditorInv'
<1>1. /\ EditorTypes /\ ErrorTypes /\ NothingLeft /\ OwnValues /\ SavesBelong /\ OneSave /\ LoadToCome
      /\ Tidy(errors, form.rows)
  BY DEF EditorInv
<1>2. editing' # None /\ to \in RouteValues
  BY ScreensAssumption DEF ScreensAssumption, RouteValues
<1>3. SavesBelong' /\ NothingLeft'
  BY <1>1, <1>2 DEF SavesBelong, NothingLeft
<1>4. CASE to = New
  <2>1. /\ \E rs \in Editor!FreshRows(1) : Editor!Filled("blank", rs)
        /\ details' = rest /\ UNCHANGED <<isLoading, notFound>>
    BY <1>4 DEF Editor!LoadRuleset, Editor!Blank
  <2>2. PICK of \in RouteValues, n \in Nat : of = "blank" /\ n = 1
    BY DEF RouteValues
  <2>3. PICK rs \in Editor!FreshRows(n) : Editor!Filled(of, rs)
    BY <2>1, <2>2
  <2>4. form' \in Forms /\ form'.of = of /\ ErrorTypes' /\ Tidy(errors', form'.rows) /\ OneSave'
    BY <2>3, EditorFills
  <2>5. EditorTypes'
    BY <1>1, <2>1, <2>4 DEF EditorTypes
  <2>6. OwnValues' /\ LoadToCome'
    BY <1>1, <1>4, <2>1, <2>2, <2>4 DEF OwnValues, Wanted, LoadToCome
  <2> QED
    BY <1>3, <2>4, <2>5, <2>6 DEF EditorInv
<1>5. CASE to # New
  <2>1. /\ details' = Append(rest, [stage |-> "get", of |-> to])
        /\ isLoading' = TRUE /\ notFound' = FALSE /\ UNCHANGED <<form, errors>>
    BY <1>5 DEF Editor!LoadRuleset
  <2>2. PICK e \in DetailLoads : e = [stage |-> "get", of |-> to]
    BY <1>2, <1>5 DEF DetailLoads
  <2>3. e.stage = "get" /\ details' = Append(rest, e)
    BY <2>1, <2>2
  <2>4. PICK more : more = Append(rest, e)
    OBVIOUS
  <2>5. more \in Seq(DetailLoads) /\ \E i \in DOMAIN more : more[i] = e
    BY <2>4, Appended
  <2>6. EditorTypes' /\ ErrorTypes'
    BY <1>1, <2>1, <2>3, <2>4, <2>5 DEF EditorTypes, ErrorTypes
  <2>7. LoadToCome'
    BY <2>3, <2>4, <2>5 DEF LoadToCome
  <2>8. OneSave' /\ OwnValues'
    BY <1>1, <2>1 DEF OneSave, OwnValues
  <2>9. Tidy(errors', form'.rows)
    BY <1>1, <2>1
  <2> QED
    BY <1>3, <2>6, <2>7, <2>8, <2>9 DEF EditorInv
<1> QED
  BY <1>4, <1>5

LEMMA EditorOpens == ASSUME EditorInv, Editor!OpenEditor PROVE EditorInv'
<1>1. /\ EditorTypes /\ ErrorTypes /\ NothingLeft /\ SavesBelong /\ OneSave /\ Tidy(errors, form.rows)
  BY DEF EditorInv
<1>2. /\ editing = None /\ editing' \in RulesetIds \cup {New}
      /\ details' = <<[stage |-> "folders", of |-> None]>>
      /\ UNCHANGED <<form, errors, isLoading, isSaving, notFound, saves, mistaken>>
  BY DEF Editor!OpenEditor
<1>3. PICK e \in DetailLoads : e = [stage |-> "folders", of |-> None]
  BY DEF DetailLoads, RouteValues
<1>4. details' = <<e>> /\ <<e>> \in Seq(DetailLoads)
  BY <1>2, <1>3
<1>5. EditorTypes' /\ ErrorTypes'
  BY <1>1, <1>2, <1>4 DEF EditorTypes, ErrorTypes
<1>6. NothingLeft' /\ OwnValues' /\ LoadToCome'
  <2>1. e.stage = "folders" /\ details'[1] = e /\ 1 \in DOMAIN details'
    BY <1>3, <1>4
  <2>2. Editor!Early'
    BY <2>1 DEF Editor!Early
  <2> QED
    BY <1>1, <1>2, <2>2, ScreensAssumption DEF NothingLeft, OwnValues, LoadToCome, ScreensAssumption
<1>7. SavesBelong' /\ OneSave'
  BY <1>1, <1>2 DEF SavesBelong, OneSave
<1>8. Tidy(errors', form'.rows)
  BY <1>1, <1>2
<1> QED
  BY <1>5, <1>6, <1>7, <1>8 DEF EditorInv

LEMMA DetailAnswered ==
  ASSUME EditorInv, NEW i \in DOMAIN details, NEW rest, rest = Editor!Without(details, i)
  PROVE  /\ rest \in Seq(DetailLoads) /\ editing # None
         /\ details[i].of \in RouteValues
         /\ details[i].stage = "get" => details[i].of # New
         /\ \A j \in DOMAIN details : j # i => \E k \in DOMAIN rest : rest[k] = details[j]
<1>1. PICK ds \in Seq(DetailLoads) : ds = details
  BY DEF EditorInv, EditorTypes
<1>2. rest = Without(ds, i) /\ i \in DOMAIN ds
  BY <1>1 DEF Editor!Without, Without
<1>3. /\ rest \in Seq(DetailLoads)
      /\ \A k \in DOMAIN ds : k # i => \E j \in DOMAIN rest : rest[j] = ds[k]
  BY <1>2, RemovedOne
<1>4. ds[i] \in DetailLoads
  BY <1>2, ElementOf
<1>5. editing # None
  BY <1>1, <1>2, EmptySeq DEF EditorInv, NothingLeft
<1> QED
  BY <1>1, <1>3, <1>4, <1>5 DEF DetailLoads

LEMMA EditorLoadsFolders == ASSUME EditorInv, Editor!LoadFolders PROVE EditorInv'
<1>1. PICK i \in DOMAIN details :
        /\ details[i].stage = "folders"
        /\ Editor!LoadRuleset(Editor!Without(details, i), editing)
  BY DEF Editor!LoadFolders
<1>2. UNCHANGED <<editing, isSaving, saves, mistaken>>
  BY DEF Editor!LoadFolders
<1>3. PICK rest : rest = Editor!Without(details, i)
  OBVIOUS
<1>4. /\ rest \in Seq(DetailLoads) /\ editing # None
      /\ \A j \in DOMAIN details : j # i => \E k \in DOMAIN rest : rest[k] = details[j]
  BY <1>3, DetailAnswered
<1>5. \A j \in DOMAIN details : details[j].stage = "get" =>
        \E k \in DOMAIN rest : rest[k].stage = "get"
  BY <1>1, <1>4
<1>6. PICK to \in RulesetIds \cup {New} : to = editing
  BY <1>4 DEF EditorInv, EditorTypes
<1>7. Editor!LoadRuleset(rest, to)
  BY <1>1, <1>3, <1>6
<1>8. editing' = to
  BY <1>2, <1>6
<1> QED
  BY <1>2, <1>4, <1>5, <1>7, <1>8, EditorLoads

LEMMA EditorChangesRoute == ASSUME EditorInv, Editor!ChangeRoute PROVE EditorInv'
<1>1. PICK to \in RulesetIds \cup {New} : to = editing'
  BY DEF Editor!ChangeRoute
<1>2. Editor!LoadRuleset(details, to) /\ UNCHANGED <<isSaving, saves, mistaken>>
  BY <1>1 DEF Editor!ChangeRoute
<1>3. PICK rest \in Seq(DetailLoads) : rest = details
  BY DEF EditorInv, EditorTypes
<1>4. Editor!LoadRuleset(rest, to)
  BY <1>2, <1>3
<1>5. \A i \in DOMAIN details : details[i].stage = "get" =>
           \E j \in DOMAIN rest : rest[j].stage = "get"
  BY <1>3
<1> QED
  BY <1>1, <1>2, <1>4, <1>5, EditorLoads

LEMMA EditorPopulates == ASSUME EditorInv, Editor!PopulateDetail PROVE EditorInv'
<1>1. /\ EditorTypes /\ NothingLeft /\ SavesBelong
  BY DEF EditorInv
<1>2. PICK i \in DOMAIN details :
       /\ details[i].stage = "get"
       /\ \E rs \in Editor!FreshRows(MaxLength) : Editor!Filled(details[i].of, rs)
       /\ details' = Editor!Without(details, i)
       /\ mistaken' = (mistaken \/ details[i].of # editing)
  BY DEF Editor!PopulateDetail
<1>3. isLoading' = FALSE /\ UNCHANGED <<editing, isSaving, notFound, saves>>
  BY DEF Editor!PopulateDetail
<1>4. PICK rest : rest = Editor!Without(details, i)
  OBVIOUS
<1>5. /\ rest \in Seq(DetailLoads) /\ editing # None
      /\ details[i].of \in RouteValues /\ details[i].of # New
  BY <1>2, <1>4, DetailAnswered
<1>6. PICK of \in RouteValues, n \in Nat : of = details[i].of /\ n = MaxLength
  BY <1>5, ScreensAssumption DEF ScreensAssumption
<1>7. PICK rs \in Editor!FreshRows(n) : Editor!Filled(of, rs)
  BY <1>2, <1>6
<1>8. form' \in Forms /\ form'.of = of /\ ErrorTypes' /\ Tidy(errors', form'.rows) /\ OneSave'
  BY <1>3, <1>7, EditorFills
<1>9. mistaken' \in BOOLEAN /\ (mistaken' = FALSE => of = Wanted(editing))
  BY <1>1, <1>2, <1>5, <1>6 DEF EditorTypes, Wanted
<1>10. EditorTypes'
  BY <1>1, <1>2, <1>3, <1>4, <1>5, <1>8, <1>9 DEF EditorTypes
<1>11. NothingLeft' /\ OwnValues' /\ LoadToCome' /\ SavesBelong'
  BY <1>1, <1>3, <1>5, <1>8, <1>9 DEF NothingLeft, OwnValues, LoadToCome, SavesBelong
<1> QED
  BY <1>8, <1>10, <1>11 DEF EditorInv

LEMMA EditorLoadFails == ASSUME EditorInv, Editor!LoadFails PROVE EditorInv'
<1>1. /\ EditorTypes /\ ErrorTypes /\ NothingLeft /\ SavesBelong /\ OneSave /\ Tidy(errors, form.rows)
  BY DEF EditorInv
<1>2. PICK i \in DOMAIN details : details' = Editor!Without(details, i)
  BY DEF Editor!LoadFails
<1>3. /\ notFound' \in {notFound, TRUE} /\ isLoading' = FALSE /\ mistaken' = TRUE
      /\ UNCHANGED <<editing, form, errors, isSaving, saves>>
  BY DEF Editor!LoadFails
<1>4. PICK rest : rest = Editor!Without(details, i)
  OBVIOUS
<1>5. rest \in Seq(DetailLoads) /\ editing # None
  BY <1>4, DetailAnswered
<1>6. EditorTypes' /\ ErrorTypes'
  BY <1>1, <1>2, <1>3, <1>4, <1>5 DEF EditorTypes, ErrorTypes
<1>7. NothingLeft' /\ OwnValues' /\ LoadToCome' /\ SavesBelong' /\ OneSave'
  BY <1>1, <1>3, <1>5 DEF NothingLeft, OwnValues, LoadToCome, SavesBelong, OneSave
<1>8. Tidy(errors', form'.rows)
  BY <1>1, <1>3
<1> QED
  BY <1>6, <1>7, <1>8 DEF EditorInv

\* The rows are edited: no save is under way whose form is this one.
LEMMA EditorEdits ==
  ASSUME EditorInv, Editor!Editable, UNCHANGED Editor!formOnly, form' \in Forms,
         form'.of = form.of, ErrorTypes', Tidy(errors', form'.rows)
  PROVE  EditorInv'
<1>1. /\ EditorTypes /\ NothingLeft /\ OwnValues /\ SavesBelong /\ OneSave /\ LoadToCome
  BY DEF EditorInv
<1>2. UNCHANGED <<editing, isLoading, isSaving, notFound, details, saves, mistaken>>
  BY DEF Editor!formOnly
<1>3. isSaving = FALSE
  BY <1>1 DEF Editor!Editable, EditorTypes
<1>4. EditorTypes'
  BY <1>1, <1>2 DEF EditorTypes
<1>5. NothingLeft' /\ OwnValues' /\ LoadToCome' /\ SavesBelong'
  BY <1>1, <1>2 DEF NothingLeft, OwnValues, LoadToCome, SavesBelong, Editor!Early
<1>6. OneSave'
  BY <1>1, <1>2, <1>3 DEF OneSave
<1> QED
  BY <1>4, <1>5, <1>6 DEF EditorInv

\* One list of the form changes, and its errors with it.
LEMMA EditorList ==
  ASSUME EditorInv, Editor!Editable, UNCHANGED Editor!formOnly,
         NEW l \in TwoLists, NEW q \in Seq(Ids), NEW e,
         form' = [form EXCEPT !.rows[l] = q], errors' = [errors EXCEPT ![l] = e],
         NEW all, \A x \in Ids \ all :
           x \notin RowsIn(form.rows) /\ \A i \in DOMAIN q : q[i] # x,
         TidyList(e, q, all),
         \A k \in TwoLists : \A i \in DOMAIN errors[k] :
           errors[k][i] = None \/ errors[k][i] \in RowsIn(form.rows) \/ errors[k][i] \notin all
  PROVE  EditorInv'
<1>1. EditorTypes /\ ErrorTypes /\ Tidy(errors, form.rows)
  BY DEF EditorInv
<1>2. PICK rs \in FormRows : rs = form.rows
  BY <1>1 DEF EditorTypes, Forms
<1>3. PICK qs : qs = [rs EXCEPT ![l] = q]
  OBVIOUS
<1>4. /\ qs \in FormRows /\ qs[l] = q /\ \A k \in TwoLists : k # l => qs[k] = rs[k]
  BY <1>3 DEF FormRows
<1>5. form' = [form EXCEPT !.rows = qs]
  BY <1>2, <1>3
<1>6. form' \in Forms /\ form'.of = form.of /\ form'.rows = qs
  BY <1>1, <1>4, <1>5 DEF EditorTypes, Forms
<1>7. RowsIn(qs) \subseteq all
  BY <1>2, <1>4 DEF RowsIn
<1>8. /\ errors'[l] = e /\ \A k \in TwoLists : k # l => errors'[k] = errors[k]
      /\ errors' \in [TwoLists -> Seq(Ids \cup {None})]
  <2>1. e \in Seq(Ids \cup {None}) /\ errors \in [TwoLists -> Seq(Ids \cup {None})]
    BY <1>1 DEF TidyList, ErrorTypes
  <2> QED
    BY <2>1
<1>9. ASSUME NEW k \in TwoLists PROVE TidyList(errors'[k], qs[k], RowsIn(qs))
  <2>1. CASE k = l
    BY <1>4, <1>7, <1>8, <2>1 DEF TidyList
  <2>2. CASE k # l
    <3>1. /\ errors'[k] = errors[k] /\ qs[k] = rs[k] /\ TidyList(errors[k], rs[k], RowsIn(rs))
      BY <1>1, <1>2, <1>4, <1>8, <2>2 DEF Tidy
    <3>2. \A i \in DOMAIN errors[k] :
            errors[k][i] = None \/ errors[k][i] \in RowsIn(rs) \/ errors[k][i] \notin RowsIn(qs)
      BY <1>2, <1>7
    <3> QED
      BY <3>1, <3>2 DEF TidyList
  <2> QED
    BY <2>1, <2>2
<1>10. ErrorTypes' /\ Tidy(errors', form'.rows)
  BY <1>6, <1>8, <1>9 DEF ErrorTypes, Tidy
<1> QED
  BY <1>6, <1>10, EditorEdits

LEMMA ListKnown ==
  ASSUME EditorInv, NEW l \in TwoLists
  PROVE  form.rows[l] \in Seq(Ids) /\ TidyList(errors[l], form.rows[l], RowsIn(form.rows))
BY DEF EditorInv, EditorTypes, Forms, FormRows, Tidy

\* A new row is like no other, and like no row whose error is shown.
LEMMA EditorAdds == ASSUME EditorInv, Editor!AddRow PROVE EditorInv'
<1>1. PICK used : used = Editor!SavedIds \cup Editor!ShownIds
  OBVIOUS
<1>2. Editor!Editable /\ UNCHANGED Editor!formOnly /\ Editor!FreeIds(used) # {}
  BY <1>1 DEF Editor!AddRow
<1>3. PICK l \in TwoLists :
        /\ form' = [form EXCEPT !.rows[l] = Append(form.rows[l], Editor!NewIds(1, used)[1])]
        /\ errors' = [errors EXCEPT ![l] = Append(errors[l], None)]
  BY <1>1 DEF Editor!AddRow, Editor!FormLists, TwoLists
<1>4. PICK one \in Nat : one = 1
  OBVIOUS
<1>5. one <= Cardinality(Editor!FreeIds(used))
  <2>1. IsFiniteSet(Editor!FreeIds(used))
    <3>1. IsFiniteSet(Ids)
      BY FS_Interval, ScreensAssumption DEF ScreensAssumption, Ids
    <3>2. Editor!FreeIds(used) \subseteq Ids
      BY DEF Editor!FreeIds, Ids
    <3> QED
      BY <3>1, <3>2, FS_Subset
  <2>2. PICK m \in Nat : m = Cardinality(Editor!FreeIds(used))
    BY <2>1, FS_CardinalityType
  <2>3. m # 0
    BY <1>2, <2>1, <2>2, FS_EmptySet
  <2> QED
    BY <1>4, <2>2, <2>3
<1>6. /\ Editor!NewIds(one, used) \in [1 .. one -> Editor!FreeIds(used)]
      /\ Editor!FreeIds(used) \subseteq Ids /\ Editor!FreeIds(used) \cap used = {}
  BY <1>5, NewIdsAre
<1>7. PICK id \in Ids : id = Editor!NewIds(1, used)[1] /\ id \notin used
  BY <1>4, <1>6
<1>8. PICK p \in Seq(Ids), e \in Seq(Ids \cup {None}) : p = form.rows[l] /\ e = errors[l]
  BY ListKnown DEF TidyList
<1>9. TidyList(e, p, RowsIn(form.rows))
  BY <1>8, ListKnown
<1>10. PICK q, f : q = Append(p, id) /\ f = Append(e, None)
  OBVIOUS
<1>11. /\ q \in Seq(Ids) /\ Len(q) = Len(p) + 1
       /\ \A i \in DOMAIN p : i \in DOMAIN q /\ q[i] = p[i]
       /\ \A i \in DOMAIN q : i \in DOMAIN p \/ (i = Len(p) + 1 /\ q[i] = id)
  BY <1>10, Appended
<1>12. /\ f \in Seq(Ids \cup {None}) /\ Len(f) = Len(e) + 1
       /\ \A i \in DOMAIN e : i \in DOMAIN f /\ f[i] = e[i]
       /\ \A i \in DOMAIN f : i \in DOMAIN e \/ (i = Len(e) + 1 /\ f[i] = None)
  <2>1. PICK none \in Ids \cup {None} : none = None
    OBVIOUS
  <2>2. f = Append(e, none)
    BY <1>10, <2>1
  <2> QED
    BY <2>1, <2>2, Appended
<1>13. PICK all : all = RowsIn(form.rows) \cup {id}
  OBVIOUS
<1>14. \A k \in TwoLists : \A i \in DOMAIN errors[k] :
         errors[k][i] = None \/ errors[k][i] \in RowsIn(form.rows) \/ errors[k][i] \notin all
  <2>1. ASSUME NEW k \in TwoLists, NEW i \in DOMAIN errors[k] PROVE errors[k][i] # id
    <3>1. errors[k][i] \in Editor!Elements(errors[k])
      BY DEF Editor!Elements
    <3>2. errors[k][i] \in Editor!ShownIds
      BY <2>1, <3>1 DEF Editor!ShownIds, Editor!FormLists, TwoLists
    <3> QED
      BY <1>1, <1>7, <3>2
  <2> QED
    BY <1>13, <2>1
<1>15. TidyList(f, q, all)
  <2>1. \A i \in DOMAIN e : e[i] = None \/ e[i] = p[i] \/ e[i] \notin all
    BY <1>8, <1>9, <1>14 DEF TidyList
  <2>2. Len(e) = Len(p) /\ DOMAIN e = DOMAIN p
    BY <1>9, LenProperties DEF TidyList
  <2> QED
    BY <1>11, <1>12, <2>1, <2>2 DEF TidyList
<1>16. \A x \in Ids \ all : x \notin RowsIn(form.rows) /\ \A i \in DOMAIN q : q[i] # x
  <2>1. \A i \in DOMAIN p : p[i] \in RowsIn(form.rows)
    BY <1>8, ElementOf DEF RowsIn
  <2> QED
    BY <1>11, <1>13, <2>1
<1>17. form' = [form EXCEPT !.rows[l] = q] /\ errors' = [errors EXCEPT ![l] = f]
  BY <1>3, <1>7, <1>8, <1>10
<1> QED
  BY <1>2, <1>11, <1>14, <1>15, <1>16, <1>17, EditorList

\* Rows are taken out or change places, each with its error.
LEMMA EditorShuffles ==
  ASSUME EditorInv, Editor!Editable, UNCHANGED Editor!formOnly, NEW l \in TwoLists,
         NEW q \in Seq(Ids), NEW e \in Seq(Ids \cup {None}), Len(e) = Len(q),
         form' = [form EXCEPT !.rows[l] = q], errors' = [errors EXCEPT ![l] = e],
         \A i \in DOMAIN q : \E j \in DOMAIN form.rows[l] :
           j \in DOMAIN errors[l] /\ q[i] = form.rows[l][j] /\ e[i] = errors[l][j]
  PROVE  EditorInv'
<1>1. form.rows[l] \in Seq(Ids) /\ TidyList(errors[l], form.rows[l], RowsIn(form.rows))
  BY ListKnown
<1>2. DOMAIN e = DOMAIN q
  BY LenProperties
<1>3. PICK all : all = RowsIn(form.rows)
  OBVIOUS
<1>4. TidyList(e, q, all)
  BY <1>1, <1>2, <1>3 DEF TidyList
<1>5. \A x \in Ids \ all : x \notin RowsIn(form.rows) /\ \A i \in DOMAIN q : q[i] # x
  BY <1>3 DEF RowsIn
<1>6. \A k \in TwoLists : \A i \in DOMAIN errors[k] :
           errors[k][i] = None \/ errors[k][i] \in RowsIn(form.rows) \/ errors[k][i] \notin all
  BY <1>3
<1> QED
  BY <1>4, <1>5, <1>6, EditorList

LEMMA EditorRemoves == ASSUME EditorInv, Editor!RemoveRow PROVE EditorInv'
<1>1. Editor!Editable /\ UNCHANGED Editor!formOnly
  BY DEF Editor!RemoveRow
<1>2. PICK l \in TwoLists : \E i \in DOMAIN form.rows[l] :
        /\ form' = [form EXCEPT !.rows[l] = Editor!Without(form.rows[l], i)]
        /\ errors' = [errors EXCEPT ![l] = Editor!Without(errors[l], i)]
  BY DEF Editor!RemoveRow, Editor!FormLists, TwoLists
<1>3. PICK i \in DOMAIN form.rows[l] :
        /\ form' = [form EXCEPT !.rows[l] = Editor!Without(form.rows[l], i)]
        /\ errors' = [errors EXCEPT ![l] = Editor!Without(errors[l], i)]
  BY <1>2
<1>4. PICK p \in Seq(Ids), e \in Seq(Ids \cup {None}) : p = form.rows[l] /\ e = errors[l]
  BY ListKnown DEF TidyList
<1>5. Len(e) = Len(p)
  BY <1>4, ListKnown DEF TidyList
<1>6. PICK q, f : q = Without(p, i) /\ f = Without(e, i)
  OBVIOUS
<1>7. Editor!Without(form.rows[l], i) = q /\ Editor!Without(errors[l], i) = f
  BY <1>4, <1>6 DEF Editor!Without, Without
<1>8. PICK n \in Nat : n = Len(p) /\ n = Len(e) /\ DOMAIN p = 1 .. n /\ DOMAIN e = 1 .. n
  BY <1>5, LenProperties
<1>9. i \in DOMAIN p /\ i \in DOMAIN e
  BY <1>4, <1>8
<1>10. /\ q \in Seq(Ids) /\ Len(q) = n - 1 /\ DOMAIN q = 1 .. n - 1
       /\ \A j \in 1 .. n - 1 : q[j] = IF j < i THEN p[j] ELSE p[j + 1]
  BY <1>6, <1>8, <1>9, Removed
<1>11. /\ f \in Seq(Ids \cup {None}) /\ Len(f) = n - 1
       /\ \A j \in 1 .. n - 1 : f[j] = IF j < i THEN e[j] ELSE e[j + 1]
  BY <1>6, <1>8, <1>9, Removed
<1>12. \A j \in DOMAIN q : \E k \in DOMAIN p : k \in DOMAIN e /\ q[j] = p[k] /\ f[j] = e[k]
  <2>1. ASSUME NEW j \in DOMAIN q
        PROVE \E k \in DOMAIN p : k \in DOMAIN e /\ q[j] = p[k] /\ f[j] = e[k]
    <3>1. j \in 1 .. n - 1 /\ j \in 1 .. n /\ j + 1 \in 1 .. n
      BY <1>8, <1>10
    <3>2. CASE j < i
      BY <1>8, <1>10, <1>11, <3>1, <3>2
    <3>3. CASE ~(j < i)
      BY <1>8, <1>10, <1>11, <3>1, <3>3
    <3> QED
      BY <3>2, <3>3
  <2> QED
    BY <2>1
<1>13. form' = [form EXCEPT !.rows[l] = q] /\ errors' = [errors EXCEPT ![l] = f]
  BY <1>3, <1>7
<1>14. \A j \in DOMAIN q : \E k \in DOMAIN form.rows[l] :
         k \in DOMAIN errors[l] /\ q[j] = form.rows[l][k] /\ f[j] = errors[l][k]
  BY <1>4, <1>12
<1>15. Len(f) = Len(q)
  BY <1>10, <1>11
<1>16. q \in Seq(Ids) /\ f \in Seq(Ids \cup {None})
  BY <1>10, <1>11
<1> QED
  BY <1>1, <1>13, <1>14, <1>15, <1>16, EditorShuffles

LEMMA SwappedAre ==
  ASSUME NEW S, NEW s \in Seq(S), NEW i \in 1 .. Len(s) - 1, NEW t, t = Editor!Swapped(s, i)
  PROVE  /\ t \in Seq(S) /\ Len(t) = Len(s) /\ DOMAIN t = DOMAIN s
         /\ \A j \in DOMAIN s :
              t[j] = IF j = i + 1 THEN s[i] ELSE IF j = i THEN s[i + 1] ELSE s[j]
<1>1. PICK n \in Nat : n = Len(s) /\ DOMAIN s = 1 .. n
  BY LenProperties
<1>2. i \in 1 .. n /\ i + 1 \in 1 .. n
  BY <1>1
<1>3. s[i] \in S /\ s[i + 1] \in S /\ s \in [1 .. n -> S]
  BY <1>1, <1>2, ElementOf, LenProperties
<1>4. t = [s EXCEPT ![i] = s[i + 1], ![i + 1] = s[i]]
  BY DEF Editor!Swapped
<1>5. /\ t \in [1 .. n -> S]
      /\ \A j \in 1 .. n : t[j] = IF j = i + 1 THEN s[i] ELSE IF j = i THEN s[i + 1] ELSE s[j]
  BY <1>2, <1>3, <1>4
<1>6. t \in Seq(S) /\ Len(t) = n /\ DOMAIN t = 1 .. n
  BY <1>5, ListOf
<1> QED
  BY <1>1, <1>5, <1>6

LEMMA EditorMoves == ASSUME EditorInv, Editor!MoveRow PROVE EditorInv'
<1>1. Editor!Editable /\ UNCHANGED Editor!formOnly
  BY DEF Editor!MoveRow
<1>2. PICK l \in TwoLists : \E i \in 1 .. Len(form.rows[l]) - 1 :
        /\ form' = [form EXCEPT !.rows[l] = Editor!Swapped(form.rows[l], i)]
        /\ errors' = [errors EXCEPT ![l] = Editor!Swapped(errors[l], i)]
  BY DEF Editor!MoveRow, Editor!FormLists, TwoLists
<1>3. PICK i \in 1 .. Len(form.rows[l]) - 1 :
        /\ form' = [form EXCEPT !.rows[l] = Editor!Swapped(form.rows[l], i)]
        /\ errors' = [errors EXCEPT ![l] = Editor!Swapped(errors[l], i)]
  BY <1>2
<1>4. PICK p \in Seq(Ids), e \in Seq(Ids \cup {None}) : p = form.rows[l] /\ e = errors[l]
  BY ListKnown DEF TidyList
<1>5. Len(e) = Len(p)
  BY <1>4, ListKnown DEF TidyList
<1>6. PICK q, f : q = Editor!Swapped(p, i) /\ f = Editor!Swapped(e, i)
  OBVIOUS
<1>7. i \in 1 .. Len(p) - 1 /\ i \in 1 .. Len(e) - 1
  BY <1>4, <1>5
<1>8. PICK n \in Nat : n = Len(p) /\ n = Len(e) /\ DOMAIN p = 1 .. n /\ DOMAIN e = 1 .. n
  BY <1>5, LenProperties
<1>9. /\ q \in Seq(Ids) /\ Len(q) = n /\ DOMAIN q = 1 .. n
      /\ \A j \in 1 .. n : q[j] = IF j = i + 1 THEN p[i] ELSE IF j = i THEN p[i + 1] ELSE p[j]
  BY <1>6, <1>7, <1>8, SwappedAre
<1>10. /\ f \in Seq(Ids \cup {None}) /\ Len(f) = n
       /\ \A j \in 1 .. n : f[j] = IF j = i + 1 THEN e[i] ELSE IF j = i THEN e[i + 1] ELSE e[j]
  BY <1>6, <1>7, <1>8, SwappedAre
<1>11. i \in 1 .. n /\ i + 1 \in 1 .. n
  BY <1>7, <1>8
<1>12. \A j \in DOMAIN q : \E k \in DOMAIN p : k \in DOMAIN e /\ q[j] = p[k] /\ f[j] = e[k]
  BY <1>8, <1>9, <1>10, <1>11
<1>13. form' = [form EXCEPT !.rows[l] = q] /\ errors' = [errors EXCEPT ![l] = f]
  BY <1>3, <1>4, <1>6
<1>14. \A j \in DOMAIN q : \E k \in DOMAIN form.rows[l] :
         k \in DOMAIN errors[l] /\ q[j] = form.rows[l][k] /\ f[j] = errors[l][k]
  BY <1>4, <1>12
<1>15. Len(f) = Len(q)
  BY <1>9, <1>10
<1> QED
  BY <1>1, <1>13, <1>14, <1>15, <1>9, <1>10, EditorShuffles

LEMMA EditorValidates == ASSUME EditorInv, Editor!ValidateForm PROVE EditorInv'
<1>1. /\ Editor!Editable /\ UNCHANGED Editor!formOnly /\ form' = form
  BY DEF Editor!ValidateForm
<1>2. PICK bad :
        errors' = [l \in TwoLists |-> [i \in DOMAIN form.rows[l] |->
                       IF form.rows[l][i] \in bad THEN form.rows[l][i] ELSE None]]
  BY DEF Editor!ValidateForm, Editor!FormLists, TwoLists
<1>3. ASSUME NEW l \in TwoLists
      PROVE  /\ errors'[l] \in Seq(Ids \cup {None})
             /\ TidyList(errors'[l], form.rows[l], RowsIn(form.rows))
  <2>1. PICK q \in Seq(Ids) : q = form.rows[l]
    BY ListKnown
  <2>2. PICK n \in Nat : n = Len(q) /\ DOMAIN q = 1 .. n
    BY LenProperties
  <2>3. PICK e : e = [i \in 1 .. n |-> IF q[i] \in bad THEN q[i] ELSE None]
    OBVIOUS
  <2>4. errors'[l] = e
    BY <1>2, <2>1, <2>2, <2>3
  <2>5. \A i \in 1 .. n : q[i] \in Ids
    BY <2>2, ElementOf
  <2>6. e \in [1 .. n -> Ids \cup {None}]
    BY <2>3, <2>5
  <2>7. e \in Seq(Ids \cup {None}) /\ Len(e) = n /\ DOMAIN e = 1 .. n
    BY <2>6, ListOf
  <2> QED
    BY <2>1, <2>2, <2>3, <2>4, <2>7 DEF TidyList
<1>4. ErrorTypes' /\ Tidy(errors', form.rows)
  BY <1>2, <1>3 DEF ErrorTypes, Tidy
<1>5. form' \in Forms /\ form'.of = form.of
  BY <1>1 DEF EditorInv, EditorTypes
<1> QED
  BY <1>1, <1>4, <1>5, EditorEdits

LEMMA EditorSubmits == ASSUME EditorInv, Editor!Submit PROVE EditorInv'
<1>1. /\ EditorTypes /\ ErrorTypes /\ NothingLeft /\ OwnValues /\ SavesBelong /\ OneSave /\ LoadToCome
  BY DEF EditorInv
<1>2. /\ errors' = Editor!NoErrors(form.rows) /\ isSaving' = TRUE
      /\ saves' = saves \cup {[id |-> editing, of |-> form.of, rows |-> form.rows,
                               live |-> TRUE, mistaken |-> mistaken, early |-> Editor!Early]}
      /\ UNCHANGED <<editing, form, isLoading, notFound, details, mistaken>>
  BY DEF Editor!Submit
<1>3. editing # None /\ isLoading = FALSE /\ isSaving = FALSE
  BY <1>1 DEF Editor!Submit, Editor!Editable, EditorTypes
<1> DEFINE early == Editor!Early
<1>5. /\ form.of \in RouteValues /\ form.rows \in FormRows /\ editing \in RouteValues
      /\ mistaken \in BOOLEAN /\ early \in BOOLEAN
  BY <1>1 DEF EditorTypes, Forms, RouteValues, Editor!Early
<1>13. (early = TRUE) <=> Editor!Early
  BY <1>5
<1> HIDE DEF early
<1>4. PICK s : s = [id |-> editing, of |-> form.of, rows |-> form.rows, live |-> TRUE,
                    mistaken |-> mistaken, early |-> early]
  OBVIOUS
<1>6. /\ s \in SentForms /\ s.rows = form.rows /\ s.of = form.of /\ s.id = editing
      /\ s.mistaken = mistaken /\ s.live = TRUE /\ s.early = early
  BY <1>4, <1>5 DEF SentForms
<1>7. saves' = saves \cup {s}
  BY <1>2, <1>4 DEF early
<1>8. EditorTypes'
  BY <1>1, <1>2, <1>6, <1>7 DEF EditorTypes
<1>9. ErrorTypes' /\ Tidy(errors', form'.rows)
  BY <1>2, <1>5, NoErrorsAre DEF ErrorTypes
<1>10. NothingLeft' /\ OwnValues' /\ LoadToCome'
  BY <1>1, <1>2, <1>3 DEF NothingLeft, OwnValues, LoadToCome, Editor!Early
<1>11. SavesBelong'
  BY <1>1, <1>3, <1>6, <1>7, <1>13 DEF SavesBelong, OwnValues
<1>12. OneSave'
  <2>1. \A t \in saves : t.live # TRUE
    BY <1>1, <1>3 DEF OneSave
  <2> QED
    BY <1>2, <1>6, <1>7, <2>1 DEF OneSave, Apart
<1> QED
  BY <1>8, <1>9, <1>10, <1>11, <1>12 DEF EditorInv

\* The editor goes; its saves go on.
LEMMA EditorCloses ==
  ASSUME EditorInv, NEW ss, ss \subseteq saves, Editor!Closed(ss)
  PROVE  EditorInv'
<1>1. EditorTypes /\ SavesBelong
  BY DEF EditorInv
<1>2. PICK rs : rs = Editor!NoRows
  OBVIOUS
<1>3. <<>> \in Seq(Ids) /\ <<>> \in Seq(Ids \cup {None}) /\ <<>> \in Seq(DetailLoads) /\ Len(<<>>) = 0
  BY EmptySeq
<1>4. /\ rs \in FormRows /\ rs \in [TwoLists -> Seq(Ids \cup {None})]
      /\ \A l \in TwoLists : rs[l] = <<>>
  BY <1>2, <1>3 DEF Editor!NoRows, Editor!FormLists, TwoLists, FormRows
<1>5. /\ editing' = None /\ form' = [of |-> "blank", rows |-> rs] /\ errors' = rs
      /\ isLoading' = FALSE /\ isSaving' = FALSE /\ notFound' = FALSE
      /\ details' = <<>> /\ mistaken' = FALSE
      /\ saves' = {[s EXCEPT !.live = FALSE, !.rows = rs] : s \in ss}
  BY <1>2 DEF Editor!Closed, Editor!NoForm, Editor!Blank
<1>6. form' \in Forms /\ form'.of = "blank" /\ form'.rows = rs
  BY <1>4, <1>5 DEF Forms, RouteValues
<1>7. ASSUME NEW t \in saves'
      PROVE  /\ t \in SentForms /\ t.live = FALSE
             /\ t.mistaken = FALSE => t.of = Wanted(t.id) \/ (t.early = TRUE /\ t.of = "blank")
  <2>1. PICK s \in saves : t = [s EXCEPT !.live = FALSE, !.rows = rs]
    BY <1>5
  <2>2. /\ s \in SentForms
        /\ s.mistaken = FALSE => s.of = Wanted(s.id) \/ (s.early = TRUE /\ s.of = "blank")
    BY <1>1 DEF EditorTypes, SavesBelong
  <2>3. /\ t \in SentForms /\ t.live = FALSE /\ t.mistaken = s.mistaken /\ t.of = s.of
        /\ t.id = s.id /\ t.early = s.early
    BY <1>4, <2>1, <2>2 DEF SentForms
  <2> QED
    BY <2>2, <2>3
<1>8. EditorTypes' /\ ErrorTypes'
  BY <1>3, <1>4, <1>5, <1>6, <1>7 DEF EditorTypes, ErrorTypes
<1>9. NothingLeft' /\ OwnValues' /\ LoadToCome'
  BY <1>5, <1>6 DEF NothingLeft, OwnValues, LoadToCome
<1>10. SavesBelong' /\ OneSave'
  BY <1>7 DEF SavesBelong, OneSave
<1>11. Tidy(errors', form'.rows)
  <2>1. ASSUME NEW l \in TwoLists PROVE TidyList(rs[l], rs[l], RowsIn(rs))
    <3>1. rs[l] = <<>> /\ DOMAIN <<>> = {}
      BY <1>4, EmptySeq
    <3>2. TidyList(<<>>, <<>>, RowsIn(rs))
      BY <1>3, <3>1 DEF TidyList
    <3> QED
      BY <3>1, <3>2
  <2> QED
    BY <1>5, <1>6, <2>1 DEF Tidy
<1> QED
  BY <1>8, <1>9, <1>10, <1>11 DEF EditorInv

\* An error of a row is shown where the row was when the form was sent.
LEMMA EditorSaveFails == ASSUME EditorInv, Editor!SaveFails PROVE EditorInv'
<1>1. /\ EditorTypes /\ ErrorTypes /\ NothingLeft /\ OwnValues /\ SavesBelong /\ OneSave /\ LoadToCome
      /\ Tidy(errors, form.rows)
  BY DEF EditorInv
<1>2. PICK s \in saves :
       /\ saves' = saves \ {s}
       /\ isSaving' = (isSaving /\ ~s.live)
       /\ \/ UNCHANGED errors
          \/ /\ s.live
             /\ \E l \in TwoLists : \E i \in DOMAIN s.rows[l] :
                  errors' = IF i \in DOMAIN form.rows[l]
                            THEN [errors EXCEPT ![l][i] = s.rows[l][i]] ELSE errors
  BY DEF Editor!SaveFails, Editor!FormLists, TwoLists
<1>3. UNCHANGED <<editing, form, isLoading, notFound, details, mistaken>>
  BY DEF Editor!SaveFails
<1>4. s \in SentForms /\ s.live \in BOOLEAN /\ s.rows \in FormRows
  BY <1>1 DEF EditorTypes, SentForms
<1>5. isSaving' \in BOOLEAN /\ (s.live = FALSE => isSaving' = isSaving)
      /\ (isSaving = FALSE => isSaving' = FALSE)
  BY <1>1, <1>2, <1>4 DEF EditorTypes
<1>6. EditorTypes'
  BY <1>1, <1>2, <1>3, <1>5 DEF EditorTypes
<1>7. NothingLeft' /\ OwnValues' /\ LoadToCome' /\ SavesBelong'
  BY <1>1, <1>2, <1>3, <1>5 DEF NothingLeft, OwnValues, LoadToCome, SavesBelong, Editor!Early
<1>8. OneSave'
  <2>1. CASE s.live = TRUE
    <3>1. \A t \in saves' : t.live # TRUE
      BY <1>1, <1>2, <2>1 DEF OneSave
    <3> QED
      BY <3>1 DEF OneSave
  <2>2. CASE s.live = FALSE
    BY <1>1, <1>2, <1>3, <1>5, <2>2 DEF OneSave
  <2> QED
    BY <1>4, <2>1, <2>2
<1>9. ErrorTypes' /\ Tidy(errors', form'.rows)
  <2>1. CASE errors' = errors
    BY <1>1, <1>3, <2>1 DEF ErrorTypes
  <2>2. CASE /\ s.live
             /\ \E l \in TwoLists : \E i \in DOMAIN s.rows[l] :
                  i \in DOMAIN form.rows[l] /\ errors' = [errors EXCEPT ![l][i] = s.rows[l][i]]
    <3>1. PICK l \in TwoLists : \E i \in DOMAIN s.rows[l] :
            i \in DOMAIN form.rows[l] /\ errors' = [errors EXCEPT ![l][i] = s.rows[l][i]]
      BY <2>2
    <3>2. PICK i \in DOMAIN s.rows[l] :
            i \in DOMAIN form.rows[l] /\ errors' = [errors EXCEPT ![l][i] = s.rows[l][i]]
      BY <3>1
    <3>3. PICK p \in Seq(Ids), e \in Seq(Ids \cup {None}) : p = form.rows[l] /\ e = errors[l]
      BY ListKnown DEF TidyList
    <3>4. TidyList(e, p, RowsIn(form.rows))
      BY <3>3, ListKnown
    <3>5. PICK n \in Nat : n = Len(e) /\ n = Len(p) /\ DOMAIN e = 1 .. n /\ DOMAIN p = 1 .. n
      BY <3>4, LenProperties DEF TidyList
    <3>6. PICK x : x = s.rows[l][i]
      OBVIOUS
    <3>7. x \in RowsIn(s.rows) /\ x \in Ids
      <4>1. PICK r \in Seq(Ids) : r = s.rows[l]
        BY <1>4 DEF FormRows
      <4>2. x \in Ids
        BY <3>2, <3>6, <4>1, ElementOf
      <4> QED
        BY <3>2, <3>6, <4>2 DEF RowsIn
    <3>8. x = p[i] \/ x \notin RowsIn(form.rows)
      <4>1. Apart(s.rows, form.rows)
        BY <1>1, <1>4, <2>2 DEF OneSave
      <4> QED
        BY <3>3, <3>6, <3>7, <4>1 DEF Apart
    <3>9. PICK f : f = [e EXCEPT ![i] = x]
      OBVIOUS
    <3>10. e \in [1 .. n -> Ids \cup {None}]
      BY <3>5, LenProperties
    <3>11. f \in [1 .. n -> Ids \cup {None}]
      BY <3>7, <3>9, <3>10
    <3>12. f \in Seq(Ids \cup {None}) /\ Len(f) = n /\ DOMAIN f = 1 .. n
      BY <3>11, ListOf
    <3>13. \A j \in 1 .. n : f[j] = e[j] \/ (j = i /\ f[j] = x)
      BY <3>9, <3>10
    <3>14. TidyList(f, p, RowsIn(form.rows))
      BY <3>4, <3>5, <3>8, <3>12, <3>13 DEF TidyList
    <3>15. /\ errors' \in [TwoLists -> Seq(Ids \cup {None})] /\ errors'[l] = f
           /\ \A k \in TwoLists : k # l => errors'[k] = errors[k]
      <4>1. errors' = [errors EXCEPT ![l] = f]
        BY <3>2, <3>3, <3>6, <3>9
      <4> QED
        BY <1>1, <3>12, <4>1 DEF ErrorTypes
    <3>16. ASSUME NEW k \in TwoLists PROVE TidyList(errors'[k], form'.rows[k], RowsIn(form'.rows))
      <4>1. CASE k = l
        BY <1>3, <3>3, <3>14, <3>15, <4>1
      <4>2. CASE k # l
        BY <1>1, <1>3, <3>15, <4>2 DEF Tidy
      <4> QED
        BY <4>1, <4>2
    <3> QED
      BY <3>15, <3>16 DEF ErrorTypes, Tidy
  <2> QED
    BY <1>2, <2>1, <2>2
<1> QED
  BY <1>6, <1>7, <1>8, <1>9 DEF EditorInv

LEMMA EditorStarts == Editor!Init => EditorInv
<1> SUFFICES ASSUME Editor!Init PROVE EditorInv
  OBVIOUS
<1>1. PICK rs : rs = Editor!NoRows
  OBVIOUS
<1>2. <<>> \in Seq(Ids) /\ <<>> \in Seq(Ids \cup {None}) /\ <<>> \in Seq(DetailLoads) /\ Len(<<>>) = 0
  BY EmptySeq
<1>3. /\ rs \in FormRows /\ rs \in [TwoLists -> Seq(Ids \cup {None})]
      /\ \A l \in TwoLists : rs[l] = <<>>
  BY <1>1, <1>2 DEF Editor!NoRows, Editor!FormLists, TwoLists, FormRows
<1>4. /\ editing = None /\ form = [of |-> "blank", rows |-> rs] /\ errors = rs
      /\ isLoading = FALSE /\ isSaving = FALSE /\ notFound = FALSE
      /\ details = <<>> /\ mistaken = FALSE /\ saves = {}
  BY <1>1 DEF Editor!Init, Editor!NoForm, Editor!Blank
<1>5. form \in Forms /\ form.of = "blank" /\ form.rows = rs
  BY <1>3, <1>4 DEF Forms, RouteValues
<1>6. EditorTypes /\ ErrorTypes
  BY <1>2, <1>3, <1>4, <1>5 DEF EditorTypes, ErrorTypes
<1>7. NothingLeft /\ OwnValues /\ LoadToCome /\ SavesBelong /\ OneSave
  BY <1>4, <1>5 DEF NothingLeft, OwnValues, LoadToCome, SavesBelong, OneSave
<1>8. Tidy(errors, form.rows)
  <2>1. ASSUME NEW l \in TwoLists PROVE TidyList(rs[l], rs[l], RowsIn(rs))
    <3>1. rs[l] = <<>> /\ DOMAIN <<>> = {}
      BY <1>3, EmptySeq
    <3>2. TidyList(<<>>, <<>>, RowsIn(rs))
      BY <1>2, <3>1 DEF TidyList
    <3> QED
      BY <3>1, <3>2
  <2> QED
    BY <1>4, <1>5, <2>1 DEF Tidy
<1> QED
  BY <1>6, <1>7, <1>8 DEF EditorInv

LEMMA EditorSteps == EditorInv /\ Editor!Next => EditorInv'
<1> SUFFICES ASSUME EditorInv, Editor!Next PROVE EditorInv'
  OBVIOUS
<1>1. CASE Editor!SaveDone
  <2>1. PICK s \in saves : Editor!Closed(saves \ {s})
    BY <1>1 DEF Editor!SaveDone
  <2>2. PICK ss : ss = saves \ {s}
    OBVIOUS
  <2>3. Editor!Closed(ss) /\ ss \subseteq saves
    BY <2>1, <2>2
  <2> QED
    BY <2>3, EditorCloses
<1>2. CASE Editor!Leave
  <2>1. PICK ss : ss = saves
    OBVIOUS
  <2>2. Editor!Closed(ss) /\ ss \subseteq saves
    BY <1>2, <2>1 DEF Editor!Leave
  <2> QED
    BY <2>2, EditorCloses
<1> QED
  BY <1>1, <1>2, EditorOpens, EditorLoadsFolders, EditorChangesRoute, EditorPopulates, EditorLoadFails,
     EditorAdds, EditorRemoves, EditorMoves, EditorValidates, EditorSubmits, EditorSaveFails
  DEF Editor!Next

LEMMA EditorStays == EditorInv /\ UNCHANGED editorState => EditorInv'
BY DEF EditorInv, editorState, EditorTypes, ErrorTypes, NothingLeft, OwnValues, SavesBelong, OneSave,
       LoadToCome, Editor!Early

LEMMA EditorHolds == EditorInv => Editor!FormBelongs /\ Editor!LoadingFormEnds
<1> SUFFICES ASSUME EditorInv PROVE Editor!FormBelongs /\ Editor!LoadingFormEnds
  OBVIOUS
<1>1. EditorTypes /\ SavesBelong /\ LoadToCome
  BY DEF EditorInv
<1>2. Editor!LoadingFormEnds
  BY <1>1 DEF Editor!LoadingFormEnds, EditorTypes, LoadToCome
<1>3. ASSUME NEW s \in saves, ~s.mistaken
      PROVE  \/ s.of = IF s.id = New THEN Editor!Blank ELSE s.id
             \/ s.early /\ s.of = Editor!Blank
  <2>1. s.mistaken = FALSE
    BY <1>1, <1>3 DEF EditorTypes, SentForms
  <2> QED
    BY <1>1, <2>1 DEF SavesBelong, Wanted, Editor!Blank
<1>4. ASSUME NEW l \in TwoLists
      PROVE  /\ Len(errors[l]) = Len(form.rows[l])
             /\ \A i \in DOMAIN errors[l] :
                  errors[l][i] \in ((1 .. MaxIds) \ Editor!RowsOf(form)) \cup {None, form.rows[l][i]}
  <2>1. PICK p \in Seq(Ids), e \in Seq(Ids \cup {None}) : p = form.rows[l] /\ e = errors[l]
    BY ListKnown DEF TidyList
  <2>2. TidyList(e, p, RowsIn(form.rows))
    BY <2>1, ListKnown
  <2>3. Editor!RowsOf(form) \subseteq RowsIn(form.rows)
    <3>1. ASSUME NEW x \in Editor!RowsOf(form) PROVE x \in RowsIn(form.rows)
      <4>1. PICK k \in TwoLists : x \in Editor!Elements(form.rows[k])
        BY <3>1 DEF Editor!RowsOf, Editor!FormLists, TwoLists
      <4>2. PICK i \in DOMAIN form.rows[k] : form.rows[k][i] = x
        BY <4>1 DEF Editor!Elements
      <4>3. PICK r \in Seq(Ids) : r = form.rows[k]
        BY ListKnown
      <4>4. x \in Ids
        BY <4>2, <4>3, ElementOf
      <4> QED
        BY <4>2, <4>4 DEF RowsIn
    <3> QED
      BY <3>1
  <2>4. \A i \in DOMAIN e : e[i] \in Ids \cup {None}
    BY ElementOf
  <2>5. \A i \in DOMAIN e : e[i] \in (Ids \ Editor!RowsOf(form)) \cup {None, p[i]}
    BY <2>2, <2>3, <2>4 DEF TidyList
  <2> QED
    BY <2>1, <2>2, <2>5 DEF TidyList, Ids
<1>5. Editor!FormBelongs
  BY <1>3, <1>4 DEF Editor!FormBelongs, Editor!FormLists, TwoLists
<1> QED
  BY <1>2, <1>5

-----------------------------------------------------------------------------
(* The view that is mounted                                                *)

ScreensInv ==
  /\ screen = "admin" => AdminInv
  /\ screen = "mailbox" => MailboxInv
  /\ screen = "message" => MessageInv
  /\ screen = "editor" => EditorInv
  /\ screen = "cloudflare" => CloudflareInv
  /\ screen = "routing" => RoutingInv
  /\ screen = "dns" => DnsInv

LEMMA ScreensStart == Init => ScreensInv
<1> SUFFICES ASSUME Init PROVE ScreensInv
  OBVIOUS
<1>1. screen = "admin" => AdminInv
  <2> SUFFICES ASSUME screen = "admin" PROVE Admin!Init
    BY AdminStarts
  <2> QED
    BY DEF Init
<1>2. screen = "mailbox" => MailboxInv
  <2> SUFFICES ASSUME screen = "mailbox" PROVE Mailbox!Init
    BY MailboxStarts
  <2> QED
    BY DEF Init
<1>3. screen = "message" => MessageInv
  <2> SUFFICES ASSUME screen = "message" PROVE Message!Init
    BY MessageStarts
  <2> QED
    BY DEF Init
<1>4. screen = "editor" => EditorInv
  <2> SUFFICES ASSUME screen = "editor" PROVE Editor!Init
    BY EditorStarts
  <2> QED
    BY DEF Init
<1>5. screen = "cloudflare" => CloudflareInv
  <2> SUFFICES ASSUME screen = "cloudflare" PROVE Cloudflare!Init
    BY CloudflareStarts
  <2> QED
    BY DEF Init
<1>6. screen = "routing" => RoutingInv
  <2> SUFFICES ASSUME screen = "routing" PROVE Routing!Init
    BY RoutingStarts
  <2> QED
    BY DEF Init
<1>7. screen = "dns" => DnsInv
  <2> SUFFICES ASSUME screen = "dns" PROVE Dns!Init
    BY DnsStarts
  <2> QED
    BY DEF Init
<1> QED
  BY <1>1, <1>2, <1>3, <1>4, <1>5, <1>6, <1>7 DEF ScreensInv

\* A step is one of the view that is mounted, which stays.
LEMMA ScreensSteps == ScreensInv /\ [Next]_vars => ScreensInv'
<1> SUFFICES ASSUME ScreensInv, [Next]_vars PROVE ScreensInv'
  OBVIOUS
<1>1. screen' = screen
  BY DEF Next, vars
<1>2. ASSUME screen = "admin" PROVE AdminInv'
  <2>1. AdminInv
    BY <1>2 DEF ScreensInv
  <2>2. CASE Next
    <3>1. Admin!Next
      BY <1>2, <2>2 DEF Next
    <3> QED
      BY <2>1, <3>1, AdminSteps
  <2>3. CASE UNCHANGED vars
    <3>1. UNCHANGED adminState
      BY <2>3 DEF vars
    <3> QED
      BY <2>1, <3>1, AdminStays
  <2> QED
    BY <2>2, <2>3
<1>3. ASSUME screen = "mailbox" PROVE MailboxInv'
  <2>1. MailboxInv
    BY <1>3 DEF ScreensInv
  <2>2. CASE Next
    <3>1. Mailbox!Next
      BY <1>3, <2>2 DEF Next
    <3> QED
      BY <2>1, <3>1, MailboxSteps
  <2>3. CASE UNCHANGED vars
    <3>1. UNCHANGED mailboxState
      BY <2>3 DEF vars
    <3> QED
      BY <2>1, <3>1, MailboxStays
  <2> QED
    BY <2>2, <2>3
<1>4. ASSUME screen = "message" PROVE MessageInv'
  <2>1. MessageInv
    BY <1>4 DEF ScreensInv
  <2>2. CASE Next
    <3>1. Message!Next
      BY <1>4, <2>2 DEF Next
    <3> QED
      BY <2>1, <3>1, MessageSteps
  <2>3. CASE UNCHANGED vars
    <3>1. UNCHANGED messageState
      BY <2>3 DEF vars
    <3> QED
      BY <2>1, <3>1, MessageStays
  <2> QED
    BY <2>2, <2>3
<1>5. ASSUME screen = "editor" PROVE EditorInv'
  <2>1. EditorInv
    BY <1>5 DEF ScreensInv
  <2>2. CASE Next
    <3>1. Editor!Next
      BY <1>5, <2>2 DEF Next
    <3> QED
      BY <2>1, <3>1, EditorSteps
  <2>3. CASE UNCHANGED vars
    <3>1. UNCHANGED editorState
      BY <2>3 DEF vars
    <3> QED
      BY <2>1, <3>1, EditorStays
  <2> QED
    BY <2>2, <2>3
<1>6. ASSUME screen = "cloudflare" PROVE CloudflareInv'
  <2>1. CloudflareInv
    BY <1>6 DEF ScreensInv
  <2>2. CASE Next
    <3>1. Cloudflare!Next
      BY <1>6, <2>2 DEF Next
    <3> QED
      BY <2>1, <3>1, CloudflareSteps
  <2>3. CASE UNCHANGED vars
    <3>1. UNCHANGED cloudflareState
      BY <2>3 DEF vars
    <3> QED
      BY <2>1, <3>1, CloudflareStays
  <2> QED
    BY <2>2, <2>3
<1>7. ASSUME screen = "routing" PROVE RoutingInv'
  <2>1. RoutingInv
    BY <1>7 DEF ScreensInv
  <2>2. CASE Next
    <3>1. Routing!Next
      BY <1>7, <2>2 DEF Next
    <3> QED
      BY <2>1, <3>1, RoutingSteps
  <2>3. CASE UNCHANGED vars
    <3>1. UNCHANGED routingState
      BY <2>3 DEF vars
    <3> QED
      BY <2>1, <3>1, RoutingStays
  <2> QED
    BY <2>2, <2>3
<1>8. ASSUME screen = "dns" PROVE DnsInv'
  <2>1. DnsInv
    BY <1>8 DEF ScreensInv
  <2>2. CASE Next
    <3>1. Dns!Next
      BY <1>8, <2>2 DEF Next
    <3> QED
      BY <2>1, <3>1, DnsSteps
  <2>3. CASE UNCHANGED vars
    <3>1. UNCHANGED dnsState
      BY <2>3 DEF vars
    <3> QED
      BY <2>1, <3>1, DnsStays
  <2> QED
    BY <2>2, <2>3
<1> QED
  BY <1>1, <1>2, <1>3, <1>4, <1>5, <1>6, <1>7, <1>8 DEF ScreensInv

LEMMA ScreensHold == Spec => []ScreensInv
<1> QED
  BY ScreensStart, ScreensSteps, PTL DEF Spec

\* A user or mailbox that the list showed as active is deactivated only by a request
\* that was confirmed in the dialog of that very row (confirmDeactivate), whatever
\* dialogs were opened, left and opened again before.
THEOREM UnaskedNever == Spec => []DeactivationConfirmed
<1>1. ScreensInv => DeactivationConfirmed
  BY AdminHolds DEF ScreensInv, DeactivationConfirmed
<1> QED
  BY <1>1, ScreensHold, PTL

\* Of each kind of dialog at most one request is under way, however often the dialog is
\* left and opened again: isSubmitting outlives it, and where the list is loaded again
\* before the next submission, it is that load which ends it.
THEOREM FormsAreSentOnce == Spec => []SingleSubmission
<1>1. ScreensInv => SingleSubmission
  BY AdminHolds DEF ScreensInv, SingleSubmission
<1> QED
  BY <1>1, ScreensHold, PTL

\* With no list request under way and no error, a list is at least as new as the view's
\* own last change, unless the newest answer was not the last to arrive; and it shows the
\* page its cursors lead to, unless besides pages were turned over a load or a cursor's
\* row may be gone.
THEOREM ListsFollow == Spec => []ListIsCurrent
<1>1. ScreensInv => ListIsCurrent
  BY AdminHolds DEF ScreensInv, ListIsCurrent
<1> QED
  BY <1>1, ScreensHold, PTL

\* The users and teams in a manage dialog, which its buttons unlink, are those of the
\* row it was opened for; unless it was opened over requests of an earlier one.
THEOREM LinksAreThoseOfTheRow == Spec => []ManageListBelongs
<1>1. ScreensInv => ManageListBelongs
  BY AdminHolds DEF ScreensInv, ManageListBelongs
<1> QED
  BY <1>1, ScreensHold, PTL

\* A mailbox that is shown as syncing has a run that will stop it, so that runSync is not
\* refused for good; unless the local database threw in a delta run.
THEOREM SpinnersHaveARun == Spec => []SyncingMeansRunning
<1>1. ScreensInv => SyncingMeansRunning
  BY MailboxHolds DEF ScreensInv, SyncingMeansRunning
<1> QED
  BY <1>1, ScreensHold, PTL

\* The open mailbox is called synced only after a flush of this very mailbox, whichever
\* runs of mailboxes that were open before end meanwhile.
THEOREM SyncedIsEarned == Spec => []SyncedWasFlushed
<1>1. ScreensInv => SyncedWasFlushed
  BY MailboxHolds DEF ScreensInv, SyncedWasFlushed
<1> QED
  BY <1>1, ScreensHold, PTL

\* What the folder cache holds was loaded for the mailbox it names, however calls for
\* several mailboxes overlap.
THEOREM CachesDoNotMix == Spec => []CacheBelongs
<1>1. ScreensInv => CacheBelongs
  BY MailboxHolds DEF ScreensInv, CacheBelongs
<1> QED
  BY <1>1, ScreensHold, PTL

\* A folder cache that is ready counts every click made since its read began, unless the
\* click was committed during that very read.
THEOREM ReadyCachesAreFresh == Spec => []ReadyIsFresh
<1>1. ScreensInv => ReadyIsFresh
  BY MailboxHolds DEF ScreensInv, ReadyIsFresh
<1> QED
  BY <1>1, ScreensHold, PTL

\* A list with nothing under way shows the folder, page and search that are selected,
\* unless a later load ended before an earlier one; and once synced it is as new as the
\* local database, unless the mailbox was left and opened again over a runSync or over a
\* click that was being written.
THEOREM ListsSettle == Spec => []ListSettles
<1>1. ScreensInv => ListSettles
  BY MailboxHolds DEF ScreensInv, ListSettles
<1> QED
  BY <1>1, ScreensHold, PTL

\* Once the loads of the view have ended, the body on the screen is that of the message
\* in the route; unless a load ended after a newer one, or went on with the message of a
\* later route.
THEOREM BodiesBelong == Spec => []BodyBelongs
<1>1. ScreensInv => BodyBelongs
  BY MessageHolds DEF ScreensInv, BodyBelongs
<1> QED
  BY <1>1, ScreensHold, PTL

\* Once the loads have ended, remote images are let through only for the message whose
\* reader asked for them, however routes and loads overlapped.
THEOREM ImagesOnAsking == Spec => []RemoteOnAsking
<1>1. ScreensInv => RemoteOnAsking
  BY MessageHolds DEF ScreensInv, RemoteOnAsking
<1> QED
  BY <1>1, ScreensHold, PTL

\* What is saved as one ruleset holds its own values, and the blank form makes a new one;
\* unless a load failed or was answered after the route had changed, or the blank form
\* was sent under an existing ruleset while init was loading the folders
\* (RulesetEditorTab.vue:85).  And the error shown at a row of the form is not that of
\* another row of it, however rows were added, removed and moved and whichever save
\* reports it.
THEOREM FormsKeepTheirRuleset == Spec => []FormBelongs
<1>1. ScreensInv => FormBelongs
  BY EditorHolds DEF ScreensInv, FormBelongs
<1> QED
  BY <1>1, ScreensHold, PTL

\* With no check under way and no error, the view says of the connection to Cloudflare
\* what is true, in whatever order checks and dialogs were answered; unless the
\* connection has changed since.
THEOREM NewestEvidenceCounts == Spec => []NewestEvidence
<1>1. ScreensInv => NewestEvidence
  BY CloudflareHolds DEF ScreensInv, NewestEvidence
<1> QED
  BY <1>1, ScreensHold, PTL

\* The routing status shown for a domain is the one Cloudflare has, however refreshes
\* and switches overlap; unless a switch met another request for its domain.
THEOREM RoutingIsCloudflares == Spec => []RoutingShown
<1>1. ScreensInv => RoutingShown
  BY RoutingHolds DEF ScreensInv, RoutingShown
<1> QED
  BY <1>1, ScreensHold, PTL

\* A panel of DNS records is open as its button was last clicked, and what it shows as
\* loading, checking or pending has a lookup of its own revision that will end it, one
\* for each group.
THEOREM PanelsFollowTheirButtons == Spec => []PanelsAsAsked
<1>1. ScreensInv => PanelsAsAsked
  BY DnsHolds DEF ScreensInv, PanelsAsAsked
<1> QED
  BY <1>1, ScreensHold, PTL

\* Whatever a message, the ruleset editor, the Cloudflare connection or the routing of
\* a domain shows as loading, checking or under way has a request that has not been
\* overtaken and whose answer ends it; but for a message whose mailbox could not be
\* resolved, which nothing loads (MessageDetailView.vue:126).
THEOREM WaitingIsForSomething == Spec => []WaitingEnds
<1>1. ScreensInv => WaitingEnds
  BY MessageHolds, EditorHolds, CloudflareHolds, RoutingHolds DEF ScreensInv, WaitingEnds
<1> QED
  BY <1>1, ScreensHold, PTL
=============================================================================
