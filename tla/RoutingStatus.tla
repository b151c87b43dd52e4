---------------------------- MODULE RoutingStatus ----------------------------
(***************************************************************************)
(* Email Routing of the domains in the view: its status, fetched for one   *)
(* domain after the other whenever the list or the connection changes, and *)
(* the dialogs that switch it on and off.                                  *)
(*                                                                         *)
(* A request that fails is an error of its domain: the client for          *)
(* Cloudflare throws errors of its own, which onAuthReset never takes.     *)
(***************************************************************************)
EXTENDS Naturals, Sequences, FiniteSets, UnderWay

CONSTANTS
  Domains, None,
  MaxFetches,   \* bound: fetches under way
  MaxActs       \* bound: clicks, and changes of the list, the connection or a status

VARIABLES
  listed,           \* the domains in the list, in order
  canFetch,         \* canUseCloudflare
  states,           \* domain -> status and enabled, as far as they are known
  routingRevision,
  routingFetches,   \* fetches under way; rest: domains that its refresh goes on to
  switches,         \* requests that switch Email Routing on or off
  target,           \* the domain of each dialog: enable, disable
  switching,        \* the dialogs with enableSubmitting, disableSubmitting
  routed,           \* Cloudflare: domains that have Email Routing switched on
  acts,             \* number of clicks and changes so far
  tangled           \* ghost: domains of which two requests overlapped, one of them a
                    \* switch, or which were switched elsewhere

routingVars == <<listed, canFetch, states, routingRevision, routingFetches, switches, target,
                 switching, routed, acts, tangled>>
routingDialogs == <<target, switching>>

Dialogs == {"enable", "disable"}
Idle == [status |-> "idle", enabled |-> None]
Loading == [status |-> "loading", enabled |-> None]
Failed == [status |-> "error", enabled |-> None]
Ready(enabled) == [status |-> "ready", enabled |-> enabled]

Init ==
  /\ listed = <<>> /\ canFetch = FALSE
  /\ states = [d \in Domains |-> Idle]
  /\ routingRevision = 0 /\ routingFetches = <<>> /\ switches = <<>>
  /\ target = [k \in Dialogs |-> None] /\ switching = {}
  /\ routed \in SUBSET Domains
  /\ acts = 0 /\ tangled = {}

Act == acts < MaxActs /\ acts' = acts + 1

Live(f) == f.rev = routingRevision
Switched(d) == \E i \in DOMAIN switches : switches[i].of = d

-----------------------------------------------------------------------------
(* Fetching                                                                *)

\* A request meets the domain as it is or, later, as it has become.
RoutingFetch(d, rev, rest) == [of |-> d, rev |-> rev, rest |-> rest, met |-> {d \in routed}]

\* fetchOne begins, in place of a fetch that has ended.
FetchOne(fs, fetch, before) ==
  /\ Len(fs) < MaxFetches
  /\ routingFetches' = Append(fs, fetch)
  /\ states' = [before EXCEPT ![fetch.of] = Loading]
  /\ tangled' = IF \/ Switched(fetch.of)
                   \/ \E i \in DOMAIN fs : fs[i].of = fetch.of /\ fs[i].rev = fetch.rev
                THEN tangled \cup {fetch.of} ELSE tangled \ {fetch.of}

\* refresh: every status is forgotten, and the fetches under way are overtaken.
Refresh(ids) ==
  LET forgotten == [d \in Domains |-> Idle]
      rev == routingRevision + 1
  IN /\ routingRevision' = rev
     /\ IF ids # <<>>
        THEN FetchOne(routingFetches, RoutingFetch(Head(ids), rev, Tail(ids)), forgotten)
        ELSE states' = forgotten /\ UNCHANGED <<routingFetches, tangled>>

\* The list is loaded, again or for another page.
DomainsArrive ==
  /\ Act
  /\ listed' \in {<<>>} \cup Orders(Domains)
  /\ IF canFetch THEN Refresh(listed')
     ELSE UNCHANGED <<states, routingRevision, routingFetches, tangled>>
  /\ UNCHANGED <<canFetch, switches, routingDialogs, routed>>

ConnectionChecked ==
  /\ Act
  /\ canFetch' = ~canFetch
  /\ IF canFetch' THEN Refresh(listed)
     ELSE UNCHANGED <<states, routingRevision, routingFetches, tangled>>
  /\ UNCHANGED <<listed, switches, routingDialogs, routed>>

\* The fetch has ended with this status: its refresh goes on to the next domain.
Fetched(i, state) ==
  LET f == routingFetches[i]
      others == Without(routingFetches, i)
      known == [states EXCEPT ![f.of] = state]
  IN IF f.rest # <<>>
     THEN FetchOne(others, RoutingFetch(Head(f.rest), f.rev, Tail(f.rest)), known)
     ELSE routingFetches' = others /\ states' = known /\ UNCHANGED tangled

\* Mutant of EndFetch: an overtaken answer is taken, and only then its refresh ends.
EndAnyFetch(i, state) ==
  IF Live(routingFetches[i]) THEN Fetched(i, state)
  ELSE /\ routingFetches' = Without(routingFetches, i)
       /\ states' = [states EXCEPT ![routingFetches[i].of] = state]
       /\ UNCHANGED tangled

\* An overtaken answer is dropped, and the rest of its refresh.
EndFetch(i, state) ==
  IF Live(routingFetches[i]) THEN Fetched(i, state)
  ELSE /\ routingFetches' = Without(routingFetches, i)
       /\ UNCHANGED <<states, tangled>>

FetchAnswered ==
  /\ \E i \in DOMAIN routingFetches :
       \E state \in {Ready(e) : e \in routingFetches[i].met} \cup {Failed} : EndFetch(i, state)
  /\ UNCHANGED <<listed, canFetch, routingRevision, switches, routingDialogs, routed, acts>>

RetryFetch ==
  /\ Act
  /\ canFetch
  /\ \E d \in Elements(listed) :
       /\ states[d].status = "error"
       /\ FetchOne(routingFetches, RoutingFetch(d, routingRevision, <<>>), states)
  /\ UNCHANGED <<listed, canFetch, routingRevision, switches, routingDialogs, routed>>

-----------------------------------------------------------------------------
(* Switching                                                               *)

fetchVars == <<listed, canFetch, routingRevision, routingFetches>>

NoDialogOpen == \A k \in Dialogs : target[k] = None

\* The button for the other state than the one that is shown.
OpenSwitch ==
  /\ Act
  /\ canFetch /\ NoDialogOpen
  /\ \E d \in Elements(listed) :
       /\ states[d].enabled # None
       /\ target' = [target EXCEPT ![IF states[d].enabled THEN "disable" ELSE "enable"] = d]
  /\ UNCHANGED <<fetchVars, states, switches, switching, routed, tangled>>

\* At any time, also while the request is under way.
CloseSwitch ==
  /\ \E k \in Dialogs : target[k] # None /\ target' = [target EXCEPT ![k] = None]
  /\ UNCHANGED <<fetchVars, states, switches, switching, routed, acts, tangled>>

\* Without the connection there is an error in the dialog at once.
ConfirmSwitch ==
  /\ canFetch
  /\ \E k \in Dialogs \ switching : LET d == target[k] IN
       /\ d # None
       /\ switching' = switching \cup {k}
       /\ switches' = Append(switches, [of |-> d, dialog |-> k])
       /\ states' = [states EXCEPT ![d] = Loading]
       /\ tangled' = IF Switched(d) \/ \E i \in DOMAIN routingFetches :
                                         routingFetches[i].of = d /\ Live(routingFetches[i])
                     THEN tangled \cup {d} ELSE tangled
  /\ UNCHANGED <<fetchVars, target, routed, acts>>

\* Cloudflare has switched the domain, or not.
Routes(d, dialog) == IF dialog = "enable" THEN routed \cup {d} ELSE routed \ {d}
MeetsToo(d, enabled) ==
  [i \in DOMAIN routingFetches |->
     IF routingFetches[i].of = d THEN [routingFetches[i] EXCEPT !.met = @ \cup {enabled}]
     ELSE routingFetches[i]]

\* Request i is answered; its dialog may be used again.
Answered(i) ==
  /\ switches' = Without(switches, i)
  /\ switching' = switching \ {switches[i].dialog}

Carried(s) ==
  /\ routed' = Routes(s.of, s.dialog)
  /\ routingFetches' = MeetsToo(s.of, s.dialog = "enable")

\* Done: the dialog of this kind closes, whichever domain it shows by now.
SwitchDone ==
  /\ \E i \in DOMAIN switches : LET s == switches[i] IN
       /\ Answered(i) /\ Carried(s)
       /\ states' = [states EXCEPT ![s.of] = Ready(s.dialog = "enable")]
       /\ target' = [target EXCEPT ![s.dialog] = None]
  /\ UNCHANGED <<listed, canFetch, routingRevision, acts, tangled>>

\* An error, or no answer, of a request that may have been carried out.
SwitchFails ==
  /\ \E i \in DOMAIN switches : LET s == switches[i] IN
       /\ Answered(i)
       /\ Carried(s) \/ UNCHANGED <<routed, routingFetches>>
       /\ states' = [states EXCEPT ![s.of] = Failed]
  /\ UNCHANGED <<listed, canFetch, routingRevision, target, acts, tangled>>

SwitchedElsewhere ==
  /\ Act
  /\ \E d \in Domains : \E enabled \in BOOLEAN :
       /\ enabled # (d \in routed)
       /\ routed' = IF enabled THEN routed \cup {d} ELSE routed \ {d}
       /\ routingFetches' = MeetsToo(d, enabled)
       /\ tangled' = tangled \cup {d}
  /\ UNCHANGED <<listed, canFetch, states, routingRevision, switches, routingDialogs>>

Next ==
  \/ DomainsArrive \/ ConnectionChecked \/ FetchAnswered \/ RetryFetch
  \/ OpenSwitch \/ CloseSwitch \/ ConfirmSwitch \/ SwitchDone \/ SwitchFails
  \/ SwitchedElsewhere

Spec == Init /\ [][Next]_routingVars

-----------------------------------------------------------------------------
(* Properties                                                              *)

Pending(d) ==
  \/ \E i \in DOMAIN routingFetches :
       Live(routingFetches[i]) /\ d \in {routingFetches[i].of} \cup Elements(routingFetches[i].rest)
  \/ Switched(d)

\* A status shown for good is Cloudflare's: refreshes that overlap, and switches
\* between them, leave the newest; unless a switch met another request for its domain.
RoutingShown ==
  \A d \in Domains \ tangled :
    states[d].status = "ready" /\ ~Pending(d) => states[d].enabled = (d \in routed)

\* With the connection, a domain whose status is not there yet will get one.
RoutingArrives ==
  canFetch => \A d \in Elements(listed) : states[d].status \in {"idle", "loading"} => Pending(d)
=============================================================================
