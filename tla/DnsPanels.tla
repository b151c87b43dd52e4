------------------------------ MODULE DnsPanels ------------------------------
(***************************************************************************)
(* The panels with the DNS records of each domain: opened and closed by a  *)
(* button of the row, filled with the records that Cloudflare expects, in  *)
(* groups, each of which is then looked up in the public DNS, one after    *)
(* the other.                                                              *)
(*                                                                         *)
(* A coroutine is under way for each opening of a panel and for each retry *)
(* of a group; a panel can be closed, and opened again, over any of them.  *)
(***************************************************************************)
EXTENDS Naturals, Sequences, FiniteSets, UnderWay

CONSTANTS
  Panels,       \* a panel for each domain
  GroupCount,   \* number of groups of records: mx, spf and dkim
  MaxLookups,   \* bound: coroutines under way
  MaxToggles    \* bound: clicks on panels, and retries

VARIABLES
  allowed,      \* canUseCloudflare
  panels,       \* panel -> its state; "closed": none
  revisions,    \* panel -> revision
  lookups,      \* coroutines under way: at 0 for the records, else for a group
  toggles,      \* number of clicks so far
  opened        \* ghost: the panels whose button was last clicked to open them

panelVars == <<allowed, panels, revisions, lookups, toggles, opened>>

Closed == [status |-> "closed", groups |-> <<>>]

Init ==
  /\ allowed \in BOOLEAN
  /\ panels = [p \in Panels |-> Closed]
  /\ revisions = [p \in Panels |-> 0]
  /\ lookups = <<>> /\ toggles = 0 /\ opened = {}

Toggles == toggles < MaxToggles /\ toggles' = toggles + 1
Lookup(p, rev, at, goesOn) == [of |-> p, rev |-> rev, at |-> at, goesOn |-> goesOn]
Current(l) == l.rev = revisions[l.of]

ConnectionChanged ==
  /\ Toggles
  /\ allowed' = ~allowed
  /\ UNCHANGED <<panels, revisions, lookups, opened>>

\* toggle of a closed panel: its records are fetched.
Open ==
  /\ Toggles
  /\ allowed /\ Len(lookups) < MaxLookups
  /\ \E p \in Panels :
       /\ panels[p].status = "closed"
       /\ revisions' = [revisions EXCEPT ![p] = @ + 1]
       /\ lookups' = Append(lookups, Lookup(p, revisions[p] + 1, 0, TRUE))
       /\ panels' = [panels EXCEPT ![p].status = "loading"]
       /\ opened' = opened \cup {p}
  /\ UNCHANGED allowed

\* Mutant of Collapse: the requests under way are still current.
CollapseOnly(p) ==
  /\ panels' = [panels EXCEPT ![p] = Closed]
  /\ UNCHANGED revisions

\* The panel goes, and its requests under way are overtaken.
Collapse(p) ==
  /\ panels' = [panels EXCEPT ![p] = Closed]
  /\ revisions' = [revisions EXCEPT ![p] = @ + 1]

Close ==
  /\ Toggles
  /\ allowed
  /\ \E p \in Panels :
       /\ panels[p].status # "closed"
       /\ Collapse(p)
       /\ opened' = opened \ {p}
  /\ UNCHANGED <<allowed, lookups>>

\* The groups that a coroutine still has to look up: those with records.
Left(l, groups) == {g \in l.at + 1 .. Len(groups) : l.goesOn /\ groups[g] # "incorrect"}

\* The coroutine of an opened panel goes on to the first of them.
GoOn(l, groups, others) ==
  \/ \E next \in Left(l, groups) :
       /\ \A g \in Left(l, groups) : next <= g
       /\ lookups' = Append(others, [l EXCEPT !.at = next])
       /\ panels' = [panels EXCEPT ![l.of] = [status |-> "ready",
                       groups |-> [groups EXCEPT ![next] = "checking"]]]
  \/ /\ Left(l, groups) = {}
     /\ lookups' = others
     /\ panels' = [panels EXCEPT ![l.of] = [status |-> "ready", groups |-> groups]]

\* buildGroups: what Cloudflare expects of each group; of some of them, nothing.
\* (Records have a content: the group of an MX record without one would be skipped by
\* verifyItem and stay pending, use-domain-dns-records.ts:126.)
RecordsArrive ==
  /\ \E i \in DOMAIN lookups : LET l == lookups[i]
                                   others == Without(lookups, i) IN
       /\ l.at = 0
       /\ IF Current(l)
          THEN \E groups \in [1 .. GroupCount -> {"pending", "incorrect"}] :
                 GoOn(l, groups, others)
          ELSE lookups' = others /\ UNCHANGED panels
  /\ UNCHANGED <<allowed, revisions, toggles, opened>>

RecordsFail ==
  /\ \E i \in DOMAIN lookups : LET l == lookups[i] IN
       /\ l.at = 0
       /\ lookups' = Without(lookups, i)
       /\ panels' = IF Current(l) THEN [panels EXCEPT ![l.of].status = "error"] ELSE panels
  /\ UNCHANGED <<allowed, revisions, toggles, opened>>

\* checkDnsGroupViaDoh: all expected values are found, or not, or there is no answer.
GroupVerified ==
  /\ \E i \in DOMAIN lookups : LET l == lookups[i]
                                   others == Without(lookups, i) IN
       /\ l.at # 0
       /\ IF Current(l)
          THEN \E status \in {"correct", "notFound", "error"} :
                 GoOn(l, [panels[l.of].groups EXCEPT ![l.at] = status], others)
          ELSE lookups' = others /\ UNCHANGED panels
  /\ UNCHANGED <<allowed, revisions, toggles, opened>>

\* The button of a group with an error.
RetryRecord ==
  /\ Toggles
  /\ allowed /\ Len(lookups) < MaxLookups
  /\ \E p \in Panels : \E g \in DOMAIN panels[p].groups :
       /\ panels[p].groups[g] = "error"
       /\ panels' = [panels EXCEPT ![p].groups[g] = "checking"]
       /\ lookups' = Append(lookups, Lookup(p, revisions[p], g, FALSE))
  /\ UNCHANGED <<allowed, revisions, opened>>

Next ==
  \/ ConnectionChanged \/ Open \/ Close
  \/ RecordsArrive \/ RecordsFail \/ GroupVerified \/ RetryRecord

Spec == Init /\ [][Next]_panelVars

-----------------------------------------------------------------------------
(* Properties                                                              *)

\* A panel is open as its button was last clicked: no late answer opens it again.
\* And what an open panel shows as under way is: its records are being fetched, or
\* its groups looked up, by a request that has not been overtaken; each group by one.
PanelsAsAsked ==
  \A p \in Panels :
    LET live == {i \in DOMAIN lookups : lookups[i].of = p /\ Current(lookups[i])} IN
    /\ panels[p].status # "closed" <=> p \in opened
    /\ panels[p].status = "loading" => \E i \in live : lookups[i].at = 0
    /\ \A g \in DOMAIN panels[p].groups :
         /\ panels[p].groups[g] = "checking" =>
              Cardinality({i \in live : lookups[i].at = g}) = 1
         /\ panels[p].groups[g] = "pending" =>
              \E i \in live : lookups[i].goesOn /\ lookups[i].at < g
=============================================================================
